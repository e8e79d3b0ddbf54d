-------------------------- MODULE OperationsProofs --------------------------
(***************************************************************************)
(* The operators' scripts keep stores beside the chain: the address books  *)
(* and deployment records of ProxyDeployments, the result file and the     *)
(* batches of TokenLocks.  A script writes them one after the other and    *)
(* may stop in between, so a store and the chain do not agree at all       *)
(* times.  What carries both proofs is that every store, on its own, only  *)
(* claims what is true of the chain for ever: implementations never        *)
(* change, and locks are never unmade.                                     *)
(*                                                                         *)
(* Deployments of a proxied contract come first, for any operators, code,  *)
(* kinds of proxy, and numbers of implementations, proxies, crashes and    *)
(* upgrades by others; then the token locks, for any deploy file, amounts, *)
(* scenarios, and numbers of tasks and failures.                           *)
(***************************************************************************)
EXTENDS ProxyDeployments, TokenLocks, SumTheorems, SequenceTheorems

-----------------------------------------------------------------------------
(* The inductive invariant.                                                *)

(* What metadata of an address claims is true of the code there.           *)
SoundMetadata(metadata, address, codes) ==
  /\ metadata \in DeploymentMetadata
  /\ metadata.verified \in {0, address}
  /\ metadata.hash # NoHash =>
       /\ metadata.known
       /\ address \in 1 .. Len(codes)
       /\ codes[address].hash = metadata.hash
       /\ metadata.args # NoArgs => codes[address].args = metadata.args
       /\ metadata.block # 0 => metadata.block = address

(* The entry of a contract with a proxy.  The scripts know all of a pending *)
(* implementation they have deployed themselves.                           *)
SoundProxied(entry, type, codes, count) ==
  /\ entry.proxy /\ entry.address \in 1 .. count
  /\ entry.implementation \in 1 .. Len(codes) /\ entry.pending \in 0 .. Len(codes)
  /\ SoundMetadata(entry.pendingDeployment, entry.pending, codes)
  /\ entry.pending # 0 /\ type # "shared" =>
       entry.pendingDeployment.known /\ entry.pendingDeployment.block = entry.pending

(* What it says of the current implementation is true, if no sync stopped. *)
Whole(entry, codes) ==
  SoundMetadata(entry.implementationDeployment, entry.implementation, codes)

SoundBook(entry, type, codes, count) ==
  /\ entry \in AddressBookEntry
  /\ entry = NoEntry \/ SoundProxied(entry, type, codes, count)

(* The entry of a shared implementation is always complete.                *)
SoundContract(entry, codes) ==
  /\ ~entry.proxy /\ entry.address \in 1 .. Len(codes)
  /\ SoundMetadata(entry.deployment, entry.address, codes)
  /\ entry.deployment.known /\ entry.deployment.block = entry.address

SoundShared(entry, codes) ==
  /\ entry \in AddressBookEntry
  /\ entry = NoEntry \/ SoundContract(entry, codes)

(* A record with a receipt is of the deployment it names.                  *)
SoundRecord(record, codes) ==
  /\ record \in ImplementationRecord
  /\ record = NoRecord \/ record.address \in 1 .. Len(codes)
  /\ record.block # 0 =>
       /\ record.block = record.address
       /\ codes[record.address].hash = record.hash
       /\ codes[record.address].args = record.args

SoundRecords(operatorRecords, codes, count) ==
  /\ operatorRecords \in DeploymentRecords
  /\ SoundRecord(operatorRecords.implementation, codes)
  /\ operatorRecords.own \in 0 .. count /\ operatorRecords.proxy \in 0 .. count

SoundProxy(proxy, codes) ==
  /\ proxy \in [implementation: 1 .. MaxCode, next: 0 .. MaxCode]
  /\ proxy.implementation \in 1 .. Len(codes) /\ proxy.next \in 0 .. Len(codes)

SoundBundle(file, codes, count) ==
  file \in Bundles /\ file.proxy \in 1 .. count /\ file.implementation \in 1 .. Len(codes)

SoundFile(file, codes, count) == file = NoBundle \/ SoundBundle(file, codes, count)

ChainSound ==
  /\ code \in Seq(Artifacts) /\ Len(code) <= MaxCode
  /\ proxies \in Seq([implementation: 1 .. MaxCode, next: 0 .. MaxCode])
  /\ Len(proxies) <= MaxProxies
  /\ \A p \in 1 .. Len(proxies) : SoundProxy(proxies[p], code)

TeamSound ==
  /\ proxyType \in ProxyTypes /\ governorIsSafe \in BOOLEAN
  /\ Team \in SUBSET Operators \ {{}} /\ artifact \in [Team -> Artifacts]
  /\ builds \in Nat /\ crashes \in Nat /\ external \in Nat

BookSound ==
  /\ torn \in BOOLEAN /\ SoundBook(book, proxyType, code, Len(proxies))
  /\ ~torn => Whole(book, code)
SharedSound == SoundShared(shared, code)

(* A pending shared implementation was the shared one once.                *)
PendingOld == proxyType = "shared" => book.pending <= shared.address

RecordsAreSound ==
  /\ records \in [Operators -> DeploymentRecords]
  /\ \A o \in Operators : SoundRecords(records[o], code, Len(proxies))

FilesSound ==
  /\ bundle \in [Operators -> Bundles]
  /\ \A o \in Operators : SoundFile(bundle[o], code, Len(proxies))
  /\ \A file \in proposed : SoundBundle(file, code, Len(proxies))

Steps == {"implement", "share", "sync", "deploy", "pend", "proxy", "save", "book", "resync",
          "claim", "upgrade", "accept", "archive", "verify"}

RunningScript ==
  [operator: Operators, name: Scripts, step: Steps, implementation: 0 .. MaxCode]

(* The script has just deployed its implementation.                        *)
HasDeployed ==
  /\ script.implementation \in 1 .. Len(code)
  /\ code[script.implementation] = artifact[script.operator]

(* Its records, if it has any, are of the shared implementation.           *)
RecordIsShared ==
  proxyType = "shared" /\ EntryExists(shared) =>
    \/ records[script.operator].implementation = NoRecord
    \/ records[script.operator].implementation.address = shared.address

(* What a script relies on between two steps.                              *)
ScriptSound ==
  script # Idle =>
    /\ script \in RunningScript /\ script.operator \in Team
    /\ script.step \in {"implement", "share", "sync"} => script.name \in {"deploy", "upgrade"}
    /\ script.step = "share" => HasDeployed /\ script.implementation > shared.address
    /\ script.name = "deploy" /\ script.step = "deploy" =>
         RecordIsShared /\ (EntryExists(book) => records[script.operator].proxy # 0)
    /\ script.name = "deploy" /\ script.step = "pend" =>
         HasDeployed /\ script.implementation > book.pending /\ proxyType # "shared"
    /\ script.name = "deploy" /\ script.step \in {"proxy", "save", "book"} =>
         /\ ~EntryExists(book)
         /\ script.implementation \in 1 .. Len(code)
         /\ proxyType # "shared" => HasDeployed
    /\ script.name = "deploy" /\ script.step = "save" => records[script.operator].proxy # 0
    /\ script.name = "deploy" /\ script.step = "book" => records[script.operator].own # 0
    /\ script.name = "upgrade" /\ script.step \in {"claim", "save"} => RecordIsShared

IInv ==
  ChainSound /\ TeamSound /\ BookSound /\ SharedSound /\ PendingOld /\ RecordsAreSound
    /\ FilesSound /\ ScriptSound

-----------------------------------------------------------------------------
(* Whatever is deployed later, what was claimed stays true.                *)

Extends(codes, more) ==
  /\ Len(codes) \in Nat /\ Len(more) \in Nat /\ Len(codes) <= Len(more)
  /\ \A a \in 1 .. Len(codes) : more[a] = codes[a]

LEMMA Constants ==
  /\ NoHash \notin Hashes /\ MaxCode \in Nat \ {0} /\ MaxProxies \in Nat \ {0}
  /\ ProxyTypes \subseteq {"graph", "transparent", "shared"}
BY BookValuesAssumption, ProxyDeploymentsAssumption

LEMMA AppendExtends ==
  ASSUME NEW codes \in Seq(Artifacts), NEW build \in Artifacts
  PROVE  /\ Extends(codes, Append(codes, build)) /\ Append(codes, build) \in Seq(Artifacts)
         /\ Len(Append(codes, build)) = Len(codes) + 1
         /\ Append(codes, build)[Len(codes) + 1] = build
BY DEF Extends

LEMMA ExtendsItself ==
  ASSUME NEW codes \in Seq(Artifacts)
  PROVE  Extends(codes, codes)
BY DEF Extends

LEMMA MetadataStays ==
  ASSUME NEW metadata, NEW address, NEW codes, NEW more,
         SoundMetadata(metadata, address, codes), Extends(codes, more)
  PROVE  SoundMetadata(metadata, address, more)
BY DEF SoundMetadata, Extends

LEMMA BookStays ==
  ASSUME NEW entry, NEW type, NEW codes, NEW more, NEW count \in Nat, NEW later \in Nat,
         SoundBook(entry, type, codes, count), Extends(codes, more), count <= later
  PROVE  SoundBook(entry, type, more, later)
<1>1. CASE entry = NoEntry
  BY <1>1 DEF SoundBook
<1>2. CASE SoundProxied(entry, type, codes, count)
  <2>1. SoundMetadata(entry.pendingDeployment, entry.pending, more)
    BY <1>2, MetadataStays DEF SoundProxied
  <2>2. SoundProxied(entry, type, more, later)
    BY <1>2, <2>1 DEF SoundProxied, Extends
  <2> QED BY <2>2 DEF SoundBook
<1> QED
  BY <1>1, <1>2 DEF SoundBook

LEMMA SharedStays ==
  ASSUME NEW entry, NEW codes, NEW more,
         SoundShared(entry, codes), Extends(codes, more)
  PROVE  SoundShared(entry, more)
<1>1. CASE entry = NoEntry
  BY <1>1 DEF SoundShared
<1>2. CASE SoundContract(entry, codes)
  <2>1. SoundMetadata(entry.deployment, entry.address, more)
    BY <1>2, MetadataStays DEF SoundContract
  <2>2. SoundContract(entry, more)
    BY <1>2, <2>1 DEF SoundContract, Extends
  <2> QED BY <2>2 DEF SoundShared
<1> QED
  BY <1>1, <1>2 DEF SoundShared

LEMMA RecordStays ==
  ASSUME NEW record, NEW codes, NEW more,
         SoundRecord(record, codes), Extends(codes, more)
  PROVE  SoundRecord(record, more)
<1>1. CASE record = NoRecord
  BY <1>1 DEF SoundRecord, NoRecord
<1>2. CASE record.address \in 1 .. Len(codes)
  BY <1>2 DEF SoundRecord, Extends
<1> QED
  BY <1>1, <1>2 DEF SoundRecord

LEMMA RecordsStay ==
  ASSUME NEW operatorRecords, NEW codes, NEW more, NEW count \in Nat, NEW later \in Nat,
         SoundRecords(operatorRecords, codes, count), Extends(codes, more), count <= later
  PROVE  SoundRecords(operatorRecords, more, later)
<1>1. SoundRecord(operatorRecords.implementation, more)
  BY RecordStays DEF SoundRecords
<1> QED
  BY <1>1 DEF SoundRecords

LEMMA BundleStays ==
  ASSUME NEW file, NEW codes, NEW more, NEW count \in Nat, NEW later \in Nat,
         Extends(codes, more), count <= later
  PROVE  /\ SoundBundle(file, codes, count) => SoundBundle(file, more, later)
         /\ SoundFile(file, codes, count) => SoundFile(file, more, later)
BY DEF SoundBundle, SoundFile, Extends

LEMMA ProxyStays ==
  ASSUME NEW proxy, NEW codes, NEW more,
         SoundProxy(proxy, codes), Extends(codes, more)
  PROVE  SoundProxy(proxy, more)
BY DEF SoundProxy, Extends

(* All that is left alone stays sound when code or proxies are deployed.   *)
LEMMA StoresStay ==
  ASSUME IInv, Extends(code, code'), Len(proxies') \in Nat, Len(proxies) <= Len(proxies')
  PROVE  /\ SoundBook(book, proxyType, code', Len(proxies'))
         /\ ~torn => Whole(book, code')
         /\ SoundShared(shared, code')
         /\ \A o \in Operators : SoundRecords(records[o], code', Len(proxies'))
         /\ \A o \in Operators : SoundFile(bundle[o], code', Len(proxies'))
         /\ \A file \in proposed : SoundBundle(file, code', Len(proxies'))
         /\ \A p \in 1 .. Len(proxies) : SoundProxy(proxies[p], code')
<1>1. Len(proxies) \in Nat
  BY DEF IInv, ChainSound
<1>2. SoundBook(book, proxyType, code', Len(proxies')) /\ (~torn => Whole(book, code'))
  BY <1>1, BookStays, MetadataStays DEF IInv, BookSound, Whole
<1>3. SoundShared(shared, code')
  BY SharedStays DEF IInv, SharedSound
<1>4. \A o \in Operators : SoundRecords(records[o], code', Len(proxies'))
  BY <1>1, RecordsStay DEF IInv, RecordsAreSound
<1>5. /\ \A o \in Operators : SoundFile(bundle[o], code', Len(proxies'))
      /\ \A file \in proposed : SoundBundle(file, code', Len(proxies'))
  BY <1>1, BundleStays DEF IInv, FilesSound
<1>6. \A p \in 1 .. Len(proxies) : SoundProxy(proxies[p], code')
  BY ProxyStays DEF IInv, ChainSound
<1> QED
  BY <1>2, <1>3, <1>4, <1>5, <1>6

-----------------------------------------------------------------------------
(* What is written into the book.                                          *)

LEMMA NothingClaimed ==
  ASSUME NEW address, NEW codes
  PROVE  /\ SoundMetadata(NoMetadata, address, codes)
         /\ SoundMetadata(WipedMetadata, address, codes)
BY DEF SoundMetadata, NoMetadata, WipedMetadata, DeploymentMetadata

LEMMA RecordedClaims ==
  ASSUME NEW codes \in Seq(Artifacts), NEW address \in 1 .. Len(codes), NEW build \in Artifacts,
         codes[address] = build, NEW metadata \in DeploymentMetadata,
         metadata.hash = build.hash, metadata.args = build.args,
         metadata.block \in {0, address}, metadata.known, metadata.verified = 0
  PROVE  SoundMetadata(metadata, address, codes)
BY DEF SoundMetadata

LEMMA DeployedClaims ==
  ASSUME IInv, NEW operator \in Team, NEW codes \in Seq(Artifacts),
         NEW address \in 1 .. Len(codes), codes[address] = artifact[operator],
         NEW metadata, metadata = DeployedMetadata(operator, address)
  PROVE  /\ metadata \in DeploymentMetadata /\ SoundMetadata(metadata, address, codes)
         /\ metadata.known /\ metadata.block = address
<1>1. /\ artifact[operator] \in Artifacts
      /\ artifact[operator].hash \in Hashes /\ artifact[operator].args \in ArgValues
      /\ address \in Nat
  BY DEF IInv, TeamSound, Artifacts
<1>2. NoMetadata \in DeploymentMetadata /\ NoMetadata.verified = 0
  BY DEF NoMetadata, DeploymentMetadata
<1>3. /\ metadata \in DeploymentMetadata
      /\ metadata.hash = artifact[operator].hash /\ metadata.args = artifact[operator].args
      /\ metadata.block = address /\ metadata.known /\ metadata.verified = 0
  BY <1>1, <1>2 DEF DeployedMetadata, ArtifactHash, DeploymentMetadata
<1> QED
  BY <1>1, <1>3, RecordedClaims

LEMMA EntryTypes ==
  NoMetadata \in DeploymentMetadata /\ WipedMetadata \in DeploymentMetadata
    /\ NoEntry \in AddressBookEntry
<1>1. NoMetadata \in DeploymentMetadata /\ WipedMetadata \in DeploymentMetadata
  BY DEF NoMetadata, WipedMetadata, DeploymentMetadata
<1> QED
  BY <1>1 DEF NoEntry, AddressBookEntry

LEMMA NewProxy ==
  ASSUME NEW address \in Nat, NEW implementation \in Nat, NEW metadata \in DeploymentMetadata,
         NEW entry, entry = ProxyUpdate(address, implementation, metadata)
  PROVE  /\ entry \in AddressBookEntry /\ entry.proxy
         /\ entry.address = address /\ entry.implementation = implementation
         /\ entry.pending = 0 /\ entry.implementationDeployment = metadata
         /\ entry.pendingDeployment = NoMetadata
BY EntryTypes DEF ProxyUpdate, SetProxy, SetImplementationDeploymentMetadata, NoEntry,
     AddressBookEntry

LEMMA NewContract ==
  ASSUME NEW address \in Nat, NEW metadata \in DeploymentMetadata,
         NEW entry, entry = ContractUpdate(address, metadata)
  PROVE  /\ entry \in AddressBookEntry /\ ~entry.proxy
         /\ entry.address = address /\ entry.deployment = metadata
         /\ entry.pending = 0
BY EntryTypes DEF ContractUpdate, SetContract, SetDeploymentMetadata, NoEntry, AddressBookEntry

(* An entry that is replaced is sound when its new implementation is.      *)
LEMMA NewProxied ==
  ASSUME NEW type, NEW codes, NEW count, NEW address \in 1 .. count, count \in Nat,
         NEW implementation \in 1 .. Len(codes), Len(codes) \in Nat,
         NEW metadata \in DeploymentMetadata, SoundMetadata(metadata, implementation, codes)
  PROVE  /\ SoundBook(ProxyUpdate(address, implementation, metadata), type, codes, count)
         /\ Whole(ProxyUpdate(address, implementation, metadata), codes)
         /\ ProxyUpdate(address, implementation, metadata).pending = 0
<1> DEFINE entry == ProxyUpdate(address, implementation, metadata)
<1>1. /\ entry \in AddressBookEntry /\ entry.proxy
      /\ entry.address = address /\ entry.implementation = implementation
      /\ entry.pending = 0 /\ entry.implementationDeployment = metadata
      /\ entry.pendingDeployment = NoMetadata
  <2>1. address \in Nat /\ implementation \in Nat
    OBVIOUS
  <2> HIDE DEF entry
  <2> QED BY <2>1, NewProxy DEF entry
<1> HIDE DEF entry
<1>2. SoundMetadata(entry.pendingDeployment, entry.pending, codes)
  BY <1>1, NothingClaimed
<1>3. SoundProxied(entry, type, codes, count) /\ Whole(entry, codes)
  BY <1>1, <1>2 DEF SoundProxied, Whole
<1> QED
  BY <1>1, <1>3 DEF SoundBook, entry

(* An implementation becomes pending.                                      *)
LEMMA PendSound ==
  ASSUME NEW entry \in AddressBookEntry, NEW type, NEW codes, NEW count,
         SoundProxied(entry, type, codes, count), Len(codes) \in Nat,
         NEW address \in 1 .. Len(codes), NEW metadata, SoundMetadata(metadata, address, codes),
         type # "shared" => metadata.known /\ metadata.block = address
  PROVE  LET new == SetPendingImplementationWithMetadata(entry, address, metadata)
         IN  /\ SoundBook(new, type, codes, count) /\ SoundProxied(new, type, codes, count)
             /\ Whole(entry, codes) => Whole(new, codes)
             /\ new.pending = address /\ new.address = entry.address
<1> DEFINE new == SetPendingImplementationWithMetadata(entry, address, metadata)
<1>1. /\ new \in AddressBookEntry /\ new.pending = address /\ new.pendingDeployment = metadata
      /\ new.proxy = entry.proxy /\ new.address = entry.address
      /\ new.implementation = entry.implementation
      /\ new.implementationDeployment = entry.implementationDeployment
  <2>1. metadata \in DeploymentMetadata /\ address \in Nat
    BY DEF SoundMetadata
  <2>2. new = [entry EXCEPT !.pending = address, !.pendingDeployment = metadata]
    BY DEF SetPendingImplementationWithMetadata, SoundProxied
  <2> HIDE DEF DeploymentMetadata, new
  <2> QED BY <2>1, <2>2 DEF AddressBookEntry
<1> HIDE DEF new
<1>2. SoundProxied(new, type, codes, count) /\ (Whole(entry, codes) => Whole(new, codes))
  BY <1>1 DEF SoundProxied, Whole
<1> QED
  BY <1>1, <1>2 DEF SoundBook, new

-----------------------------------------------------------------------------
(* Sync.                                                                   *)

(* How the pending implementation of an entry may change: it runs, and     *)
(* takes its metadata along.                                               *)
Promotes(entry, new, implementation) ==
  /\ entry.pending = implementation /\ new.pending = 0
  /\ new.implementation = entry.pending
  /\ new.implementationDeployment = entry.pendingDeployment

LEMMA ReconciledSound ==
  ASSUME NEW entry \in AddressBookEntry, NEW type, NEW codes, NEW count,
         SoundProxied(entry, type, codes, count), Len(codes) \in Nat,
         NEW implementation \in 1 .. Len(codes)
  PROVE  LET new == Reconciled(entry, implementation)
         IN  /\ new \in AddressBookEntry /\ SoundProxied(new, type, codes, count)
             /\ new = entry \/ Whole(new, codes)
             /\ new.address = entry.address
             /\ new.pending = entry.pending \/ Promotes(entry, new, implementation)
<1> DEFINE new == Reconciled(entry, implementation)
<1>1. CASE HasPending(entry) /\ entry.pending = implementation
  <2>1. /\ new \in AddressBookEntry /\ new.proxy = entry.proxy /\ new.address = entry.address
        /\ new.implementation = entry.pending
        /\ new.implementationDeployment = entry.pendingDeployment
        /\ new.pending = 0 /\ new.pendingDeployment = NoMetadata
    <3>1. NoMetadata \in DeploymentMetadata
      BY DEF NoMetadata, DeploymentMetadata
    <3>2. new = PromotePendingImplementationWithMetadata(entry)
      BY <1>1 DEF Reconciled
    <3> HIDE DEF new, DeploymentMetadata, NoMetadata
    <3> QED
      BY <3>1, <3>2 DEF PromotePendingImplementationWithMetadata, AddressBookEntry
  <2> HIDE DEF new
  <2>2. SoundMetadata(new.pendingDeployment, new.pending, codes)
    BY <2>1, NothingClaimed
  <2>3. SoundProxied(new, type, codes, count) /\ Whole(new, codes)
    BY <1>1, <2>1, <2>2 DEF SoundProxied, HasPending, Whole
  <2>4. Promotes(entry, new, implementation)
    BY <1>1, <2>1 DEF Promotes
  <2> QED BY <2>1, <2>3, <2>4 DEF new
<1>2. CASE ChangedOutside(entry, implementation)
  <2>1. /\ new \in AddressBookEntry /\ new.proxy = entry.proxy /\ new.address = entry.address
        /\ new.implementation = implementation
        /\ new.implementationDeployment = WipedMetadata
        /\ new.pending = entry.pending /\ new.pendingDeployment = entry.pendingDeployment
    <3>1. WipedMetadata \in DeploymentMetadata
      BY DEF WipedMetadata, NoMetadata, DeploymentMetadata
    <3>2. new = SetImplementationDeploymentMetadata(SetImplementation(entry, implementation),
                                                    WipedMetadata)
      BY <1>2 DEF Reconciled, ChangedOutside
    <3>3. new = [entry EXCEPT !.implementation = implementation,
                              !.implementationDeployment = WipedMetadata]
      BY <3>2 DEF SetImplementationDeploymentMetadata, SetImplementation, AddressBookEntry
    <3>4. implementation \in Nat
      OBVIOUS
    <3> HIDE DEF new
    <3> QED
      BY <3>1, <3>3, <3>4 DEF AddressBookEntry
  <2> HIDE DEF new
  <2>2. SoundMetadata(new.implementationDeployment, new.implementation, codes)
    BY <2>1, NothingClaimed
  <2>3. SoundProxied(new, type, codes, count) /\ Whole(new, codes)
    BY <2>1, <2>2 DEF SoundProxied, Whole
  <2> QED BY <2>1, <2>3 DEF new
<1>3. CASE ~(HasPending(entry) /\ entry.pending = implementation)
           /\ ~ChangedOutside(entry, implementation)
  BY <1>3 DEF Reconciled
<1> QED
  BY <1>1, <1>2, <1>3

LEMMA ImportedSound ==
  ASSUME NEW record, NEW codes, SoundRecord(record, codes), Len(codes) \in 0 .. MaxCode,
         NEW address \in 1 .. Len(codes), NEW local \in Artifacts,
         NEW args \in ArgValues \union {NoArgs}
  PROVE  LET new == ImportedRecord(record, address, local, args)
         IN  SoundRecord(new, codes) /\ new.address = address
<1> DEFINE new == ImportedRecord(record, address, local, args)
<1> 0 \in 0 .. MaxCode /\ address \in 0 .. MaxCode
  BY Constants
<1>1. CASE record.address = 0
  <2>1. new = [NoRecord EXCEPT !.address = address, !.hash = local.hash, !.args = args]
    BY <1>1 DEF ImportedRecord
  <2> HIDE DEF new
  <2>2. SoundRecord(new, codes) /\ new.address = address
    <3>1. new = [address |-> address, hash |-> local.hash, args |-> args, block |-> 0]
      BY <2>1 DEF NoRecord
    <3>2. local.hash \in Hashes
      BY DEF Artifacts
    <3> QED BY <3>1, <3>2 DEF SoundRecord, ImplementationRecord
  <2> QED BY <2>2 DEF new
<1>2. CASE record.address # 0 /\ record.address # address
  <2>1. new = [record EXCEPT !.address = address, !.block = 0]
    BY <1>2 DEF ImportedRecord
  <2> HIDE DEF new
  <2>2. SoundRecord(new, codes) /\ new.address = address
    BY <2>1 DEF SoundRecord, ImplementationRecord
  <2> QED BY <2>2 DEF new
<1>3. CASE record.address # 0 /\ record.address = address
  BY <1>3 DEF ImportedRecord
<1> QED
  BY <1>1, <1>2, <1>3

LEMMA ArgumentsSound ==
  ASSUME NEW record, NEW codes, SoundRecord(record, codes), record.address # 0,
         NEW metadata \in DeploymentMetadata
  PROVE  LET new == WithArguments(record, metadata)
         IN  SoundRecord(new, codes) /\ new.address = record.address
<1> DEFINE new == WithArguments(record, metadata)
<1>1. CASE record.args = NoArgs /\ metadata.args # NoArgs
  <2>1. new = [record EXCEPT !.args = metadata.args, !.block = 0]
    BY <1>1 DEF WithArguments
  <2>2. record.address \in 1 .. Len(codes) /\ 0 \in 0 .. MaxCode
    BY Constants DEF SoundRecord, NoRecord
  <2> HIDE DEF new
  <2>3. SoundRecord(new, codes) /\ new.address = record.address
    BY <2>1, <2>2 DEF SoundRecord, ImplementationRecord, DeploymentMetadata
  <2> QED BY <2>3 DEF new
<1>2. CASE ~(record.args = NoArgs /\ metadata.args # NoArgs)
  BY <1>2 DEF WithArguments
<1> QED
  BY <1>1, <1>2

(* A record can only fill in what the book does not know of the same       *)
(* deployment; a pending implementation has nothing to fill in.            *)
LEMMA BackfilledSound ==
  ASSUME NEW entry \in AddressBookEntry, NEW type, type # "shared", NEW codes, NEW count,
         SoundProxied(entry, type, codes, count), Len(codes) \in Nat,
         NEW record, SoundRecord(record, codes), NEW local \in Artifacts,
         record.address = Candidate(entry).address, Candidate(entry).metadata.hash = local.hash
  PROVE  LET new == Backfilled(entry, record, local)
         IN  /\ new \in AddressBookEntry /\ SoundProxied(new, type, codes, count)
             /\ new.address = entry.address /\ new.pending = entry.pending
             /\ new.implementation = entry.implementation
             /\ \/ new = entry
                \/ /\ entry.pending = 0
                   /\ Whole(entry, codes) =>
                        Whole(new, codes) /\ entry.implementationDeployment.block = 0
<1> DEFINE new == Backfilled(entry, record, local)
<1>1. CASE ~RecordIsNewer(record, Candidate(entry).metadata)
  BY <1>1 DEF Backfilled
<1>2. CASE RecordIsNewer(record, Candidate(entry).metadata) /\ HasPending(entry)
  <2>1. /\ Candidate(entry).metadata = entry.pendingDeployment
        /\ Candidate(entry).address = entry.pending
    BY <1>2 DEF Candidate
  <2>2. /\ entry.pendingDeployment.known /\ entry.pendingDeployment.block = entry.pending
        /\ entry.pending # 0 /\ entry.pending \in Nat
    BY <1>2 DEF SoundProxied, HasPending
  <2>3. record.block \in Nat /\ record.block \in {0, entry.pending}
    BY <2>1, Constants DEF SoundRecord, ImplementationRecord
  <2> QED BY <1>2, <2>1, <2>2, <2>3 DEF RecordIsNewer
<1>3. CASE RecordIsNewer(record, Candidate(entry).metadata) /\ ~HasPending(entry)
  <2> DEFINE old == entry.implementationDeployment
             metadata == RecordMetadata(record, local)
  <2>1. /\ Candidate(entry).metadata = old /\ Candidate(entry).address = entry.implementation
        /\ entry.pending = 0
    BY <1>3 DEF Candidate, HasPending, GetDeploymentMetadata, SoundProxied
  <2>2. local.hash \in Hashes /\ local.hash # NoHash
    BY Constants DEF Artifacts
  <2>3. /\ record.block \in Nat /\ record.block \in {0, entry.implementation}
        /\ record.address = entry.implementation
        /\ record.args \in ArgValues \union {NoArgs}
        /\ entry.implementation \in 1 .. Len(codes)
    BY <2>1, Constants DEF SoundRecord, ImplementationRecord, SoundProxied
  <2>4. metadata \in DeploymentMetadata
    BY <2>2, <2>3 DEF RecordMetadata, NoMetadata, DeploymentMetadata
  <2>5. ASSUME Whole(entry, codes)
        PROVE  old.block = 0 /\ SoundMetadata(metadata, entry.implementation, codes)
    <3>1. SoundMetadata(old, entry.implementation, codes)
      BY <2>5 DEF Whole
    <3>2. /\ old.known /\ codes[entry.implementation].hash = local.hash
          /\ old.block # 0 => old.block = entry.implementation
          /\ old.block \in Nat
      BY <2>1, <2>2, <3>1 DEF SoundMetadata, DeploymentMetadata
    <3> HIDE DEF old
    <3>3. old.block = 0 /\ record.block = entry.implementation
      BY <1>3, <2>1, <2>3, <3>2 DEF RecordIsNewer
    <3>4. codes[entry.implementation].args = record.args
      BY <2>3, <3>3 DEF SoundRecord
    <3>5. /\ metadata.hash = local.hash /\ metadata.args = record.args
          /\ metadata.block = record.block /\ metadata.known /\ metadata.verified = 0
      BY DEF RecordMetadata, NoMetadata
    <3> HIDE DEF metadata
    <3>6. SoundMetadata(metadata, entry.implementation, codes)
      BY <2>2, <2>3, <2>4, <3>2, <3>3, <3>4, <3>5 DEF SoundMetadata
    <3> QED BY <3>3, <3>6
  <2> HIDE DEF metadata
  <2>6. /\ new \in AddressBookEntry /\ new.proxy = entry.proxy /\ new.address = entry.address
        /\ new.implementation = entry.implementation
        /\ new.implementationDeployment = metadata
        /\ new.pending = entry.pending /\ new.pendingDeployment = entry.pendingDeployment
    <3>1. new = SetImplementationDeploymentMetadata(entry, metadata)
      BY <1>3 DEF Backfilled, metadata
    <3> HIDE DEF new, DeploymentMetadata
    <3> QED BY <2>4, <3>1 DEF SetImplementationDeploymentMetadata, AddressBookEntry
  <2> HIDE DEF new
  <2>7. SoundProxied(new, type, codes, count) /\ (Whole(entry, codes) => Whole(new, codes))
    BY <2>5, <2>6 DEF SoundProxied, Whole
  <2> QED BY <2>1, <2>5, <2>6, <2>7 DEF new, old
<1> QED
  BY <1>1, <1>2, <1>3

(* The sync of a shared implementation changes nothing in the book, which  *)
(* knows all of it; the record is one of it, if there is any.              *)
LEMMA SharedSyncSound ==
  ASSUME IInv, NEW operator \in Team
  PROVE  LET synced == SharedSynced(operator)
         IN  /\ synced.shared = shared
             /\ synced.records \in [Operators -> DeploymentRecords]
             /\ \A o \in Operators :
                  /\ SoundRecords(synced.records[o], code, Len(proxies))
                  /\ synced.records[o].proxy = records[o].proxy
             /\ proxyType = "shared" /\ EntryExists(shared) =>
                  \/ synced.records[operator].implementation = NoRecord
                  \/ synced.records[operator].implementation.address = shared.address
<1> DEFINE synced == SharedSynced(operator)
           record == SyncedSharedRecord(operator)
<1>1. /\ records \in [Operators -> DeploymentRecords]
      /\ \A o \in Operators : SoundRecords(records[o], code, Len(proxies))
      /\ operator \in Operators /\ artifact[operator] \in Artifacts
  BY DEF IInv, RecordsAreSound, TeamSound
<1>2. CASE proxyType # "shared" \/ ~EntryExists(shared)
  <2>1. synced = [records |-> records, shared |-> shared]
    BY <1>2 DEF SharedSynced
  <2>2. synced.records = records /\ synced.shared = shared
    BY <2>1
  <2> QED BY <1>1, <1>2, <2>2
<1>3. CASE ~(proxyType # "shared" \/ ~EntryExists(shared))
  <2>1. SoundContract(shared, code) /\ shared \in AddressBookEntry
    BY <1>3 DEF IInv, SharedSound, SoundShared, EntryExists, NoEntry
  <2>2. /\ shared.address \in 1 .. Len(code) /\ Len(code) \in 0 .. MaxCode
        /\ DeploymentArgs(shared) \in ArgValues \union {NoArgs}
        /\ shared.deployment.known /\ shared.deployment.block = shared.address
    BY <2>1 DEF SoundContract, DeploymentArgs, GetDeploymentMetadata, AddressBookEntry,
         DeploymentMetadata, IInv, ChainSound
  <2>3. /\ SoundRecord(record, code)
        /\ record = NoRecord \/ record.address = shared.address
    <3>1. SoundRecord(records[operator].implementation, code)
      BY <1>1 DEF SoundRecords
    <3>2. CASE records[operator].implementation.address = 0 /\ ~ShouldSeedRocketh(artifact[operator])
      <4>1. record = records[operator].implementation
        BY <3>2 DEF SyncedSharedRecord
      <4>2. record = NoRecord
        BY <3>1, <3>2, <4>1 DEF SoundRecord
      <4> QED BY <3>1, <4>1, <4>2
    <3>3. CASE ~(records[operator].implementation.address = 0 /\ ~ShouldSeedRocketh(artifact[operator]))
      <4>1. record = ImportedRecord(records[operator].implementation, shared.address,
                                    artifact[operator], DeploymentArgs(shared))
        BY <3>3 DEF SyncedSharedRecord
      <4> HIDE DEF record
      <4> QED BY <1>1, <2>2, <3>1, <4>1, ImportedSound
    <3> QED BY <3>2, <3>3
  <2>4. SyncedShared(record, artifact[operator]) = shared
    <3>1. CASE record = NoRecord
      BY <3>1 DEF SyncedShared, RecordIsNewer, NoRecord
    <3>2. CASE record.address = shared.address
      <4>1. record.block \in Nat /\ record.block \in {0, shared.address}
        BY <2>3, <3>2, Constants DEF SoundRecord, ImplementationRecord
      <4> HIDE DEF record
      <4> QED BY <2>2, <4>1 DEF SyncedShared, RecordIsNewer
    <3> QED BY <2>3, <3>1, <3>2
  <2> HIDE DEF record
  <2>5. synced.records = [records EXCEPT ![operator].implementation = record]
          /\ synced.shared = shared
    BY <1>3, <2>4 DEF SharedSynced, record
  <2> HIDE DEF synced
  <2>6. record \in ImplementationRecord
    BY <2>3 DEF SoundRecord
  <2>7. ASSUME NEW o \in Operators
        PROVE  /\ synced.records[o] \in DeploymentRecords
               /\ SoundRecords(synced.records[o], code, Len(proxies))
               /\ synced.records[o].proxy = records[o].proxy
    <3>1. CASE o = operator
      <4>1. synced.records[o] = [records[o] EXCEPT !.implementation = record]
        BY <1>1, <2>5, <3>1
      <4> QED BY <1>1, <2>3, <2>6, <4>1 DEF SoundRecords, DeploymentRecords
    <3>2. CASE o # operator
      <4>1. synced.records[o] = records[o]
        BY <1>1, <2>5, <3>2
      <4> QED BY <1>1, <4>1
    <3> QED BY <3>1, <3>2
  <2>8. synced.records \in [Operators -> DeploymentRecords]
          /\ synced.records[operator].implementation = record
    BY <1>1, <2>5, <2>6 DEF DeploymentRecords
  <2> QED BY <2>3, <2>5, <2>7, <2>8 DEF synced
<1> QED
  BY <1>2, <1>3

(* What a sync leaves for the steps after it.                              *)
Synced(operator) ==
  /\ shared' = shared /\ torn' \in BOOLEAN
  /\ SoundBook(book', proxyType, code, Len(proxies)) /\ (~torn' => Whole(book', code))
  /\ book'.address = book.address /\ book'.pending \in {book.pending, 0}
  /\ book'.pending = book.pending \/ Promotes(book, book', proxies[book.address].implementation)
  /\ records' \in [Operators -> DeploymentRecords]
  /\ \A o \in Operators : SoundRecords(records'[o], code, Len(proxies))
  /\ EntryExists(book) => records'[operator].proxy # 0
  /\ proxyType = "shared" /\ EntryExists(shared) =>
       \/ records'[operator].implementation = NoRecord
       \/ records'[operator].implementation.address = shared.address

(* The records a sync leaves to its operator, from an entry it goes by.    *)
LEMMA SyncedRecordsSound ==
  ASSUME IInv, NEW operator \in Team, EntryExists(book), NEW with,
         with[operator] \in DeploymentRecords, SoundRecords(with[operator], code, Len(proxies)),
         NEW entry \in AddressBookEntry,
         SoundProxied(entry, proxyType, code, Len(proxies))
  PROVE  LET new == SyncedRecords(operator, with, entry)
         IN  /\ SoundRecords(new, code, Len(proxies)) /\ new \in DeploymentRecords
             /\ new.proxy = book.address
             /\ ~HashMatches(operator, entry) => new.implementation = with[operator].implementation
             /\ HashMatches(operator, entry) =>
                  new.implementation.address = Candidate(entry).address
<1> DEFINE local      == artifact[operator]
           candidate  == Candidate(entry)
           withProxy  == ProxyRecords(with[operator], book.address)
           imported   == ImportedRecord(withProxy.implementation, candidate.address, local, NoArgs)
           seeded     == WithArguments(imported, candidate.metadata)
           new        == SyncedRecords(operator, with, entry)
<1>1. /\ operator \in Operators /\ artifact[operator] \in Artifacts
      /\ Len(code) \in 0 .. MaxCode /\ Len(proxies) \in Nat /\ Len(proxies) <= MaxProxies
      /\ SoundBook(book, proxyType, code, Len(proxies))
  BY DEF IInv, TeamSound, ChainSound, BookSound
<1>2. book.address \in 1 .. Len(proxies) /\ book.address # 0
  BY <1>1 DEF SoundBook, SoundProxied, EntryExists, NoEntry
<1>3. /\ withProxy \in DeploymentRecords
      /\ withProxy.implementation = with[operator].implementation
      /\ withProxy.own = book.address /\ withProxy.proxy = book.address
  <2>1. book.address \in 0 .. MaxProxies
    BY <1>1, <1>2, Constants
  <2>2. withProxy = [with[operator] EXCEPT !.own = book.address, !.proxy = book.address,
                                           !.admin = book.address]
    BY DEF ProxyRecords
  <2> HIDE DEF withProxy
  <2> QED BY <2>1, <2>2 DEF DeploymentRecords
<1>4. SoundRecord(with[operator].implementation, code)
  BY DEF SoundRecords
<1>5. SoundRecords(withProxy, code, Len(proxies))
  BY <1>1, <1>2, <1>3, <1>4 DEF SoundRecords
<1> HIDE DEF withProxy
<1>6. CASE ~HashMatches(operator, entry)
  <2>1. new = withProxy
    BY <1>6 DEF SyncedRecords, withProxy
  <2> HIDE DEF new
  <2> QED BY <1>3, <1>5, <1>6, <2>1 DEF new
<1>7. CASE HashMatches(operator, entry)
  <2>1. new = [withProxy EXCEPT !.implementation = seeded]
    BY <1>7 DEF SyncedRecords, withProxy
  <2>2. /\ candidate.address \in 1 .. Len(code) /\ candidate.metadata \in DeploymentMetadata
    BY DEF SoundProxied, SoundMetadata, Candidate, HasPending, GetDeploymentMetadata, AddressBookEntry
  <2>3. SoundRecord(imported, code) /\ imported.address = candidate.address
    <3> HIDE DEF candidate, local
    <3>1. SoundRecord(withProxy.implementation, code) /\ NoArgs \in ArgValues \union {NoArgs}
            /\ local \in Artifacts
      BY <1>1, <1>3, <1>4 DEF local
    <3> QED BY <1>1, <2>2, <3>1, ImportedSound
  <2>4. SoundRecord(seeded, code) /\ seeded.address = candidate.address
    <3> HIDE DEF candidate, imported
    <3> QED BY <2>2, <2>3, ArgumentsSound
  <2> HIDE DEF seeded
  <2>5. seeded \in ImplementationRecord
    BY <2>4 DEF SoundRecord
  <2> HIDE DEF new
  <2>6. /\ new \in DeploymentRecords /\ new.implementation = seeded
        /\ new.own = book.address /\ new.proxy = book.address
    BY <1>3, <2>1, <2>5 DEF DeploymentRecords
  <2>7. SoundRecords(new, code, Len(proxies))
    BY <1>1, <1>2, <2>4, <2>6 DEF SoundRecords
  <2> QED BY <1>7, <2>4, <2>6, <2>7 DEF new
<1> QED
  BY <1>6, <1>7

LEMMA SyncSound ==
  ASSUME IInv, NEW operator \in Team, SyncContract(operator)
  PROVE  Synced(operator)
<1> DEFINE with == SharedSynced(operator).records
<1>1. /\ shared' = shared
      /\ with \in [Operators -> DeploymentRecords]
      /\ \A o \in Operators : SoundRecords(with[o], code, Len(proxies))
      /\ proxyType = "shared" /\ EntryExists(shared) =>
           \/ with[operator].implementation = NoRecord
           \/ with[operator].implementation.address = shared.address
      /\ SyncProxy(operator, with)
      /\ torn' = (torn /\ Reconciled(book, OnChainImplementation) = book)
  BY SharedSyncSound DEF SyncContract
<1>2. /\ operator \in Operators /\ artifact[operator] \in Artifacts
      /\ Len(code) \in 0 .. MaxCode /\ Len(proxies) \in Nat /\ Len(proxies) <= MaxProxies
      /\ torn' \in BOOLEAN /\ SoundBook(book, proxyType, code, Len(proxies))
      /\ ~torn => Whole(book, code)
  <2>1. torn' \in BOOLEAN
    BY <1>1
  <2> QED BY <2>1 DEF IInv, TeamSound, ChainSound, BookSound
<1> HIDE DEF with
<1>4. CASE ~EntryExists(book)
  <2>1. records' = with /\ book' = book
    BY <1>1, <1>4 DEF SyncProxy
  <2>2. book = NoEntry
    BY <1>2, <1>4 DEF SoundBook, SoundProxied, EntryExists
  <2>3. SoundBook(book', proxyType, code, Len(proxies)) /\ Whole(book', code)
    BY <1>2, <2>1, <2>2, NothingClaimed DEF Whole, NoEntry
  <2> QED BY <1>1, <1>2, <1>4, <2>1, <2>3 DEF Synced
<1>5. CASE EntryExists(book)
  <2> DEFINE entry  == Reconciled(book, OnChainImplementation)
             synced == SyncedRecords(operator, with, entry)
             local  == artifact[operator]
  <2>1. /\ book \in AddressBookEntry /\ SoundProxied(book, proxyType, code, Len(proxies))
        /\ book.address \in 1 .. Len(proxies) /\ book.address # 0
    BY <1>2, <1>5 DEF SoundBook, SoundProxied, EntryExists, NoEntry
  <2>2. OnChainImplementation = proxies[book.address].implementation
        /\ OnChainImplementation \in 1 .. Len(code)
    BY <2>1 DEF OnChainImplementation, IInv, ChainSound, SoundProxy
  <2>3. /\ entry \in AddressBookEntry /\ SoundProxied(entry, proxyType, code, Len(proxies))
        /\ entry = book \/ Whole(entry, code)
        /\ entry.address = book.address
        /\ entry.pending = book.pending \/ Promotes(book, entry, OnChainImplementation)
    BY <1>2, <2>1, <2>2, ReconciledSound
  <2>4. ~torn' => Whole(entry, code)
    BY <1>1, <1>2, <2>3
  <2> HIDE DEF entry
  <2>5. with[operator] \in DeploymentRecords /\ SoundRecords(with[operator], code, Len(proxies))
    BY <1>1, <1>2
  <2>6. /\ SoundRecords(synced, code, Len(proxies)) /\ synced \in DeploymentRecords
        /\ synced.proxy = book.address
        /\ ~HashMatches(operator, entry) => synced.implementation = with[operator].implementation
        /\ HashMatches(operator, entry) => synced.implementation.address = Candidate(entry).address
    BY <1>5, <2>3, <2>5, SyncedRecordsSound
  <2>7. /\ records' = [records EXCEPT ![operator] = synced]
        /\ book' = IF HashMatches(operator, entry)
                     THEN Backfilled(entry, synced.implementation, local) ELSE entry
    BY <1>1, <1>5 DEF SyncProxy, entry
  <2> HIDE DEF synced
  <2>8. /\ records' \in [Operators -> DeploymentRecords] /\ records'[operator] = synced
        /\ \A o \in Operators : SoundRecords(records'[o], code, Len(proxies))
    BY <1>2, <2>6, <2>7 DEF IInv, RecordsAreSound
  <2>9. /\ book' \in AddressBookEntry
        /\ SoundProxied(book', proxyType, code, Len(proxies))
        /\ ~torn' => Whole(book', code)
        /\ book'.address = book.address
        /\ book'.pending = book.pending \/ Promotes(book, book', OnChainImplementation)
    <3>1. CASE ~HashMatches(operator, entry)
      <4>1. book' = entry
        BY <2>7, <3>1
      <4> QED BY <2>3, <2>4, <4>1
    <3>2. CASE HashMatches(operator, entry)
      <4> DEFINE filled == Backfilled(entry, synced.implementation, local)
      <4>1. book' = filled
        BY <2>7, <3>2
      <4>2. /\ SoundRecord(synced.implementation, code)
            /\ synced.implementation.address = Candidate(entry).address
            /\ local \in Artifacts /\ Candidate(entry).metadata.hash = local.hash
            /\ proxyType # "shared" /\ Len(code) \in Nat
        BY <1>2, <2>6, <3>2 DEF HashMatches, SoundRecords, ArtifactHash
      <4>3. /\ filled \in AddressBookEntry
            /\ SoundProxied(filled, proxyType, code, Len(proxies))
            /\ filled.address = entry.address /\ filled.pending = entry.pending
            /\ filled.implementation = entry.implementation
            /\ \/ filled = entry
               \/ /\ entry.pending = 0
                  /\ Whole(entry, code) =>
                       Whole(filled, code) /\ entry.implementationDeployment.block = 0
        <5> DEFINE record == synced.implementation
        <5>1. /\ SoundRecord(record, code) /\ record.address = Candidate(entry).address
              /\ SoundProxied(entry, proxyType, code, Len(proxies)) /\ entry \in AddressBookEntry
          BY <2>3, <4>2
        <5>2. filled = Backfilled(entry, record, local)
          OBVIOUS
        <5> HIDE DEF local, record, filled
        <5> QED BY <4>2, <5>1, <5>2, BackfilledSound
      <4> HIDE DEF filled
      <4>4. book'.pending = book.pending \/ Promotes(book, book', OnChainImplementation)
        <5>1. CASE entry.pending = book.pending
          BY <4>1, <4>3, <5>1
        <5>2. CASE Promotes(book, entry, OnChainImplementation) /\ book.pending # 0
          <6>1. Whole(entry, code)
            BY <2>3, <5>2 DEF Promotes
          <6>2. entry.implementationDeployment.block # 0
            BY <2>1, <4>2, <5>2 DEF SoundProxied, Promotes
          <6> QED BY <4>1, <4>3, <5>2, <6>1, <6>2
        <5>3. CASE Promotes(book, entry, OnChainImplementation) /\ book.pending = 0
          BY <4>1, <4>3, <5>3 DEF Promotes
        <5> QED BY <2>3, <5>1, <5>2, <5>3
      <4> QED BY <2>3, <2>4, <4>1, <4>3, <4>4
    <3> QED BY <3>1, <3>2
  <2>10. SoundBook(book', proxyType, code, Len(proxies))
    BY <2>9 DEF SoundBook
  <2>11. book'.pending \in {book.pending, 0}
    BY <2>9 DEF Promotes
  <2>12. proxyType = "shared" => synced.implementation = with[operator].implementation
    BY <2>6 DEF HashMatches
  <2> QED BY <1>1, <1>2, <2>1, <2>2, <2>8, <2>9, <2>6, <2>10, <2>11, <2>12 DEF Synced
<1> QED
  BY <1>4, <1>5

-----------------------------------------------------------------------------
(* What the steps have in common.                                          *)

LEMMA Basics ==
  ASSUME IInv
  PROVE  /\ code \in Seq(Artifacts) /\ Len(code) \in Nat /\ Len(code) \in 0 .. MaxCode
         /\ Len(proxies) \in Nat /\ Len(proxies) <= MaxProxies
         /\ proxies \in Seq([implementation: 1 .. MaxCode, next: 0 .. MaxCode])
         /\ Extends(code, code)
         /\ records \in [Operators -> DeploymentRecords]
         /\ artifact \in [Team -> Artifacts] /\ Team \subseteq Operators
         /\ book \in AddressBookEntry /\ shared \in AddressBookEntry
         /\ NoEntry.address = 0 /\ NoEntry.pending = 0
         /\ book.address # 0 => SoundProxied(book, proxyType, code, Len(proxies))
         /\ shared.address # 0 => SoundContract(shared, code)
         /\ book.address = 0 => book.pending = 0
<1>1. /\ code \in Seq(Artifacts) /\ Len(code) \in Nat /\ Len(code) \in 0 .. MaxCode
      /\ Len(proxies) \in Nat /\ Len(proxies) <= MaxProxies
      /\ proxies \in Seq([implementation: 1 .. MaxCode, next: 0 .. MaxCode])
  BY Constants DEF IInv, ChainSound
<1>2. Extends(code, code)
  BY <1>1, ExtendsItself
<1>3. /\ records \in [Operators -> DeploymentRecords]
      /\ artifact \in [Team -> Artifacts] /\ Team \subseteq Operators
  BY DEF IInv, RecordsAreSound, TeamSound
<1>4. NoEntry.address = 0 /\ NoEntry.pending = 0
  BY DEF NoEntry
<1>5. /\ book \in AddressBookEntry
      /\ book = NoEntry \/ SoundProxied(book, proxyType, code, Len(proxies))
      /\ shared \in AddressBookEntry
      /\ shared = NoEntry \/ SoundContract(shared, code)
  BY DEF IInv, BookSound, SharedSound, SoundBook, SoundShared
<1>6. SoundProxied(book, proxyType, code, Len(proxies)) => book.address # 0
  BY <1>1 DEF SoundProxied
<1> QED
  BY <1>1, <1>2, <1>3, <1>4, <1>5, <1>6

(* What a step leaves alone stays sound, also when code or proxies are     *)
(* deployed.                                                               *)
LEMMA PartsStay ==
  ASSUME IInv, Extends(code, code'), Len(proxies') \in Nat, Len(proxies) <= Len(proxies'),
         proxyType' = proxyType
  PROVE  /\ book' = book /\ torn' = torn => BookSound'
         /\ shared' = shared => SharedSound'
         /\ book' = book /\ shared' = shared => PendingOld'
         /\ records' = records => RecordsAreSound'
         /\ bundle' = bundle /\ proposed' = proposed => FilesSound'
         /\ UNCHANGED <<governorIsSafe, artifact, builds, crashes, external>> => TeamSound'
         /\ UNCHANGED <<script, book, torn, shared, records, artifact>> => ScriptSound'
<1>1. book' = book /\ torn' = torn => BookSound'
  BY StoresStay DEF BookSound, IInv
<1>2. shared' = shared => SharedSound'
  BY StoresStay DEF SharedSound
<1>3. book' = book /\ shared' = shared => PendingOld'
  BY DEF PendingOld, IInv
<1>4. records' = records => RecordsAreSound'
  BY StoresStay DEF RecordsAreSound, IInv
<1>5. bundle' = bundle /\ proposed' = proposed => FilesSound'
  BY StoresStay DEF FilesSound, IInv
<1>6. UNCHANGED <<governorIsSafe, artifact, builds, crashes, external>> => TeamSound'
  BY DEF TeamSound, Team, IInv
<1>7. ASSUME UNCHANGED <<script, book, torn, shared, records, artifact>>
      PROVE  ScriptSound'
  <2>1. HasDeployed => HasDeployed'
    BY <1>7 DEF HasDeployed, Extends
  <2>2. script.implementation \in 1 .. Len(code) => script'.implementation \in 1 .. Len(code')
    BY <1>7 DEF Extends
  <2>3. RecordIsShared => RecordIsShared'
    BY <1>7 DEF RecordIsShared, EntryExists
  <2>4. Team' = Team /\ (EntryExists(book) <=> EntryExists(book)') /\ Idle' = Idle
    BY <1>7 DEF Team, EntryExists, Idle
  <2> QED BY <1>7, <2>1, <2>2, <2>3, <2>4 DEF ScriptSound, IInv
<1> QED
  BY <1>1, <1>2, <1>3, <1>4, <1>5, <1>6, <1>7

LEMMA ChainStays ==
  ASSUME IInv, UNCHANGED Chain
  PROVE  /\ Extends(code, code') /\ Len(proxies') \in Nat /\ Len(proxies) <= Len(proxies')
         /\ proxyType' = proxyType /\ ChainSound'
BY Basics DEF Chain, ChainSound, IInv

LEMMA Running ==
  ASSUME IInv, script # Idle
  PROVE  /\ script \in RunningScript /\ script.operator \in Team /\ script.operator \in Operators
         /\ script.name \in Scripts /\ script.step \in Steps /\ script.implementation \in 0 .. MaxCode
BY Basics DEF IInv, ScriptSound, RunningScript

LEMMA Moves ==
  ASSUME IInv, script # Idle, NEW step \in Steps, NEW implementation \in 0 .. MaxCode,
         script' = [script EXCEPT !.step = step, !.implementation = implementation]
  PROVE  /\ script' \in RunningScript /\ script'.operator = script.operator
         /\ script'.name = script.name /\ script'.step = step
         /\ script'.implementation = implementation
BY Running DEF RunningScript

LEMMA Goes ==
  ASSUME IInv, script # Idle, NEW step \in Steps, GoTo(step)
  PROVE  /\ script' \in RunningScript /\ script'.operator = script.operator
         /\ script'.name = script.name /\ script'.step = step
         /\ script'.implementation = script.implementation
BY Running DEF RunningScript, GoTo

(* A script that ends, or goes where nothing is relied on.                 *)
LEMMA RelaxedScript ==
  ASSUME IInv, artifact' = artifact,
         \/ script' = Idle
         \/ /\ script # Idle
            /\ \E step \in {"resync", "accept", "archive"} : GoTo(step) \/ GoToWith(step, 0)
  PROVE  ScriptSound'
<1>1. CASE script' = Idle
  BY <1>1 DEF ScriptSound, Idle
<1>2. CASE script # Idle /\ \E step \in {"resync", "accept", "archive"} : GoTo(step) \/ GoToWith(step, 0)
  <2>1. PICK step \in {"resync", "accept", "archive"} : GoTo(step) \/ GoToWith(step, 0)
    BY <1>2
  <2>2. step \in Steps /\ 0 \in 0 .. MaxCode
    BY <2>1, Constants DEF Steps
  <2>3. script' \in RunningScript /\ script'.operator = script.operator /\ script'.step = step
    BY <1>2, <2>1, <2>2, Goes, Moves DEF GoToWith
  <2>4. script.operator \in Team /\ Team' = Team
    BY <1>2, Running DEF Team
  <2> QED BY <2>1, <2>3, <2>4 DEF ScriptSound
<1> QED
  BY <1>1, <1>2

(* An implementation is deployed, and the book left alone.                 *)
LEMMA RockethSound ==
  ASSUME IInv, NEW operator \in Team, RockethDeploys(operator),
         UNCHANGED <<proxies, proxyType, governorIsSafe, book, torn, shared, artifact, bundle, proposed, Bounds>>
  PROVE  /\ ChainSound' /\ TeamSound' /\ BookSound' /\ SharedSound' /\ PendingOld'
         /\ RecordsAreSound' /\ FilesSound'
         /\ Len(code) + 1 \in 0 .. MaxCode /\ Len(code') = Len(code) + 1
         /\ code'[Len(code) + 1] = artifact[operator] /\ Extends(code, code')
<1> DEFINE record == [address |-> Len(code) + 1, hash |-> ArtifactHash(operator),
                      args |-> artifact[operator].args, block |-> Len(code) + 1]
<1>1. /\ artifact[operator] \in Artifacts /\ operator \in Operators
      /\ artifact[operator].hash \in Hashes /\ artifact[operator].args \in ArgValues
  BY Basics DEF Artifacts
<1>2. /\ Extends(code, code') /\ code' \in Seq(Artifacts) /\ Len(code') = Len(code) + 1
      /\ code'[Len(code) + 1] = artifact[operator]
      /\ Len(code) + 1 \in 0 .. MaxCode
  BY <1>1, Basics, AppendExtends, Constants DEF RockethDeploys
<1>3. Len(proxies') \in Nat /\ Len(proxies) <= Len(proxies') /\ proxyType' = proxyType
  BY Basics
<1>4. /\ BookSound' /\ SharedSound' /\ PendingOld' /\ FilesSound' /\ TeamSound'
  BY <1>2, <1>3, PartsStay DEF Bounds
<1>5. ChainSound'
  <2>1. \A p \in 1 .. Len(proxies) : SoundProxy(proxies[p], code')
    BY <1>2, <1>3, StoresStay
  <2> QED BY <1>2, <2>1, Basics, Constants DEF ChainSound
<1>6. RecordsAreSound'
  <2>1. record \in ImplementationRecord
    BY <1>1, <1>2, Basics DEF ImplementationRecord, ArtifactHash
  <2>2. SoundRecord(record, code')
    BY <1>1, <1>2, <2>1, Basics DEF SoundRecord, ArtifactHash
  <2> HIDE DEF record
  <2>3. records' = [records EXCEPT ![operator].implementation = record]
    BY DEF RockethDeploys, record
  <2>4. \A o \in Operators : SoundRecords(records[o], code', Len(proxies))
    BY <1>2, <1>3, StoresStay
  <2>5. ASSUME NEW o \in Operators
        PROVE  records'[o] \in DeploymentRecords /\ SoundRecords(records'[o], code', Len(proxies))
    <3>1. CASE o = operator
      <4>1. records'[o] = [records[o] EXCEPT !.implementation = record]
        BY <1>1, <2>3, <3>1, Basics
      <4> QED BY <2>1, <2>2, <2>4, <4>1, Basics DEF SoundRecords, DeploymentRecords
    <3>2. CASE o # operator
      BY <1>1, <2>3, <2>4, <3>2, Basics
    <3> QED BY <3>1, <3>2
  <2>6. records' \in [Operators -> DeploymentRecords]
    BY <2>1, <2>3, Basics DEF DeploymentRecords
  <2> QED BY <2>5, <2>6 DEF RecordsAreSound
<1> QED
  BY <1>2, <1>4, <1>5, <1>6

-----------------------------------------------------------------------------
(* The steps of the scripts.                                               *)

LEMMA StartStep ==
  ASSUME IInv, NEW operator \in Team, NEW name \in Scripts, StartScript(operator, name)
  PROVE  IInv'
<1>1. FirstStep(name) \in {"implement", "sync", "resync", "upgrade", "verify"}
        /\ (FirstStep(name) \in {"implement", "sync"} => name \in {"deploy", "upgrade"})
  BY DEF FirstStep, Scripts
<1>2. /\ script' = [operator |-> operator, name |-> name, step |-> FirstStep(name),
                    implementation |-> 0]
      /\ UNCHANGED <<Chain, book, torn, shared, records, artifact, bundle, proposed, Bounds>>
  BY DEF StartScript
<1>3. /\ script' \in RunningScript /\ script'.operator = operator /\ script'.name = name
      /\ script'.step = FirstStep(name)
  BY <1>1, <1>2, Basics, Constants DEF RunningScript, Steps
<1>4. operator \in Team'
  BY <1>2 DEF Team
<1>5. ScriptSound'
  BY <1>1, <1>3, <1>4 DEF ScriptSound
<1> QED
  BY <1>2, <1>5, ChainStays, PartsStay DEF IInv, Chain, Bounds

LEMMA SyncParts ==
  ASSUME IInv, NEW operator \in Team, SyncContract(operator),
         UNCHANGED <<Chain, artifact, bundle, proposed, Bounds>>
  PROVE  /\ ChainSound' /\ TeamSound' /\ BookSound' /\ SharedSound' /\ PendingOld'
         /\ RecordsAreSound' /\ FilesSound' /\ Synced(operator)
<1>1. Synced(operator)
  BY SyncSound
<1>2. UNCHANGED <<code, proxies, proxyType>>
  BY DEF Chain
<1>3. BookSound' /\ RecordsAreSound' /\ shared' = shared
  BY <1>1, <1>2 DEF Synced, BookSound, RecordsAreSound
<1>4. ChainSound' /\ TeamSound' /\ SharedSound' /\ FilesSound'
  BY <1>3, ChainStays, PartsStay DEF Chain, Bounds
<1>5. PendingOld'
  <2>1. book'.pending \in {book.pending, 0} /\ shared.address \in Nat
    BY <1>1, Basics DEF Synced, AddressBookEntry
  <2> QED BY <1>2, <1>3, <2>1 DEF PendingOld, IInv
<1> QED
  BY <1>1, <1>3, <1>4, <1>5

LEMMA FirstSyncStep ==
  ASSUME IInv, FirstSync
  PROVE  IInv'
<1> DEFINE next == IF script.name = "deploy" THEN "deploy" ELSE "claim"
<1>1. /\ script # Idle /\ script.step = "sync" /\ GoTo(next)
      /\ SyncContract(script.operator)
      /\ UNCHANGED <<Chain, artifact, bundle, proposed, Bounds>>
  BY DEF FirstSync
<1>2. script.operator \in Team /\ script.name \in {"deploy", "upgrade"}
  BY <1>1, Running DEF IInv, ScriptSound
<1>3. /\ ChainSound' /\ TeamSound' /\ BookSound' /\ SharedSound' /\ PendingOld'
      /\ RecordsAreSound' /\ FilesSound' /\ Synced(script.operator)
  BY <1>1, <1>2, SyncParts
<1>4. /\ script' \in RunningScript /\ script'.operator = script.operator
      /\ script'.name = script.name /\ script'.step = next
  <2>1. next \in Steps
    BY DEF Steps
  <2> HIDE DEF next
  <2> QED BY <1>1, <2>1, Goes
<1>5. RecordIsShared' /\ (EntryExists(book)' => records'[script'.operator].proxy # 0)
  BY <1>1, <1>3, <1>4 DEF Synced, RecordIsShared, EntryExists, Chain
<1>6. script'.operator \in Team'
  BY <1>1, <1>2, <1>4 DEF Team
<1>7. ScriptSound'
  BY <1>2, <1>4, <1>5, <1>6 DEF ScriptSound
<1> QED
  BY <1>3, <1>7 DEF IInv

LEMMA LastSyncStep ==
  ASSUME IInv, LastSync
  PROVE  IInv'
<1>1. /\ script # Idle /\ script' = Idle /\ SyncContract(script.operator)
      /\ UNCHANGED <<Chain, artifact, bundle, proposed, Bounds>>
  BY DEF LastSync, Finish
<1> QED
  BY <1>1, Running, SyncParts, RelaxedScript DEF IInv

(* A sync that stops between its two writes, or loses the second of them.  *)
LEMMA TearSyncStep ==
  ASSUME IInv, TearSync
  PROVE  IInv' /\ book'.pending = book.pending
<1> DEFINE operator == script.operator
           with     == SharedSynced(operator).records
           entry    == Reconciled(book, OnChainImplementation)
           seeded   == SyncedRecords(operator, with, entry)
           next     == IF script.name = "deploy" THEN "deploy" ELSE "claim"
<1>1. /\ script # Idle /\ script.step \in {"sync", "resync"} /\ EntryExists(book)
      /\ book' = SetImplementation(book, OnChainImplementation)
      /\ torn' \in BOOLEAN /\ torn' /\ shared' = SharedSynced(operator).shared
      /\ crashes' = crashes + 1
      /\ \/ records' = with /\ script' = Idle
         \/ /\ records' = [records EXCEPT ![operator] = seeded]
            /\ script' = Idle \/ (script.step = "sync" /\ GoTo(next))
      /\ UNCHANGED <<Chain, artifact, bundle, proposed, builds, external>>
  <2>1. torn' = TRUE
    BY DEF TearSync
  <2>2. torn' \in BOOLEAN /\ torn'
    BY <2>1
  <2> QED BY <2>2, Running DEF TearSync, Fail, Finish, RunningScript
<1>2. /\ operator \in Team /\ operator \in Operators
      /\ script.step = "sync" => script.name \in {"deploy", "upgrade"}
  BY <1>1, Running DEF IInv, ScriptSound
<1>3. /\ shared' = shared /\ with \in [Operators -> DeploymentRecords]
      /\ \A o \in Operators : SoundRecords(with[o], code, Len(proxies))
      /\ proxyType = "shared" /\ EntryExists(shared) =>
           \/ with[operator].implementation = NoRecord
           \/ with[operator].implementation.address = shared.address
  BY <1>1, <1>2, SharedSyncSound
<1> HIDE DEF with
<1>4. /\ book \in AddressBookEntry /\ SoundProxied(book, proxyType, code, Len(proxies))
      /\ OnChainImplementation \in 1 .. Len(code) /\ Len(code) \in Nat
  <2>1. /\ book \in AddressBookEntry /\ SoundProxied(book, proxyType, code, Len(proxies))
        /\ book.address \in 1 .. Len(proxies) /\ Len(code) \in Nat
    BY <1>1, Basics DEF EntryExists, SoundProxied
  <2> QED BY <2>1 DEF OnChainImplementation, IInv, ChainSound, SoundProxy
<1>5. BookSound' /\ PendingOld' /\ book'.pending = book.pending
  <2>1. /\ book' = [book EXCEPT !.implementation = OnChainImplementation]
        /\ OnChainImplementation \in Nat
    BY <1>1, <1>4 DEF SetImplementation
  <2>2. /\ book' \in AddressBookEntry /\ book'.proxy = book.proxy /\ book'.address = book.address
        /\ book'.implementation = OnChainImplementation
        /\ book'.pending = book.pending /\ book'.pendingDeployment = book.pendingDeployment
    BY <1>4, <2>1 DEF AddressBookEntry
  <2>3. SoundProxied(book', proxyType, code, Len(proxies))
    BY <1>4, <2>2 DEF SoundProxied
  <2> QED BY <1>1, <1>3, <2>2, <2>3 DEF BookSound, SoundBook, PendingOld, IInv, Chain
<1>6. /\ seeded \in DeploymentRecords /\ SoundRecords(seeded, code, Len(proxies))
      /\ seeded.proxy = book.address /\ book.address # 0
      /\ proxyType = "shared" => seeded.implementation = with[operator].implementation
  <2>1. entry \in AddressBookEntry /\ SoundProxied(entry, proxyType, code, Len(proxies))
    BY <1>4, ReconciledSound
  <2>2. with[operator] \in DeploymentRecords /\ SoundRecords(with[operator], code, Len(proxies))
    BY <1>2, <1>3
  <2> HIDE DEF entry
  <2> QED BY <1>1, <1>2, <2>1, <2>2, SyncedRecordsSound DEF HashMatches, EntryExists
<1> HIDE DEF entry, seeded
<1>7. RecordsAreSound'
  <2>1. CASE records' = with
    BY <1>1, <1>3, <2>1 DEF RecordsAreSound, Chain
  <2>2. CASE records' = [records EXCEPT ![operator] = seeded]
    BY <1>1, <1>2, <1>6, <2>2 DEF RecordsAreSound, IInv, Chain
  <2> QED BY <1>1, <2>1, <2>2
<1>8. ChainSound' /\ SharedSound' /\ FilesSound'
  BY <1>1, <1>3, ChainStays, PartsStay
<1>9. TeamSound'
  BY <1>1 DEF TeamSound, Team, IInv, Chain
<1>10. ScriptSound'
  <2>1. CASE script' = Idle
    BY <1>1, <2>1, RelaxedScript
  <2>2. CASE /\ records' = [records EXCEPT ![operator] = seeded]
             /\ script.step = "sync" /\ GoTo(next)
    <3>1. next \in Steps
      BY DEF Steps
    <3> HIDE DEF next
    <3>2. /\ script' \in RunningScript /\ script'.operator = operator
          /\ script'.name = script.name /\ script'.step = next
      BY <1>1, <2>2, <3>1, Goes
    <3>3. records'[operator] = seeded /\ operator \in Team'
      BY <1>1, <1>2, <2>2, Basics DEF Team
    <3>4. RecordIsShared' /\ records'[script'.operator].proxy # 0
      BY <1>1, <1>3, <1>6, <3>2, <3>3 DEF RecordIsShared, EntryExists, Chain
    <3> QED BY <1>2, <2>2, <3>2, <3>3, <3>4 DEF ScriptSound, next
  <2> QED BY <1>1, <2>1, <2>2
<1> QED
  BY <1>5, <1>7, <1>8, <1>9, <1>10 DEF IInv

LEMMA DeployImplementationStep ==
  ASSUME IInv, DeployImplementation
  PROVE  IInv'
<1> DEFINE operator == script.operator
<1>1. /\ script # Idle /\ script.name = "deploy" /\ script.step = "deploy"
      /\ UNCHANGED <<proxies, proxyType, governorIsSafe, book, torn, shared, artifact, bundle, proposed, Bounds>>
      /\ proxyType # "shared"
      /\ operator \in Team
  BY Running DEF DeployImplementation, AtStep
<1>2. CASE UNCHANGED <<code, records>> /\ (Fail \/ GoTo("resync"))
  BY <1>1, <1>2, ChainStays, PartsStay, RelaxedScript DEF IInv, Chain, Bounds, Fail
<1>3. CASE RockethDeploys(operator) /\ GoToWith("pend", Len(code) + 1)
  <2>1. /\ ChainSound' /\ TeamSound' /\ BookSound' /\ SharedSound' /\ PendingOld'
        /\ RecordsAreSound' /\ FilesSound'
        /\ Len(code) + 1 \in 0 .. MaxCode /\ Len(code') = Len(code) + 1
        /\ code'[Len(code) + 1] = artifact[operator]
    BY <1>1, <1>3, RockethSound
  <2>2. /\ script' \in RunningScript /\ script'.operator = operator
        /\ script'.name = "deploy" /\ script'.step = "pend"
        /\ script'.implementation = Len(code) + 1
    BY <1>1, <1>3, <2>1, Moves DEF GoToWith, Steps
  <2>3. HasDeployed' /\ script'.operator \in Team'
    BY <1>1, <2>1, <2>2, Basics DEF HasDeployed, Team
  <2>4. script'.implementation > book'.pending
    BY <1>1, <2>2, Basics DEF SoundProxied
  <2>5. ScriptSound'
    BY <1>1, <2>2, <2>3, <2>4 DEF ScriptSound
  <2> QED BY <2>1, <2>5 DEF IInv
<1> QED
  BY <1>2, <1>3 DEF DeployImplementation

LEMMA RecordPendingStep ==
  ASSUME IInv, RecordPending
  PROVE  /\ IInv'
         /\ book'.pending = book.pending \/ book'.pending > book.pending
<1> DEFINE operator == script.operator
           metadata == DeployedMetadata(operator, script.implementation)
<1>1. /\ script # Idle /\ script.name = "deploy" /\ script.step = "pend"
      /\ book' = SetPendingImplementationWithMetadata(book, script.implementation, metadata)
      /\ GoToWith("resync", 0)
      /\ UNCHANGED <<torn, shared, Chain, records, artifact, bundle, proposed, Bounds>>
  BY DEF RecordPending, AtStep
<1>2. /\ operator \in Team /\ HasDeployed /\ script.implementation > book.pending
      /\ proxyType # "shared"
  BY <1>1, Running DEF IInv, ScriptSound
<1>3. /\ metadata \in DeploymentMetadata
      /\ SoundMetadata(metadata, script.implementation, code)
      /\ metadata.known /\ metadata.block = script.implementation
  <2> HIDE DEF metadata
  <2>1. script.implementation \in 1 .. Len(code) /\ code[script.implementation] = artifact[operator]
    BY <1>2 DEF HasDeployed
  <2> QED BY <1>2, <2>1, Basics, DeployedClaims DEF metadata
<1> HIDE DEF metadata
<1>4. /\ SoundBook(book', proxyType, code, Len(proxies)) /\ (~torn => Whole(book', code))
      /\ book'.pending \in {book.pending, script.implementation}
  <2>1. CASE book.address = 0
    <3>1. book' = book
      BY <1>1, <2>1, Basics DEF SetPendingImplementationWithMetadata, IInv, BookSound, SoundBook,
         SoundProxied, NoEntry
    <3> QED BY <3>1 DEF IInv, BookSound
  <2>2. CASE book.address # 0
    <3>1. SoundProxied(book, proxyType, code, Len(proxies)) /\ script.implementation \in 1 .. Len(code)
      BY <1>2, <2>2, Basics DEF HasDeployed
    <3> QED BY <1>1, <1>3, <3>1, Basics, PendSound DEF IInv, BookSound
  <2> QED BY <2>1, <2>2
<1>5. BookSound' /\ PendingOld'
  BY <1>1, <1>2, <1>4 DEF IInv, BookSound, PendingOld, Chain
<1>6. ChainSound' /\ TeamSound' /\ SharedSound' /\ RecordsAreSound' /\ FilesSound' /\ ScriptSound'
  BY <1>1, ChainStays, PartsStay, RelaxedScript DEF Chain, Bounds
<1> QED
  BY <1>2, <1>4, <1>5, <1>6 DEF IInv

LEMMA DeployFirstStep ==
  ASSUME IInv, DeployFirstImplementation
  PROVE  IInv'
<1> DEFINE operator == script.operator
<1>1. /\ script # Idle /\ script.name = "deploy" /\ script.step = "deploy"
      /\ records[operator].proxy = 0 /\ proxyType # "shared"
      /\ RockethDeploys(operator) /\ GoToWith("proxy", Len(code) + 1)
      /\ UNCHANGED <<proxies, proxyType, governorIsSafe, book, torn, shared, artifact, bundle, proposed, Bounds>>
      /\ operator \in Team
  BY Running DEF DeployFirstImplementation, AtStep
<1>2. ~EntryExists(book)
  BY <1>1 DEF IInv, ScriptSound
<1>3. /\ ChainSound' /\ TeamSound' /\ BookSound' /\ SharedSound' /\ PendingOld'
      /\ RecordsAreSound' /\ FilesSound'
      /\ Len(code) + 1 \in 0 .. MaxCode /\ Len(code') = Len(code) + 1
      /\ code'[Len(code) + 1] = artifact[operator]
  BY <1>1, RockethSound
<1>4. /\ script' \in RunningScript /\ script'.operator = operator
      /\ script'.name = "deploy" /\ script'.step = "proxy"
      /\ script'.implementation = Len(code) + 1
  BY <1>1, <1>3, Moves DEF GoToWith, Steps
<1>5. HasDeployed' /\ script'.operator \in Team' /\ ~EntryExists(book)'
  BY <1>1, <1>2, <1>3, <1>4, Basics DEF HasDeployed, Team, EntryExists
<1>6. script'.implementation \in 1 .. Len(code')
  BY <1>5 DEF HasDeployed
<1>7. ScriptSound'
  BY <1>4, <1>5, <1>6 DEF ScriptSound
<1> QED
  BY <1>3, <1>7 DEF IInv

LEMMA DeployProxyStep ==
  ASSUME IInv, DeployProxy
  PROVE  IInv'
<1> DEFINE operator == script.operator
           proxy == [implementation |-> script.implementation, next |-> 0]
<1>1. /\ script # Idle /\ script.name = "deploy" /\ script.step = "proxy"
      /\ Len(proxies) < MaxProxies /\ proxies' = Append(proxies, proxy)
      /\ records' = [records EXCEPT ![operator].proxy = Len(proxies) + 1]
      /\ GoTo("save")
      /\ UNCHANGED <<code, proxyType, governorIsSafe, book, torn, shared, artifact, bundle, proposed, Bounds>>
      /\ operator \in Team /\ operator \in Operators
  BY Running DEF DeployProxy, AtStep
<1>2. /\ ~EntryExists(book) /\ script.implementation \in 1 .. Len(code)
      /\ proxyType # "shared" => HasDeployed
  BY <1>1 DEF IInv, ScriptSound
<1>3. /\ proxy \in [implementation: 1 .. MaxCode, next: 0 .. MaxCode]
      /\ SoundProxy(proxy, code)
  BY <1>2, Basics, Constants DEF SoundProxy
<1> HIDE DEF proxy
<1>4. /\ proxies' \in Seq([implementation: 1 .. MaxCode, next: 0 .. MaxCode])
      /\ Len(proxies') = Len(proxies) + 1 /\ Len(proxies') \in Nat /\ Len(proxies') <= MaxProxies
      /\ proxies'[Len(proxies) + 1] = proxy
      /\ \A p \in 1 .. Len(proxies) : proxies'[p] = proxies[p]
  BY <1>1, <1>3, Basics, Constants
<1>5. /\ Extends(code, code') /\ Len(proxies) <= Len(proxies')
  BY <1>1, <1>4, Basics
<1>6. ChainSound'
  <2>1. \A p \in 1 .. Len(proxies') : SoundProxy(proxies'[p], code)
    <3> SUFFICES ASSUME NEW p \in 1 .. Len(proxies')
                 PROVE  SoundProxy(proxies'[p], code)
      OBVIOUS
    <3>1. p \in 1 .. Len(proxies) \/ p = Len(proxies) + 1
      BY <1>4, Basics
    <3> QED BY <1>3, <1>4, <3>1 DEF IInv, ChainSound
  <2> QED BY <1>1, <1>4, <2>1, Basics DEF ChainSound
<1>7. BookSound' /\ SharedSound' /\ PendingOld' /\ FilesSound' /\ TeamSound'
  BY <1>1, <1>4, <1>5, PartsStay DEF Bounds
<1>8. /\ RecordsAreSound' /\ records'[operator].proxy # 0
  <2>1. Len(proxies) + 1 \in 0 .. MaxProxies /\ Len(proxies) + 1 \in 0 .. Len(proxies')
    BY <1>1, <1>4, Basics, Constants
  <2>2. \A o \in Operators : SoundRecords(records[o], code, Len(proxies'))
    BY <1>1, <1>4, <1>5, StoresStay
  <2>3. ASSUME NEW o \in Operators
        PROVE  /\ records'[o] \in DeploymentRecords /\ SoundRecords(records'[o], code, Len(proxies'))
               /\ o = operator => records'[o].proxy = Len(proxies) + 1
    <3>1. CASE o = operator
      <4>1. records'[o] = [records[o] EXCEPT !.proxy = Len(proxies) + 1]
        BY <1>1, <3>1, Basics
      <4> QED BY <2>1, <2>2, <4>1, Basics DEF SoundRecords, DeploymentRecords
    <3>2. CASE o # operator
      BY <1>1, <2>2, <3>2, Basics
    <3> QED BY <3>1, <3>2
  <2>4. records' \in [Operators -> DeploymentRecords]
    BY <1>1, <2>1, Basics DEF DeploymentRecords
  <2>5. records'[operator].proxy = Len(proxies) + 1
    BY <1>1, <2>3
  <2>6. RecordsAreSound'
    BY <1>1, <2>3, <2>4 DEF RecordsAreSound
  <2> QED BY <2>5, <2>6, Basics
<1>9. /\ script' \in RunningScript /\ script'.operator = operator
      /\ script'.name = "deploy" /\ script'.step = "save"
      /\ script'.implementation = script.implementation
  BY <1>1, Goes DEF Steps
<1>10. /\ ~EntryExists(book)' /\ script'.implementation \in 1 .. Len(code')
       /\ proxyType' # "shared" => HasDeployed'
       /\ script'.operator \in Team'
  BY <1>1, <1>2, <1>9 DEF EntryExists, HasDeployed, Team
<1>11. ScriptSound'
  BY <1>8, <1>9, <1>10 DEF ScriptSound
<1> QED
  BY <1>6, <1>7, <1>8, <1>11 DEF IInv

LEMMA SaveProxyRecordStep ==
  ASSUME IInv, SaveProxyRecord
  PROVE  IInv'
<1> DEFINE operator == script.operator
<1>1. /\ script # Idle /\ script.name = "deploy" /\ script.step = "save"
      /\ records' = [records EXCEPT ![operator].own = records[operator].proxy]
      /\ GoTo("book")
      /\ UNCHANGED <<Chain, book, torn, shared, artifact, bundle, proposed, Bounds>>
      /\ operator \in Team /\ operator \in Operators
  BY Running DEF SaveProxyRecord, AtStep
<1>2. /\ ~EntryExists(book) /\ script.implementation \in 1 .. Len(code)
      /\ proxyType # "shared" => HasDeployed
      /\ records[operator].proxy # 0
  BY <1>1 DEF IInv, ScriptSound
<1>3. /\ ChainSound' /\ BookSound' /\ SharedSound' /\ PendingOld' /\ FilesSound' /\ TeamSound'
  BY <1>1, ChainStays, PartsStay DEF Chain, Bounds
<1>4. ASSUME NEW o \in Operators
      PROVE  /\ records'[o] \in DeploymentRecords /\ SoundRecords(records'[o], code, Len(proxies))
             /\ o = operator => records'[o].own = records[o].proxy
  <2>1. SoundRecords(records[o], code, Len(proxies)) /\ records[o] \in DeploymentRecords
    BY DEF IInv, RecordsAreSound
  <2>2. CASE o = operator
    <3>1. records'[o] = [records[o] EXCEPT !.own = records[o].proxy]
      BY <1>1, <2>2, Basics
    <3> QED BY <2>1, <3>1 DEF SoundRecords, DeploymentRecords
  <2>3. CASE o # operator
    BY <1>1, <2>1, <2>3, Basics
  <2> QED BY <2>2, <2>3
<1>5. records' \in [Operators -> DeploymentRecords]
  BY <1>1, Basics DEF DeploymentRecords
<1>6. RecordsAreSound' /\ records'[operator].own # 0
  BY <1>1, <1>2, <1>4, <1>5 DEF RecordsAreSound, Chain
<1>7. /\ script' \in RunningScript /\ script'.operator = operator
      /\ script'.name = "deploy" /\ script'.step = "book"
      /\ script'.implementation = script.implementation
  BY <1>1, Goes DEF Steps
<1>8. /\ ~EntryExists(book)' /\ script'.implementation \in 1 .. Len(code')
      /\ proxyType' # "shared" => HasDeployed'
      /\ script'.operator \in Team'
  BY <1>1, <1>2, <1>7 DEF EntryExists, HasDeployed, Team, Chain
<1>9. ScriptSound'
  BY <1>6, <1>7, <1>8 DEF ScriptSound
<1> QED
  BY <1>3, <1>6, <1>9 DEF IInv

LEMMA UpdateBookStep ==
  ASSUME IInv, UpdateProxyAddressBook
  PROVE  IInv' /\ book.pending = 0
<1> DEFINE operator == script.operator
           metadata == IF proxyType = "shared" THEN NoMetadata
                       ELSE DeployedMetadata(operator, script.implementation)
<1>1. /\ script # Idle /\ script.name = "deploy" /\ script.step = "book"
      /\ book' = ProxyUpdate(records[operator].own, script.implementation, metadata)
      /\ script' = Idle \/ GoToWith("resync", 0)
      /\ torn' = FALSE
      /\ UNCHANGED <<shared, Chain, records, artifact, bundle, proposed, Bounds>>
      /\ operator \in Team /\ operator \in Operators
  BY Running DEF UpdateProxyAddressBook, AtStep, Finish
<1>2. /\ ~EntryExists(book) /\ script.implementation \in 1 .. Len(code)
      /\ proxyType # "shared" => HasDeployed
      /\ records[operator].own # 0
  BY <1>1 DEF IInv, ScriptSound
<1>3. metadata \in DeploymentMetadata /\ SoundMetadata(metadata, script.implementation, code)
  <2>1. CASE proxyType = "shared"
    BY <2>1, NothingClaimed, EntryTypes
  <2>2. CASE proxyType # "shared"
    <3>1. code[script.implementation] = artifact[operator]
      BY <1>2, <2>2 DEF HasDeployed
    <3>2. /\ DeployedMetadata(operator, script.implementation) \in DeploymentMetadata
          /\ SoundMetadata(DeployedMetadata(operator, script.implementation),
                           script.implementation, code)
      BY <1>1, <1>2, <3>1, Basics, DeployedClaims
    <3> QED BY <2>2, <3>2
  <2> QED BY <2>1, <2>2
<1> HIDE DEF metadata
<1>4. records[operator].own \in 1 .. Len(proxies)
  BY <1>1, <1>2, Basics DEF IInv, RecordsAreSound, SoundRecords
<1>5. SoundBook(book', proxyType, code, Len(proxies)) /\ Whole(book', code) /\ book'.pending = 0
  BY <1>1, <1>2, <1>3, <1>4, Basics, NewProxied
<1>6. BookSound' /\ PendingOld'
  <2>1. torn' \in BOOLEAN
    BY <1>1
  <2>2. UNCHANGED <<shared, Chain>> /\ shared.address \in Nat
    BY <1>1, Basics DEF AddressBookEntry
  <2> QED BY <1>5, <2>1, <2>2 DEF BookSound, PendingOld, Chain
<1>7. ChainSound' /\ TeamSound' /\ SharedSound' /\ RecordsAreSound' /\ FilesSound' /\ ScriptSound'
  BY <1>1, ChainStays, PartsStay, RelaxedScript DEF Chain, Bounds
<1> QED
  BY <1>2, <1>6, <1>7, Basics DEF IInv, EntryExists

LEMMA DeploySharedStep ==
  ASSUME IInv, DeployShared
  PROVE  IInv'
<1> DEFINE operator == script.operator
           synced == SharedSynced(operator)
<1>1. /\ script # Idle /\ script.step = "implement" /\ shared' = synced.shared
      /\ UNCHANGED <<proxies, proxyType, governorIsSafe, book, torn, artifact, bundle, proposed, Bounds>>
      /\ operator \in Team
      /\ \/ records' = synced.records /\ GoTo("sync") /\ UNCHANGED code
         \/ RockethDeploys(operator) /\ GoToWith("share", Len(code) + 1)
  BY Running DEF DeployShared
<1>2. script.name \in {"deploy", "upgrade"}
  BY <1>1 DEF IInv, ScriptSound
<1>3. /\ shared' = shared /\ synced.records \in [Operators -> DeploymentRecords]
      /\ \A o \in Operators : SoundRecords(synced.records[o], code, Len(proxies))
  BY <1>1, SharedSyncSound
<1>4. operator \in Team'
  BY <1>1 DEF Team
<1> HIDE DEF synced
<1>5. CASE records' = synced.records /\ GoTo("sync") /\ UNCHANGED code
  <2>1. RecordsAreSound'
    BY <1>1, <1>3, <1>5 DEF RecordsAreSound
  <2>2. UNCHANGED Chain
    BY <1>1, <1>5 DEF Chain
  <2>3. ChainSound' /\ TeamSound' /\ BookSound' /\ SharedSound' /\ PendingOld' /\ FilesSound'
    BY <1>1, <1>3, <2>2, ChainStays, PartsStay DEF Bounds
  <2>4. /\ script' \in RunningScript /\ script'.operator = operator
        /\ script'.name = script.name /\ script'.step = "sync"
    BY <1>1, <1>5, Goes DEF Steps
  <2>5. ScriptSound'
    BY <1>2, <1>4, <2>4 DEF ScriptSound
  <2> QED BY <2>1, <2>3, <2>5 DEF IInv
<1>6. CASE RockethDeploys(operator) /\ GoToWith("share", Len(code) + 1)
  <2>1. /\ ChainSound' /\ TeamSound' /\ BookSound' /\ SharedSound' /\ PendingOld'
        /\ RecordsAreSound' /\ FilesSound'
        /\ Len(code) + 1 \in 0 .. MaxCode /\ Len(code') = Len(code) + 1
        /\ code'[Len(code) + 1] = artifact[operator]
    BY <1>1, <1>3, <1>6, RockethSound
  <2>2. /\ script' \in RunningScript /\ script'.operator = operator
        /\ script'.name = script.name /\ script'.step = "share"
        /\ script'.implementation = Len(code) + 1
    BY <1>1, <1>6, <2>1, Moves DEF GoToWith, Steps
  <2>3. HasDeployed'
    BY <1>1, <2>1, <2>2, Basics DEF HasDeployed
  <2>4. script'.implementation > shared'.address
    BY <1>3, <2>2, Basics DEF SoundContract
  <2>5. ScriptSound'
    BY <1>2, <1>4, <2>2, <2>3, <2>4 DEF ScriptSound
  <2> QED BY <2>1, <2>5 DEF IInv
<1> QED
  BY <1>1, <1>5, <1>6

LEMMA SaveSharedStep ==
  ASSUME IInv, SaveShared
  PROVE  IInv'
<1> DEFINE operator == script.operator
           metadata == DeployedMetadata(operator, script.implementation)
<1>1. /\ script # Idle /\ script.step = "share"
      /\ shared' = ContractUpdate(script.implementation, metadata)
      /\ GoToWith("sync", 0)
      /\ UNCHANGED <<Chain, book, torn, records, artifact, bundle, proposed, Bounds>>
      /\ operator \in Team
  BY Running DEF SaveShared
<1>2. /\ script.name \in {"deploy", "upgrade"} /\ HasDeployed
      /\ script.implementation > shared.address
  BY <1>1 DEF IInv, ScriptSound
<1>3. /\ script.implementation \in 1 .. Len(code) /\ script.implementation \in Nat
      /\ code[script.implementation] = artifact[operator]
  BY <1>2, Basics DEF HasDeployed
<1>4. /\ metadata \in DeploymentMetadata /\ SoundMetadata(metadata, script.implementation, code)
      /\ metadata.known /\ metadata.block = script.implementation
  <2> HIDE DEF metadata
  <2> QED BY <1>1, <1>3, Basics, DeployedClaims DEF metadata
<1> HIDE DEF metadata
<1>5. /\ shared' \in AddressBookEntry /\ ~shared'.proxy
      /\ shared'.address = script.implementation /\ shared'.deployment = metadata
  BY <1>1, <1>3, <1>4, NewContract
<1>6. SharedSound'
  <2>1. SoundContract(shared', code)
    BY <1>3, <1>4, <1>5 DEF SoundContract
  <2> QED BY <1>1, <1>5, <2>1 DEF SharedSound, SoundShared, Chain
<1>7. PendingOld'
  <2>1. shared.address \in Nat /\ book.pending \in Nat
    BY Basics DEF AddressBookEntry
  <2> QED BY <1>1, <1>2, <1>3, <1>5, <2>1 DEF PendingOld, IInv, Chain
<1>8. /\ ChainSound' /\ TeamSound' /\ BookSound' /\ RecordsAreSound' /\ FilesSound'
  BY <1>1, ChainStays, PartsStay DEF Chain, Bounds
<1>9. /\ script' \in RunningScript /\ script'.operator = operator
      /\ script'.name = script.name /\ script'.step = "sync"
  <2>1. "sync" \in Steps /\ 0 \in 0 .. MaxCode
    BY Constants DEF Steps
  <2> QED BY <1>1, <2>1, Moves DEF GoToWith
<1>10. script'.operator \in Team'
  BY <1>1, <1>9 DEF Team
<1>11. ScriptSound'
  BY <1>2, <1>9, <1>10 DEF ScriptSound
<1> QED
  BY <1>6, <1>7, <1>8, <1>11 DEF IInv

(* A shared implementation becomes pending: it is the one in the book.     *)
LEMMA PendSharedSound ==
  ASSUME IInv, NEW operator \in Operators, SharedChanged(operator),
         proxyType = "shared" /\ EntryExists(shared) =>
           \/ records[operator].implementation = NoRecord
           \/ records[operator].implementation.address = shared.address,
         EntryExists(book), shared.deployment.known
  PROVE  LET new == PendShared(book, operator)
         IN  /\ SoundBook(new, proxyType, code, Len(proxies))
             /\ ~torn => Whole(new, code)
             /\ new.pending = shared.address /\ new.address = book.address
             /\ proxyType = "shared"
<1>1. /\ proxyType = "shared" /\ records[operator].implementation # NoRecord
      /\ SoundProxied(book, proxyType, code, Len(proxies))
  BY Basics DEF SharedChanged, EntryExists
<1>2. shared.address # 0 /\ SoundContract(shared, code)
  <2>1. ~NoEntry.deployment.known
    BY DEF NoEntry, NoMetadata
  <2>2. SoundContract(shared, code)
    BY <2>1 DEF IInv, SharedSound, SoundShared
  <2> QED BY <2>2, Basics DEF SoundContract
<1>3. records[operator].implementation.address = shared.address
  BY <1>1, <1>2 DEF EntryExists
<1>4. /\ shared.address \in 1 .. Len(code)
      /\ SoundMetadata(shared.deployment, shared.address, code)
  BY <1>2 DEF SoundContract
<1>5. PendShared(book, operator)
        = SetPendingImplementationWithMetadata(book, shared.address, shared.deployment)
  BY <1>3 DEF PendShared
<1> QED
  BY <1>1, <1>4, <1>5, Basics, PendSound DEF IInv, BookSound

LEMMA DeployWithSharedStep ==
  ASSUME IInv, DeployWithShared
  PROVE  /\ IInv'
         /\ book'.pending = book.pending \/ book'.pending > book.pending
<1> DEFINE operator == script.operator
<1>1. /\ script # Idle /\ script.name = "deploy" /\ script.step = "deploy" /\ script' = Idle
      /\ UNCHANGED <<Chain, torn, shared, records, artifact, bundle, proposed, Bounds>>
      /\ operator \in Operators /\ RecordIsShared
  BY Running DEF DeployWithShared, AtStep, Finish, Fail, IInv, ScriptSound
<1>2. CASE UNCHANGED book
  BY <1>1, <1>2, ChainStays, PartsStay, RelaxedScript DEF IInv, Chain, Bounds
<1>3. CASE EntryExists(book) /\ SharedChanged(operator) /\ shared.deployment.known
             /\ book' = PendShared(book, operator)
  <2>1. /\ SoundBook(book', proxyType, code, Len(proxies)) /\ (~torn => Whole(book', code))
        /\ book'.pending = shared.address /\ proxyType = "shared"
    BY <1>1, <1>3, PendSharedSound DEF RecordIsShared
  <2>2. book.pending <= shared.address /\ book.pending \in Nat /\ shared.address \in Nat
    BY <2>1, Basics DEF IInv, PendingOld, AddressBookEntry
  <2>3. BookSound' /\ PendingOld'
    BY <1>1, <2>1, <2>2 DEF IInv, BookSound, PendingOld, Chain
  <2>4. ChainSound' /\ TeamSound' /\ SharedSound' /\ RecordsAreSound' /\ FilesSound' /\ ScriptSound'
    BY <1>1, ChainStays, PartsStay, RelaxedScript DEF Chain, Bounds
  <2> QED BY <2>1, <2>2, <2>3, <2>4 DEF IInv
<1> QED
  BY <1>2, <1>3 DEF DeployWithShared

LEMMA DeployFirstWithSharedStep ==
  ASSUME IInv, DeployFirstWithShared
  PROVE  IInv'
<1> DEFINE operator == script.operator
           record == records[operator].implementation
<1>1. /\ script # Idle /\ script.name = "deploy" /\ script.step = "deploy"
      /\ proxyType = "shared" /\ records[operator].proxy = 0
      /\ UNCHANGED <<Chain, book, torn, shared, records, artifact, bundle, proposed, Bounds>>
      /\ script' = Idle \/ (record # NoRecord /\ GoToWith("proxy", record.address))
      /\ operator \in Operators /\ operator \in Team
  BY Running DEF DeployFirstWithShared, AtStep, Fail
<1>2. ~EntryExists(book)
  BY <1>1 DEF IInv, ScriptSound
<1>3. /\ ChainSound' /\ TeamSound' /\ BookSound' /\ SharedSound' /\ PendingOld'
      /\ RecordsAreSound' /\ FilesSound'
  BY <1>1, ChainStays, PartsStay DEF Chain, Bounds
<1>4. CASE script' = Idle
  BY <1>1, <1>3, <1>4, RelaxedScript DEF IInv
<1>5. CASE record # NoRecord /\ GoToWith("proxy", record.address)
  <2>1. record.address \in 1 .. Len(code)
    BY <1>1, <1>5 DEF IInv, RecordsAreSound, SoundRecords, SoundRecord
  <2>2. record.address \in 0 .. MaxCode /\ "proxy" \in Steps
    BY <2>1, Basics, Constants DEF Steps
  <2>3. /\ script' \in RunningScript /\ script'.operator = operator
        /\ script'.name = "deploy" /\ script'.step = "proxy"
        /\ script'.implementation = record.address
    BY <1>1, <1>5, <2>2, Moves DEF GoToWith
  <2>4. /\ script'.operator \in Team' /\ ~EntryExists(book)' /\ proxyType' = "shared"
        /\ script'.implementation \in 1 .. Len(code')
    BY <1>1, <1>2, <2>1, <2>3 DEF Team, EntryExists, Chain
  <2>5. ScriptSound'
    BY <2>3, <2>4 DEF ScriptSound
  <2> QED BY <1>3, <2>5 DEF IInv
<1> QED
  BY <1>1, <1>4, <1>5

LEMMA ClaimStep ==
  ASSUME IInv, ClaimBundleSlot
  PROVE  IInv'
<1>1. /\ script # Idle /\ script.name = "upgrade" /\ script.step = "claim"
      /\ bundle' = [bundle EXCEPT ![script.operator] = NoBundle] /\ GoTo("save")
      /\ UNCHANGED <<Chain, book, torn, shared, records, artifact, proposed, Bounds>>
      /\ script.operator \in Team /\ script.operator \in Operators /\ RecordIsShared
  BY Running DEF ClaimBundleSlot, AtStep, IInv, ScriptSound
<1>2. /\ ChainSound' /\ TeamSound' /\ BookSound' /\ SharedSound' /\ PendingOld' /\ RecordsAreSound'
  BY <1>1, ChainStays, PartsStay DEF Chain, Bounds
<1>3. FilesSound'
  <2>1. NoBundle \in Bundles
    BY Constants DEF NoBundle, Bundles
  <2>2. SoundFile(NoBundle, code, Len(proxies))
    BY DEF SoundFile
  <2> QED BY <1>1, <2>1, <2>2 DEF FilesSound, IInv, Chain
<1>4. /\ script' \in RunningScript /\ script'.operator = script.operator
      /\ script'.name = "upgrade" /\ script'.step = "save"
  BY <1>1, Goes DEF Steps
<1>5. script'.operator \in Team' /\ RecordIsShared'
  BY <1>1, <1>4 DEF Team, RecordIsShared, EntryExists, Chain
<1>6. ScriptSound'
  BY <1>4, <1>5 DEF ScriptSound
<1> QED
  BY <1>2, <1>3, <1>6 DEF IInv

LEMMA SaveBundleStep ==
  ASSUME IInv, SaveUpgradeBundle
  PROVE  /\ IInv'
         /\ book.pending # 0 => book' = book
<1> DEFINE operator == script.operator
           pends    == ~HasPending(book) /\ SharedChanged(operator)
           entry    == IF pends THEN PendShared(book, operator) ELSE book
<1>1. /\ script # Idle /\ script.name = "upgrade" /\ script.step = "save"
      /\ UNCHANGED <<Chain, torn, shared, records, artifact, proposed, Bounds>>
      /\ operator \in Team /\ operator \in Operators /\ RecordIsShared
      /\ script' = Idle \/ GoTo("resync")
  BY Running DEF SaveUpgradeBundle, AtStep, IInv, ScriptSound, Fail
<1>2. /\ ChainSound' /\ TeamSound' /\ SharedSound' /\ RecordsAreSound' /\ ScriptSound'
  BY <1>1, ChainStays, PartsStay, RelaxedScript DEF Chain, Bounds
<1>3. CASE UNCHANGED <<book, bundle>>
  <2>1. BookSound' /\ PendingOld' /\ FilesSound'
    BY <1>1, <1>3, ChainStays, PartsStay
  <2> QED BY <1>2, <1>3, <2>1 DEF IInv
<1>4. CASE /\ EntryExists(book) /\ (pends => shared.deployment.known)
           /\ book' = entry
           /\ bundle' = IF HasPending(entry)
                          THEN [bundle EXCEPT ![operator] =
                                  [proxy |-> entry.address, implementation |-> entry.pending]]
                          ELSE bundle
  <2>1. /\ SoundBook(entry, proxyType, code, Len(proxies)) /\ entry.address = book.address
        /\ ~torn => Whole(entry, code)
        /\ proxyType = "shared" => entry.pending <= shared.address
        /\ book.pending # 0 => entry = book
    <3>1. CASE pends
      <4>1. /\ SoundBook(PendShared(book, operator), proxyType, code, Len(proxies))
            /\ ~torn => Whole(PendShared(book, operator), code)
            /\ PendShared(book, operator).pending = shared.address
            /\ PendShared(book, operator).address = book.address
        BY <1>1, <1>4, <3>1, PendSharedSound DEF RecordIsShared
      <4>2. book.pending = 0 /\ shared.address \in Nat
        BY <3>1, Basics DEF HasPending, AddressBookEntry
      <4> QED BY <3>1, <4>1, <4>2
    <3>2. CASE ~pends
      BY <3>2 DEF IInv, BookSound, PendingOld
    <3> QED BY <3>1, <3>2
  <2> HIDE DEF entry
  <2>2. SoundProxied(entry, proxyType, code, Len(proxies))
    BY <1>4, <2>1 DEF SoundBook, NoEntry, EntryExists
  <2>3. FilesSound'
    <3>1. CASE ~HasPending(entry)
      BY <1>1, <1>4, <3>1 DEF FilesSound, IInv, Chain
    <3>2. CASE HasPending(entry)
      <4> DEFINE file == [proxy |-> entry.address, implementation |-> entry.pending]
      <4>1. /\ entry.address \in 1 .. Len(proxies) /\ entry.pending \in 1 .. Len(code)
            /\ entry.address \in 0 .. MaxProxies /\ entry.pending \in 0 .. MaxCode
        <5>1. Len(proxies) \in Nat /\ Len(proxies) <= MaxProxies /\ Len(code) \in 0 .. MaxCode
          BY Basics
        <5>2. entry.address \in 1 .. Len(proxies) /\ entry.pending \in 1 .. Len(code)
          BY <2>2, <3>2 DEF SoundProxied, HasPending
        <5> QED BY <5>1, <5>2, Constants
      <4>2. file \in Bundles /\ SoundBundle(file, code, Len(proxies))
        BY <4>1 DEF Bundles, SoundBundle
      <4>3. bundle' = [bundle EXCEPT ![operator] = file]
        BY <1>4, <3>2
      <4> HIDE DEF file
      <4> QED BY <1>1, <4>2, <4>3 DEF FilesSound, IInv, Chain, SoundFile
    <3> QED BY <3>1, <3>2
  <2>4. BookSound' /\ PendingOld'
    BY <1>1, <1>4, <2>1 DEF IInv, BookSound, PendingOld, Chain
  <2> QED BY <1>2, <1>4, <2>1, <2>3, <2>4 DEF IInv
<1>5. UNCHANGED <<book, bundle>> \/ (
           /\ EntryExists(book) /\ (pends => shared.deployment.known)
           /\ book' = entry
           /\ bundle' = IF HasPending(entry)
                          THEN [bundle EXCEPT ![operator] =
                                  [proxy |-> entry.address, implementation |-> entry.pending]]
                          ELSE bundle)
  BY DEF SaveUpgradeBundle
<1> QED
  BY <1>3, <1>4, <1>5

(* A link to a page of the explorer changes nothing else in an entry.      *)
LEMMA VerifiedSound ==
  ASSUME NEW codes, Len(codes) \in Nat, NEW entry \in AddressBookEntry, NEW count, NEW type,
         NEW operator, NEW listed, NEW accepted
  PROVE  LET new == VerifySingleContract(entry, operator, listed, accepted)
         IN  /\ SoundBook(entry, type, codes, count) => SoundBook(new, type, codes, count)
             /\ SoundShared(entry, codes) => SoundShared(new, codes)
             /\ Whole(entry, codes) => Whole(new, codes)
             /\ new.address = entry.address /\ new.pending = entry.pending
             /\ new.proxy = entry.proxy
<1> DEFINE new == VerifySingleContract(entry, operator, listed, accepted)
<1>1. CASE new = entry
  BY <1>1
<1>2. CASE EntryExists(entry) /\ entry.proxy
             /\ new = SetImplementationVerified(entry, entry.implementation)
  <2> HIDE DEF new
  <2> DEFINE old == entry.implementationDeployment
             metadata == [old EXCEPT !.verified = entry.implementation]
  <2>1. old \in DeploymentMetadata /\ entry.implementation \in Nat
    BY DEF AddressBookEntry
  <2>2. /\ metadata \in DeploymentMetadata /\ metadata.verified = entry.implementation
        /\ metadata.hash = old.hash /\ metadata.args = old.args /\ metadata.block = old.block
        /\ metadata.known = old.known
    BY <2>1 DEF DeploymentMetadata
  <2>3. new = [entry EXCEPT !.implementationDeployment = metadata]
    BY <1>2, <2>1 DEF SetImplementationVerified
  <2> HIDE DEF metadata
  <2>4. /\ new \in AddressBookEntry /\ new.implementationDeployment = metadata
        /\ new.proxy = entry.proxy /\ new.address = entry.address /\ new.pending = entry.pending
        /\ new.implementation = entry.implementation
        /\ new.pendingDeployment = entry.pendingDeployment
    BY <2>2, <2>3 DEF AddressBookEntry
  <2>5. SoundMetadata(old, entry.implementation, codes)
          => SoundMetadata(metadata, entry.implementation, codes)
    BY <2>2 DEF SoundMetadata
  <2>6. SoundProxied(entry, type, codes, count) => SoundProxied(new, type, codes, count)
    BY <2>4, <2>5 DEF SoundProxied
  <2>7. entry # NoEntry /\ ~SoundContract(entry, codes)
    BY <1>2 DEF EntryExists, NoEntry, SoundContract
  <2> QED BY <2>4, <2>5, <2>6, <2>7 DEF SoundBook, SoundShared, Whole, new
<1>3. CASE EntryExists(entry) /\ ~entry.proxy /\ new = SetVerified(entry, entry.address)
  <2> HIDE DEF new
  <2> DEFINE old == entry.deployment
             metadata == [old EXCEPT !.verified = entry.address]
  <2>1. old \in DeploymentMetadata /\ entry.address \in Nat
    BY DEF AddressBookEntry
  <2>2. /\ metadata \in DeploymentMetadata /\ metadata.verified = entry.address
        /\ metadata.hash = old.hash /\ metadata.args = old.args /\ metadata.block = old.block
        /\ metadata.known = old.known
    BY <2>1 DEF DeploymentMetadata
  <2>3. new = [entry EXCEPT !.deployment = metadata]
    BY <1>3, <2>1 DEF SetVerified
  <2> HIDE DEF metadata
  <2>4. /\ new \in AddressBookEntry /\ new.deployment = metadata
        /\ new.proxy = entry.proxy /\ new.address = entry.address /\ new.pending = entry.pending
        /\ new.implementation = entry.implementation
        /\ new.implementationDeployment = entry.implementationDeployment
    BY <2>2, <2>3 DEF AddressBookEntry
  <2>5. SoundMetadata(old, entry.address, codes) => SoundMetadata(metadata, entry.address, codes)
    BY <2>2 DEF SoundMetadata
  <2>6. SoundContract(entry, codes) => SoundContract(new, codes)
    BY <2>2, <2>4, <2>5 DEF SoundContract
  <2>7. entry # NoEntry /\ ~SoundProxied(entry, type, codes, count)
    BY <1>3 DEF EntryExists, NoEntry, SoundProxied
  <2> QED BY <2>4, <2>5, <2>6, <2>7 DEF SoundBook, SoundShared, Whole, new
<1>4. \/ new = entry
      \/ /\ EntryExists(entry) /\ entry.proxy
         /\ new = SetImplementationVerified(entry, entry.implementation)
      \/ EntryExists(entry) /\ ~entry.proxy /\ new = SetVerified(entry, entry.address)
  BY DEF VerifySingleContract, ImplementationAddress
<1> QED
  BY <1>1, <1>2, <1>3, <1>4

LEMMA VerifyStep ==
  ASSUME IInv, VerifyContracts
  PROVE  IInv' /\ book'.pending = book.pending
<1>1. /\ script # Idle /\ script' = Idle
      /\ UNCHANGED <<Chain, torn, records, artifact, bundle, proposed, Bounds>>
  BY DEF VerifyContracts, AtStep, Finish
<1>2. PICK listed, accepted :
        LET verified == VerifySingleContract(ArtifactEntry, script.operator, listed, accepted)
        IN  IF proxyType = "shared" THEN shared' = verified /\ UNCHANGED book
                                    ELSE book' = verified /\ UNCHANGED shared
  BY DEF VerifyContracts
<1>3. /\ ChainSound' /\ TeamSound' /\ RecordsAreSound' /\ FilesSound' /\ ScriptSound'
  BY <1>1, ChainStays, PartsStay, RelaxedScript DEF Chain, Bounds
<1>4. /\ SoundBook(book', proxyType, code, Len(proxies)) /\ SoundShared(shared', code)
      /\ ~torn => Whole(book', code)
      /\ book'.pending = book.pending /\ shared'.address = shared.address
  <2>1. CASE proxyType = "shared"
    BY <1>2, <2>1, Basics, VerifiedSound DEF ArtifactEntry, IInv, BookSound, SharedSound
  <2>2. CASE proxyType # "shared"
    BY <1>2, <2>2, Basics, VerifiedSound DEF ArtifactEntry, IInv, BookSound, SharedSound
  <2> QED BY <2>1, <2>2
<1>5. BookSound' /\ SharedSound' /\ PendingOld'
  BY <1>1, <1>4 DEF BookSound, SharedSound, PendingOld, Chain, IInv
<1> QED
  BY <1>3, <1>4, <1>5 DEF IInv


-----------------------------------------------------------------------------
(* Governance, and what others do.                                         *)

(* A proxy gets a bundle's implementation, by any of the transactions.     *)
LEMMA UpgradedSound ==
  ASSUME IInv, NEW proxy, SoundProxy(proxy, code), NEW implementation \in 1 .. Len(code)
  PROVE  /\ SoundProxy(Upgraded(proxy, implementation), code)
         /\ SoundProxy(Accepted(proxy, implementation), code)
<1>1. implementation \in 1 .. MaxCode /\ implementation \in 0 .. MaxCode
  BY Basics, Constants
<1>2. 0 \in 0 .. MaxCode /\ 0 \in 0 .. Len(code)
  BY Basics, Constants
<1>3. /\ proxy \in [implementation: 1 .. MaxCode, next: 0 .. MaxCode]
      /\ proxy.implementation \in 1 .. Len(code) /\ proxy.next \in 0 .. Len(code)
      /\ implementation \in 0 .. Len(code)
  BY Basics DEF SoundProxy
<1>4. SoundProxy([proxy EXCEPT !.next = implementation], code)
  BY <1>1, <1>3 DEF SoundProxy
<1>5. SoundProxy([proxy EXCEPT !.implementation = implementation], code)
  BY <1>1, <1>3 DEF SoundProxy
<1>6. SoundProxy([implementation |-> implementation, next |-> 0], code)
  BY <1>1, <1>2 DEF SoundProxy
<1> QED
  BY <1>3, <1>4, <1>5, <1>6 DEF Upgraded, Accepted

(* Transactions of a bundle change one proxy and nothing else.             *)
LEMMA TransactionSound ==
  ASSUME IInv, NEW target, SoundFile(target, code, Len(proxies)), NEW new,
         SoundBundle(target, code, Len(proxies)) => SoundProxy(new, code),
         proxies' = [proxies EXCEPT ![target.proxy] = new],
         UNCHANGED <<code, proxyType, governorIsSafe, book, torn, shared, records, artifact, builds,
                     crashes, external>>
  PROVE  /\ ChainSound' /\ TeamSound' /\ BookSound' /\ SharedSound' /\ PendingOld'
         /\ RecordsAreSound' /\ Len(proxies') = Len(proxies) /\ Extends(code, code')
         /\ (script' = script => ScriptSound')
         /\ UNCHANGED <<bundle, proposed>> => FilesSound'
<1>1. /\ proxies' \in Seq([implementation: 1 .. MaxCode, next: 0 .. MaxCode])
      /\ Len(proxies') = Len(proxies)
      /\ \A p \in 1 .. Len(proxies) : SoundProxy(proxies'[p], code)
  <2>1. CASE SoundBundle(target, code, Len(proxies))
    <3>1. SoundProxy(new, code) /\ target.proxy \in 1 .. Len(proxies)
      BY <2>1 DEF SoundBundle
    <3>2. new \in [implementation: 1 .. MaxCode, next: 0 .. MaxCode]
      BY <3>1 DEF SoundProxy
    <3>3. \A p \in 1 .. Len(proxies) : SoundProxy(proxies[p], code)
      BY DEF IInv, ChainSound
    <3> QED BY <3>1, <3>2, <3>3, Basics
  <2>2. CASE target = NoBundle
    <3>1. target.proxy = 0 /\ DOMAIN proxies = 1 .. Len(proxies) /\ Len(proxies) \in Nat
      BY <2>2, Basics DEF NoBundle
    <3>2. proxies' = proxies
      <4>1. target.proxy \notin DOMAIN proxies
        BY <3>1
      <4>2. proxies = [p \in DOMAIN proxies |-> proxies[p]]
        BY Basics
      <4>3. proxies' = [p \in DOMAIN proxies |-> proxies[p]]
        BY <4>1
      <4> QED BY <4>2, <4>3
    <3> QED BY <3>2, Basics DEF IInv, ChainSound
  <2> QED BY <2>1, <2>2 DEF SoundFile
<1>2. /\ Extends(code, code') /\ Len(proxies') \in Nat /\ Len(proxies) <= Len(proxies')
      /\ proxyType' = proxyType
  BY <1>1, Basics
<1>3. ChainSound'
  BY <1>1, Basics DEF ChainSound, IInv
<1> QED
  BY <1>1, <1>2, <1>3, PartsStay

LEMMA ExecuteUpgradeStep ==
  ASSUME IInv, ExecuteUpgrade
  PROVE  IInv'
<1> DEFINE target == bundle[script.operator]
           new    == Upgraded(proxies[target.proxy], target.implementation)
<1>1. /\ script # Idle /\ proxies' = [proxies EXCEPT ![target.proxy] = new]
      /\ GoTo("accept") \/ GoTo("archive")
      /\ UNCHANGED <<code, proxyType, governorIsSafe, book, torn, shared, records, artifact, bundle,
                     proposed, Bounds>>
  BY DEF ExecuteUpgrade, AtStep
<1>2. SoundFile(target, code, Len(proxies))
  BY <1>1, Running DEF IInv, FilesSound
<1>3. ASSUME SoundBundle(target, code, Len(proxies)) PROVE SoundProxy(new, code)
  <2>1. SoundProxy(proxies[target.proxy], code) /\ target.implementation \in 1 .. Len(code)
    BY <1>3 DEF SoundBundle, IInv, ChainSound
  <2> QED BY <2>1, UpgradedSound
<1> HIDE DEF target, new
<1>4. /\ ChainSound' /\ TeamSound' /\ BookSound' /\ SharedSound' /\ PendingOld'
      /\ RecordsAreSound' /\ FilesSound'
  BY <1>1, <1>2, <1>3, TransactionSound DEF Bounds
<1>5. ScriptSound'
  BY <1>1, RelaxedScript
<1> QED
  BY <1>4, <1>5 DEF IInv

LEMMA ExecuteAcceptStep ==
  ASSUME IInv, ExecuteAccept
  PROVE  IInv'
<1> DEFINE target == bundle[script.operator]
           new    == Accepted(proxies[target.proxy], target.implementation)
<1>1. /\ script # Idle /\ proxies' = [proxies EXCEPT ![target.proxy] = new]
      /\ GoTo("archive") \/ script' = Idle
      /\ UNCHANGED <<code, proxyType, governorIsSafe, book, torn, shared, records, artifact, bundle,
                     proposed, Bounds>>
  BY DEF ExecuteAccept, AtStep, Fail
<1>2. SoundFile(target, code, Len(proxies))
  BY <1>1, Running DEF IInv, FilesSound
<1>3. ASSUME SoundBundle(target, code, Len(proxies)) PROVE SoundProxy(new, code)
  <2>1. SoundProxy(proxies[target.proxy], code) /\ target.implementation \in 1 .. Len(code)
    BY <1>3 DEF SoundBundle, IInv, ChainSound
  <2> QED BY <2>1, UpgradedSound
<1> HIDE DEF target, new
<1>4. /\ ChainSound' /\ TeamSound' /\ BookSound' /\ SharedSound' /\ PendingOld'
      /\ RecordsAreSound' /\ FilesSound'
  BY <1>1, <1>2, <1>3, TransactionSound DEF Bounds
<1>5. ScriptSound'
  BY <1>1, RelaxedScript
<1> QED
  BY <1>4, <1>5 DEF IInv

(* A file is removed.                                                      *)
LEMMA NoFileSound ==
  ASSUME IInv, NEW operator \in Operators, bundle' = [bundle EXCEPT ![operator] = NoBundle],
         UNCHANGED <<Chain, proposed>>
  PROVE  FilesSound'
<1>1. NoBundle \in Bundles
  BY Constants DEF NoBundle, Bundles
<1>2. SoundFile(NoBundle, code, Len(proxies))
  BY DEF SoundFile
<1> QED
  BY <1>1, <1>2 DEF FilesSound, IInv, Chain

LEMMA ArchiveStep ==
  ASSUME IInv, ArchiveBundle
  PROVE  IInv'
<1>1. /\ script # Idle /\ script' = Idle
      /\ bundle' = [bundle EXCEPT ![script.operator] = NoBundle]
      /\ UNCHANGED <<Chain, book, torn, shared, records, artifact, proposed, Bounds>>
  BY DEF ArchiveBundle, AtStep, Finish
<1>2. FilesSound'
  BY <1>1, Running, NoFileSound
<1>3. ChainSound' /\ TeamSound' /\ BookSound' /\ SharedSound' /\ PendingOld' /\ RecordsAreSound'
        /\ ScriptSound'
  BY <1>1, ChainStays, PartsStay, RelaxedScript DEF Chain, Bounds
<1> QED
  BY <1>2, <1>3 DEF IInv

LEMMA ProposeStep ==
  ASSUME IInv, NEW operator \in Team, ProposeToSafe(operator)
  PROVE  IInv'
<1>1. /\ bundle[operator] # NoBundle /\ proposed' = proposed \union {bundle[operator]}
      /\ UNCHANGED <<Chain, book, torn, shared, records, artifact, bundle, script, Bounds>>
  BY DEF ProposeToSafe
<1>2. SoundBundle(bundle[operator], code, Len(proxies))
  BY <1>1, Basics DEF IInv, FilesSound, SoundFile
<1>3. FilesSound'
  BY <1>1, <1>2 DEF FilesSound, IInv, Chain
<1>4. ChainSound' /\ TeamSound' /\ BookSound' /\ SharedSound' /\ PendingOld' /\ RecordsAreSound'
        /\ ScriptSound'
  BY <1>1, ChainStays, PartsStay DEF Chain, Bounds
<1> QED
  BY <1>3, <1>4 DEF IInv

LEMMA SafeExecutesStep ==
  ASSUME IInv, NEW target \in proposed, SafeExecutes(target)
  PROVE  IInv'
<1> DEFINE new == Accepted(Upgraded(proxies[target.proxy], target.implementation),
                           target.implementation)
<1>1. /\ proxies' = [proxies EXCEPT ![target.proxy] = new]
      /\ proposed' = proposed \ {target}
      /\ UNCHANGED <<code, proxyType, governorIsSafe, book, torn, shared, records, artifact, bundle,
                     script, Bounds>>
  BY DEF SafeExecutes
<1>2. SoundBundle(target, code, Len(proxies))
  BY DEF IInv, FilesSound
<1>3. SoundProxy(new, code)
  <2>1. SoundProxy(proxies[target.proxy], code) /\ target.implementation \in 1 .. Len(code)
    BY <1>2 DEF SoundBundle, IInv, ChainSound
  <2> QED BY <2>1, UpgradedSound
<1> HIDE DEF new
<1>4. /\ ChainSound' /\ TeamSound' /\ BookSound' /\ SharedSound' /\ PendingOld'
      /\ RecordsAreSound' /\ ScriptSound' /\ Len(proxies') = Len(proxies)
  BY <1>1, <1>2, <1>3, TransactionSound DEF Bounds, SoundFile
<1>5. FilesSound'
  BY <1>1, <1>4 DEF FilesSound, IInv
<1> QED
  BY <1>4, <1>5 DEF IInv

LEMMA ChangeArtifactStep ==
  ASSUME IInv, NEW operator \in Team, NEW other \in Artifacts, ChangeArtifact(operator, other)
  PROVE  IInv'
<1>1. /\ script' = Idle /\ artifact' = [artifact EXCEPT ![operator] = other]
      /\ builds' = builds + 1
      /\ UNCHANGED <<Chain, book, torn, shared, records, bundle, proposed, crashes, external>>
  BY DEF ChangeArtifact
<1>2. artifact' \in [Team -> Artifacts] /\ Team' = Team
  BY <1>1, Basics DEF Team
<1>3. TeamSound'
  BY <1>1, <1>2 DEF TeamSound, IInv, Chain
<1>4. ScriptSound'
  BY <1>1 DEF ScriptSound, Idle
<1>5. ChainSound' /\ BookSound' /\ SharedSound' /\ PendingOld' /\ RecordsAreSound' /\ FilesSound'
  BY <1>1, ChainStays, PartsStay DEF Chain
<1> QED
  BY <1>3, <1>4, <1>5 DEF IInv

LEMMA CrashStep ==
  ASSUME IInv, Crash
  PROVE  IInv'
<1>1. /\ script' = Idle /\ crashes' = crashes + 1
      /\ UNCHANGED <<Chain, book, torn, shared, records, artifact, bundle, proposed, builds, external>>
  BY DEF Crash
<1>2. TeamSound'
  BY <1>1 DEF TeamSound, Team, IInv, Chain
<1>3. ChainSound' /\ BookSound' /\ SharedSound' /\ PendingOld' /\ RecordsAreSound' /\ FilesSound'
        /\ ScriptSound'
  BY <1>1, ChainStays, PartsStay, RelaxedScript DEF Chain
<1> QED
  BY <1>2, <1>3 DEF IInv

LEMMA NoRecordsSound ==
  ASSUME NEW codes, NEW count \in Nat
  PROVE  SoundRecords(NoRecords, codes, count)
<1>1. NoRecord \in ImplementationRecord
  BY Constants DEF NoRecord, ImplementationRecord
<1>2. SoundRecord(NoRecord, codes)
  BY <1>1 DEF SoundRecord, NoRecord
<1>3. NoRecords \in DeploymentRecords
  BY <1>1, Constants DEF NoRecords, DeploymentRecords
<1>4. NoRecords.implementation = NoRecord /\ NoRecords.own = 0 /\ NoRecords.proxy = 0
  BY DEF NoRecords
<1> QED
  BY <1>2, <1>3, <1>4 DEF SoundRecords

LEMMA LoseCheckoutStep ==
  ASSUME IInv, NEW operator \in Team, LoseCheckout(operator)
  PROVE  IInv'
<1>1. /\ script' = Idle /\ crashes' = crashes + 1
      /\ records' = [records EXCEPT ![operator] = NoRecords]
      /\ bundle' = [bundle EXCEPT ![operator] = NoBundle]
      /\ UNCHANGED <<Chain, book, torn, shared, artifact, proposed, builds, external>>
      /\ operator \in Operators
  BY Basics DEF LoseCheckout
<1>2. TeamSound'
  BY <1>1 DEF TeamSound, Team, IInv, Chain
<1>3. FilesSound'
  BY <1>1, NoFileSound
<1>4. RecordsAreSound'
  <2>1. SoundRecords(NoRecords, code, Len(proxies)) /\ NoRecords \in DeploymentRecords
    BY NoRecordsSound, Basics DEF SoundRecords
  <2> QED BY <1>1, <2>1, Basics DEF RecordsAreSound, IInv, Chain
<1>5. ScriptSound'
  BY <1>1, RelaxedScript
<1>6. ChainSound' /\ BookSound' /\ SharedSound' /\ PendingOld'
  BY <1>1, ChainStays, PartsStay DEF Chain
<1> QED
  BY <1>2, <1>3, <1>4, <1>5, <1>6 DEF IInv

LEMMA ExternalUpgradeStep ==
  ASSUME IInv, NEW build \in Artifacts, ExternalUpgrade(build)
  PROVE  IInv'
<1> DEFINE new == [proxies[book.address] EXCEPT !.implementation = Len(code) + 1]
<1>1. /\ EntryExists(book) /\ Len(code) < MaxCode /\ code' = Append(code, build)
      /\ proxies' = [proxies EXCEPT ![book.address] = new]
      /\ external' = external + 1
      /\ UNCHANGED <<proxyType, governorIsSafe, book, torn, shared, records, artifact, bundle, proposed,
                     script, builds, crashes>>
  BY DEF ExternalUpgrade
<1>2. /\ Extends(code, code') /\ code' \in Seq(Artifacts) /\ Len(code') = Len(code) + 1
      /\ Len(code) + 1 \in 1 .. MaxCode
  BY <1>1, Basics, AppendExtends, Constants
<1>3. book.address \in 1 .. Len(proxies)
  BY <1>1, Basics DEF EntryExists, SoundProxied
<1>4. SoundProxy(new, code')
  <2>1. SoundProxy(proxies[book.address], code)
    BY <1>3 DEF IInv, ChainSound
  <2>2. SoundProxy(proxies[book.address], code')
    BY <1>2, <2>1, ProxyStays
  <2>3. Len(code) + 1 \in 1 .. Len(code')
    BY <1>2, Basics
  <2> QED BY <1>2, <2>2, <2>3 DEF SoundProxy
<1> HIDE DEF new
<1>5. /\ proxies' \in Seq([implementation: 1 .. MaxCode, next: 0 .. MaxCode])
      /\ Len(proxies') = Len(proxies)
      /\ \A p \in 1 .. Len(proxies) : p # book.address => proxies'[p] = proxies[p]
      /\ proxies'[book.address] = new
  BY <1>1, <1>3, <1>4, Basics DEF SoundProxy
<1>6. Len(proxies') \in Nat /\ Len(proxies) <= Len(proxies') /\ proxyType' = proxyType
  BY <1>1, <1>5, Basics
<1>7. ChainSound'
  <2>1. \A p \in 1 .. Len(proxies) : SoundProxy(proxies[p], code')
    BY <1>2, <1>6, StoresStay
  <2>2. \A p \in 1 .. Len(proxies') : SoundProxy(proxies'[p], code')
    BY <1>4, <1>5, <2>1
  <2> QED BY <1>2, <1>5, <2>2, Basics DEF ChainSound
<1>8. TeamSound'
  BY <1>1 DEF TeamSound, Team, IInv
<1>9. BookSound' /\ SharedSound' /\ PendingOld' /\ RecordsAreSound' /\ FilesSound' /\ ScriptSound'
  BY <1>1, <1>2, <1>6, PartsStay
<1> QED
  BY <1>7, <1>8, <1>9 DEF IInv

-----------------------------------------------------------------------------
(* The invariant holds at first, and no step breaks it.                    *)

(* What InitialMetadata says of code that runs.                            *)
Recorded(build, block) ==
  [NoMetadata EXCEPT !.hash = build.hash, !.args = build.args, !.block = block, !.known = TRUE]

LEMMA InitialSound ==
  ASSUME NEW build \in Artifacts, NEW metadata \in InitialMetadata(build)
  PROVE  /\ metadata \in DeploymentMetadata /\ SoundMetadata(metadata, 1, <<build>>)
         /\ proxyType = "shared" => metadata.known /\ metadata.block = 1
<1>1. metadata = NoMetadata \/ \E block \in {0, 1} : metadata = Recorded(build, block)
  BY DEF InitialMetadata, Recorded
<1>2. proxyType = "shared" => metadata = Recorded(build, 1)
  BY DEF InitialMetadata, Recorded
<1>3. ASSUME NEW block \in {0, 1}, metadata = Recorded(build, block)
      PROVE  /\ metadata \in DeploymentMetadata /\ SoundMetadata(metadata, 1, <<build>>)
             /\ metadata.known /\ metadata.block = block
  <2>1. /\ build.hash \in Hashes /\ build.args \in ArgValues /\ block \in Nat
        /\ NoMetadata \in DeploymentMetadata /\ NoMetadata.verified = 0
    BY EntryTypes DEF Artifacts, NoMetadata
  <2>2. /\ metadata \in DeploymentMetadata /\ metadata.hash = build.hash
        /\ metadata.args = build.args /\ metadata.block = block /\ metadata.known
        /\ metadata.verified = 0
    BY <1>3, <2>1 DEF Recorded, DeploymentMetadata
  <2>3. <<build>> \in Seq(Artifacts) /\ 1 \in 1 .. Len(<<build>>) /\ <<build>>[1] = build
    OBVIOUS
  <2>4. metadata.block \in {0, 1}
    BY <2>2
  <2> QED BY <2>2, <2>3, <2>4, RecordedClaims
<1>4. CASE metadata = NoMetadata
  <2>1. proxyType # "shared"
    <3>1. Recorded(build, 1).block = 1 /\ NoMetadata.block = 0
      BY DEF Recorded, NoMetadata
    <3> QED BY <1>2, <1>4, <3>1
  <2> QED BY <1>4, <2>1, EntryTypes, NothingClaimed
<1> QED
  BY <1>1, <1>2, <1>3, <1>4

LEMMA InitialInvariant == Init => IInv
<1> SUFFICES ASSUME Init PROVE IInv
  OBVIOUS
<1>1. /\ records = [operator \in Operators |-> NoRecords]
      /\ bundle = [operator \in Operators |-> NoBundle] /\ proposed = {} /\ script = Idle
      /\ torn = FALSE
      /\ builds = 0 /\ crashes = 0 /\ external = 0
      /\ proxyType \in ProxyTypes /\ governorIsSafe \in BOOLEAN
      /\ \E team \in SUBSET Operators \ {{}} : artifact \in [team -> Artifacts]
  BY DEF Init
<1>2. TeamSound /\ ScriptSound
  BY <1>1 DEF TeamSound, Team, ScriptSound
<1>3. RecordsAreSound
  <2>1. Len(proxies) \in Nat
    BY DEF Init
  <2>2. SoundRecords(NoRecords, code, Len(proxies)) /\ NoRecords \in DeploymentRecords
    BY <2>1, NoRecordsSound DEF SoundRecords
  <2> QED BY <1>1, <2>2 DEF RecordsAreSound
<1>4. FilesSound
  <2>1. NoBundle \in Bundles
    BY Constants DEF NoBundle, Bundles
  <2> QED BY <1>1, <2>1 DEF FilesSound, SoundFile
<1>5. CASE code = <<>> /\ proxies = <<>> /\ book = NoEntry /\ shared = NoEntry
  <2>1. ChainSound
    BY <1>5, Constants DEF ChainSound
  <2>2. BookSound /\ SharedSound /\ PendingOld
    <3>1. NoEntry.pending = 0 /\ NoEntry.address = 0
      BY DEF NoEntry
    <3>2. torn \in BOOLEAN
      BY <1>1
    <3>3. Whole(NoEntry, code)
      BY NothingClaimed DEF Whole, NoEntry
    <3> QED BY <1>5, <3>1, <3>2, <3>3, EntryTypes
            DEF BookSound, SharedSound, PendingOld, SoundBook, SoundShared
  <2> QED BY <1>2, <1>3, <1>4, <2>1, <2>2 DEF IInv
<1>6. ASSUME NEW build \in Artifacts, NEW metadata \in InitialMetadata(build),
             code = <<build>>, proxies = <<[implementation |-> 1, next |-> 0]>>,
             IF proxyType = "shared"
               THEN book = SetProxy(1, 1) /\ shared = SetDeploymentMetadata(SetContract(1), metadata)
               ELSE /\ book = SetImplementationDeploymentMetadata(SetProxy(1, 1), metadata)
                    /\ shared = NoEntry
      PROVE  IInv
  <2>1. /\ code \in Seq(Artifacts) /\ Len(code) = 1 /\ Len(proxies) = 1
        /\ 1 \in 1 .. Len(code) /\ 1 \in 1 .. Len(proxies) /\ Len(code) \in Nat
    BY <1>6
  <2>2. ChainSound
    <3> DEFINE proxy == [implementation |-> 1, next |-> 0]
    <3>1. proxy \in [implementation: 1 .. MaxCode, next: 0 .. MaxCode]
      BY Constants
    <3>2. SoundProxy(proxy, code)
      BY <2>1, <3>1 DEF SoundProxy
    <3>3. proxies = <<proxy>>
      BY <1>6
    <3> HIDE DEF proxy
    <3> QED BY <2>1, <3>1, <3>2, <3>3, Constants DEF ChainSound
  <2>3. /\ metadata \in DeploymentMetadata /\ SoundMetadata(metadata, 1, code)
        /\ proxyType = "shared" => metadata.known /\ metadata.block = 1
    BY <1>6, InitialSound
  <2>4. BookSound /\ PendingOld
    <3>1. CASE proxyType = "shared"
      <4>1. SoundMetadata(NoMetadata, 1, code) /\ NoMetadata \in DeploymentMetadata
        BY EntryTypes, NothingClaimed
      <4>2. book = ProxyUpdate(1, 1, NoMetadata)
        BY <1>6, <3>1 DEF ProxyUpdate, SetProxy, SetImplementationDeploymentMetadata, NoEntry
      <4>3. SoundBook(book, proxyType, code, Len(proxies)) /\ book.pending = 0 /\ Whole(book, code)
        BY <2>1, <4>1, <4>2, NewProxied
      <4>4. shared.address \in Nat
        BY <1>6, <2>3, <3>1, NewContract DEF ContractUpdate
      <4>5. torn \in BOOLEAN
        BY <1>1
      <4> QED BY <4>3, <4>4, <4>5 DEF BookSound, PendingOld
    <3>2. CASE proxyType # "shared"
      <4>1. book = ProxyUpdate(1, 1, metadata)
        BY <1>6, <3>2 DEF ProxyUpdate
      <4>2. SoundBook(book, proxyType, code, Len(proxies)) /\ book.pending = 0 /\ Whole(book, code)
        BY <2>1, <2>3, <4>1, NewProxied
      <4>3. torn \in BOOLEAN
        BY <1>1
      <4> QED BY <3>2, <4>2, <4>3 DEF BookSound, PendingOld
    <3> QED BY <3>1, <3>2
  <2>5. SharedSound
    <3>1. CASE proxyType = "shared"
      <4>1. shared = ContractUpdate(1, metadata)
        BY <1>6, <3>1 DEF ContractUpdate
      <4>2. /\ shared \in AddressBookEntry /\ ~shared.proxy /\ shared.address = 1
            /\ shared.deployment = metadata
        BY <2>3, <4>1, NewContract
      <4> QED BY <2>1, <2>3, <3>1, <4>2 DEF SharedSound, SoundShared, SoundContract
    <3>2. CASE proxyType # "shared"
      BY <1>6, <3>2, EntryTypes DEF SharedSound, SoundShared
    <3> QED BY <3>1, <3>2
  <2> QED BY <1>2, <1>3, <1>4, <2>2, <2>4, <2>5 DEF IInv
<1>7. \/ code = <<>> /\ proxies = <<>> /\ book = NoEntry /\ shared = NoEntry
      \/ \E build \in Artifacts : \E metadata \in InitialMetadata(build) :
          /\ code = <<build>>
          /\ proxies = <<[implementation |-> 1, next |-> 0]>>
          /\ IF proxyType = "shared"
               THEN book = SetProxy(1, 1) /\ shared = SetDeploymentMetadata(SetContract(1), metadata)
               ELSE /\ book = SetImplementationDeploymentMetadata(SetProxy(1, 1), metadata)
                    /\ shared = NoEntry
  BY DEF Init
<1> QED
  BY <1>5, <1>6, <1>7

(* The invariant is kept, and a pending implementation only goes the way   *)
(* PendingNeverLost allows.                                                *)
PendingKept ==
  HasPending(book) /\ book'.pending # book.pending =>
    \/ book'.pending > book.pending
    \/ /\ book'.pending = 0
       /\ book'.implementation = book.pending
       /\ book'.implementationDeployment = book.pendingDeployment
       /\ proxies'[book'.address].implementation = book.pending

LEMMA SyncKeepsPending ==
  ASSUME IInv, script # Idle, SyncContract(script.operator), UNCHANGED Chain
  PROVE  PendingKept
<1>1. Synced(script.operator)
  BY Running, SyncSound
<1>2. proxies' = proxies
  BY DEF Chain
<1> QED
  BY <1>1, <1>2 DEF Synced, Promotes, PendingKept

LEMMA InvariantKept == IInv /\ [Next]_vars => IInv' /\ PendingKept
<1> SUFFICES ASSUME IInv, [Next]_vars PROVE IInv' /\ PendingKept
  OBVIOUS
<1>0. book' = book => PendingKept
  BY DEF PendingKept
<1>1. CASE FirstSync
  BY <1>1, FirstSyncStep, SyncKeepsPending DEF FirstSync
<1>2. CASE LastSync
  BY <1>2, LastSyncStep, SyncKeepsPending DEF LastSync
<1>3. CASE DeployImplementation
  BY <1>0, <1>3, DeployImplementationStep DEF DeployImplementation
<1>4. CASE RecordPending
  BY <1>4, RecordPendingStep DEF PendingKept
<1>5. CASE DeployFirstImplementation
  BY <1>0, <1>5, DeployFirstStep DEF DeployFirstImplementation
<1>6. CASE DeployProxy
  BY <1>0, <1>6, DeployProxyStep DEF DeployProxy
<1>7. CASE SaveProxyRecord
  BY <1>0, <1>7, SaveProxyRecordStep DEF SaveProxyRecord
<1>8. CASE UpdateProxyAddressBook
  BY <1>8, UpdateBookStep DEF PendingKept, HasPending
<1>9. CASE DeployShared
  BY <1>0, <1>9, DeploySharedStep DEF DeployShared
<1>10. CASE SaveShared
  BY <1>0, <1>10, SaveSharedStep DEF SaveShared
<1>11. CASE DeployWithShared
  BY <1>11, DeployWithSharedStep DEF PendingKept
<1>12. CASE DeployFirstWithShared
  BY <1>0, <1>12, DeployFirstWithSharedStep DEF DeployFirstWithShared
<1>13. CASE ClaimBundleSlot
  BY <1>0, <1>13, ClaimStep DEF ClaimBundleSlot
<1>14. CASE SaveUpgradeBundle
  BY <1>14, SaveBundleStep DEF PendingKept, HasPending
<1>15. CASE ExecuteUpgrade
  BY <1>0, <1>15, ExecuteUpgradeStep DEF ExecuteUpgrade
<1>16. CASE ExecuteAccept
  BY <1>0, <1>16, ExecuteAcceptStep DEF ExecuteAccept
<1>17. CASE ArchiveBundle
  BY <1>0, <1>17, ArchiveStep DEF ArchiveBundle
<1>18. CASE VerifyContracts
  BY <1>18, VerifyStep DEF PendingKept
<1>19. CASE \E operator \in Team :
              \/ \E name \in Scripts : StartScript(operator, name)
              \/ ProposeToSafe(operator)
              \/ LoseCheckout(operator)
              \/ \E other \in Artifacts : ChangeArtifact(operator, other)
  <2>1. PICK operator \in Team :
              \/ \E name \in Scripts : StartScript(operator, name)
              \/ ProposeToSafe(operator)
              \/ LoseCheckout(operator)
              \/ \E other \in Artifacts : ChangeArtifact(operator, other)
    BY <1>19
  <2>2. book' = book
    BY <2>1 DEF StartScript, ProposeToSafe, LoseCheckout, ChangeArtifact
  <2>3. IInv'
    BY <2>1, StartStep, ProposeStep, LoseCheckoutStep, ChangeArtifactStep
  <2> QED BY <1>0, <2>2, <2>3
<1>20. CASE \E target \in proposed : SafeExecutes(target)
  BY <1>0, <1>20, SafeExecutesStep DEF SafeExecutes
<1>21. CASE \E build \in Artifacts : ExternalUpgrade(build)
  BY <1>0, <1>21, ExternalUpgradeStep DEF ExternalUpgrade
<1>22. CASE Crash
  BY <1>0, <1>22, CrashStep DEF Crash
<1>24. CASE TearSync
  BY <1>24, TearSyncStep DEF PendingKept
<1>23. CASE UNCHANGED vars
  <2>1. /\ UNCHANGED <<Chain, book, torn, shared, records, artifact, bundle, proposed, script, Bounds>>
        /\ UNCHANGED <<governorIsSafe, artifact, builds, crashes, external>>
    BY <1>23 DEF vars, Chain, Bounds
  <2>2. IInv'
    BY <2>1, ChainStays, PartsStay DEF IInv
  <2> QED BY <1>0, <2>1, <2>2
<1> QED
  BY <1>1, <1>2, <1>3, <1>4, <1>5, <1>6, <1>7, <1>8, <1>9, <1>10, <1>11, <1>12, <1>13, <1>14,
     <1>15, <1>16, <1>17, <1>18, <1>19, <1>20, <1>21, <1>22, <1>23, <1>24
  DEF Next, ScriptStep

LEMMA Invariant == Spec => []IInv
<1>1. Init => IInv
  BY InitialInvariant
<1>2. IInv /\ [Next]_vars => IInv'
  BY InvariantKept
<1> QED
  BY <1>1, <1>2, PTL DEF Spec

-----------------------------------------------------------------------------
(* What the invariant says.                                                *)

LEMMA SoundDescribes ==
  ASSUME NEW metadata, NEW address, SoundMetadata(metadata, address, code)
  PROVE  Describes(metadata, address)
BY DEF SoundMetadata, Describes

(* The books: metadata that says nothing describes anything.               *)
LEMMA SoundIsTruthful == IInv => BooksSound
<1> SUFFICES ASSUME IInv PROVE BooksSound
  OBVIOUS
<1>1. TypeOK
  <2>1. /\ book \in AddressBookEntry /\ shared \in AddressBookEntry
    BY Basics
  <2>2. proposed \subseteq Bundles /\ bundle \in [Operators -> Bundles]
    BY DEF IInv, FilesSound, SoundBundle
  <2>3. records \in [Operators -> DeploymentRecords]
    BY DEF IInv, RecordsAreSound
  <2>4. /\ proxyType \in ProxyTypes /\ governorIsSafe \in BOOLEAN
        /\ Team \in SUBSET Operators \ {{}} /\ artifact \in [Team -> Artifacts]
        /\ {builds, crashes, external} \subseteq Nat
    BY DEF IInv, TeamSound
  <2>5. /\ code \in Seq(Artifacts) /\ Len(code) <= MaxCode
        /\ proxies \in Seq([implementation: 1 .. MaxCode, next: 0 .. MaxCode])
    BY DEF IInv, ChainSound
  <2>6. torn \in BOOLEAN
    BY DEF IInv, BookSound
  <2> QED BY <2>1, <2>2, <2>3, <2>4, <2>5, <2>6 DEF TypeOK
<1>2. Describes(book.pendingDeployment, book.pending)
  <2>1. CASE book = NoEntry
    BY <2>1 DEF NoEntry, NoMetadata, Describes
  <2>2. CASE SoundProxied(book, proxyType, code, Len(proxies))
    BY <2>2, SoundDescribes DEF SoundProxied
  <2> QED BY <2>1, <2>2 DEF IInv, BookSound, SoundBook
<1>4. ASSUME ~torn
      PROVE  /\ Describes(book.implementationDeployment, book.implementation)
             /\ book.implementationDeployment.verified \in {0, book.implementation}
  <2>1. SoundMetadata(book.implementationDeployment, book.implementation, code)
    BY <1>4 DEF IInv, BookSound, Whole
  <2> QED BY <2>1, SoundDescribes DEF SoundMetadata
<1>3. /\ Describes(shared.deployment, shared.address)
      /\ shared.deployment.verified \in {0, shared.address}
  <2>1. CASE shared = NoEntry
    BY <2>1 DEF NoEntry, NoMetadata, Describes
  <2>2. CASE SoundContract(shared, code)
    BY <2>2, SoundDescribes DEF SoundContract, SoundMetadata
  <2> QED BY <2>1, <2>2 DEF IInv, SharedSound, SoundShared
<1> QED
  BY <1>1, <1>2, <1>3, <1>4 DEF BooksSound, BookTruthful

LEMMA SoundStatus == IInv => StatusTruthful
<1> SUFFICES ASSUME IInv, NEW operator \in Team
             PROVE
    /\ \A provider \in ProviderAvailable :
         /\ StatusLine(operator, provider) = "ok" => LifecycleHint(operator) = "up to date"
         /\ StatusLine(operator, provider) = "ok" /\ proxyType = "shared" =>
              code[shared.address].hash = ArtifactHash(operator)
         /\ StatusLine(operator, provider) = "ok" /\ proxyType # "shared" /\ ~torn =>
              code[OnChainImplementation].hash = ArtifactHash(operator)
    /\ LifecycleHint(operator) = "up to date" /\ proxyType # "shared" /\ ~torn =>
         code[book.implementation].hash = ArtifactHash(operator)
    /\ ProposesDeploy(operator) => LifecycleHint(operator) = "deploy"
    /\ ValidateContract(operator) = "error" /\ ~torn => GetDeploymentMetadata(book).args = NoArgs
  BY DEF StatusTruthful
<1>1. ArtifactHash(operator) \in Hashes /\ ArtifactHash(operator) # NoHash
  BY Basics, Constants DEF ArtifactHash, Artifacts
<1>2. /\ EntryExists(book) => SoundProxied(book, proxyType, code, Len(proxies))
      /\ ~torn => SoundMetadata(book.implementationDeployment, book.implementation, code)
  BY Basics DEF EntryExists, IInv, BookSound, Whole
<1>3. ASSUME EntryExists(book), ~CodeChanged(operator)
      PROVE  /\ proxyType = "shared" => code[shared.address].hash = ArtifactHash(operator)
             /\ proxyType # "shared" /\ ~torn => code[book.implementation].hash = ArtifactHash(operator)
  <2>1. CASE proxyType = "shared"
    <3>1. GetDeploymentMetadata(shared).hash # NoHash
            /\ GetDeploymentMetadata(shared).hash = ArtifactHash(operator)
      BY <1>1, <1>3, <2>1 DEF CodeChanged, ArtifactEntry
    <3>2. CASE shared = NoEntry
      BY <3>1, <3>2 DEF GetDeploymentMetadata, NoEntry, NoMetadata
    <3>3. CASE SoundContract(shared, code)
      BY <2>1, <3>1, <3>3 DEF GetDeploymentMetadata, SoundContract, SoundMetadata
    <3> QED BY <3>2, <3>3 DEF IInv, SharedSound, SoundShared
  <2>2. CASE proxyType # "shared" /\ ~torn
    <3>1. book.implementationDeployment.hash = ArtifactHash(operator)
      BY <1>2, <1>3, <2>2 DEF CodeChanged, ArtifactEntry, GetDeploymentMetadata, SoundProxied
    <3> QED BY <1>1, <1>2, <1>3, <2>2, <3>1 DEF SoundProxied, SoundMetadata
  <2> QED BY <2>1, <2>2
<1>4. ASSUME NEW provider \in ProviderAvailable, StatusLine(operator, provider) = "ok"
      PROVE  /\ EntryExists(book) /\ book.implementation = OnChainImplementation
             /\ ~CodeChanged(operator) /\ ~HasPending(book)
  BY <1>4 DEF StatusLine, ProxyStatusLine
<1>5. EntryExists(book) /\ ~CodeChanged(operator) /\ ~HasPending(book)
        <=> LifecycleHint(operator) = "up to date"
  BY DEF LifecycleHint
<1>6. ASSUME NEW provider \in ProviderAvailable, StatusLine(operator, provider) = "ok"
      PROVE  /\ LifecycleHint(operator) = "up to date"
             /\ proxyType = "shared" => code[shared.address].hash = ArtifactHash(operator)
             /\ proxyType # "shared" /\ ~torn =>
                  code[OnChainImplementation].hash = ArtifactHash(operator)
  BY <1>3, <1>4, <1>5, <1>6
<1>7. LifecycleHint(operator) = "up to date" /\ proxyType # "shared" /\ ~torn =>
        code[book.implementation].hash = ArtifactHash(operator)
  BY <1>3, <1>5
<1>8. ProposesDeploy(operator) => LifecycleHint(operator) = "deploy"
  BY DEF ProposesDeploy, LifecycleHint
<1>9. ASSUME ValidateContract(operator) = "error", ~torn
      PROVE  GetDeploymentMetadata(book).args = NoArgs
  <2>1. /\ EntryExists(book) /\ GetDeploymentMetadata(book).hash # NoHash
        /\ GetDeploymentMetadata(book).args # code[book.implementation].args
    BY <1>9 DEF ValidateContract, MetadataComplete
  <2> QED BY <1>2, <1>9, <2>1 DEF GetDeploymentMetadata, SoundProxied, SoundMetadata
<1> QED
  BY <1>6, <1>7, <1>8, <1>9

-----------------------------------------------------------------------------
(* Whatever the operators interleave, whatever stops half way, is lost or  *)
(* upgraded by others: the entries all scripts share stay readable, and    *)
(* what they claim of an address is true of the code deployed there; only  *)
(* what they say of the current implementation is not, from a sync that    *)
(* stopped between its two writes until the next upgrade.                  *)
THEOREM BooksStaySound == Spec => []BooksSound
BY Invariant, SoundIsTruthful, PTL

(* deploy:status says of no contract that it is up to date unless the      *)
(* chain runs the code checked out, or a sync stopped between its two      *)
(* writes; and its two kinds of advice agree.                              *)
THEOREM StatusStaysTruthful == Spec => []StatusTruthful
BY Invariant, SoundStatus, PTL

(* An implementation that waits for governance is forgotten by no step: it *)
(* is replaced by a later one, or it runs and its metadata goes with it.   *)
THEOREM PendingStaysRecorded == Spec => PendingNeverLost
<1>1. IInv /\ [Next]_vars => [PendingKept]_vars
  BY InvariantKept
<1> QED
  BY <1>1, Invariant, PTL DEF Spec, PendingNeverLost, PendingKept

-----------------------------------------------------------------------------
(* Token locks: the inductive invariant.                                   *)

(* What may be sent to the chain, and what a task may still have to do.    *)
Transactions ==
  ({"create", "cancel", "accept"} \X Entries) \union ({"approve", "deposit", "withdraw"} \X Nat)
    \union ({"authorise"} \X Functions) \union ({"destination"} \X Targets)
    \union ({"transfer"} \X Owners)

Items == Transactions \union ({"check"} \X Targets) \union ({"save"} \X Seq(Transactions))

LockTasks == [run: 1 .. MaxTasks, request: scenario.requests, todo: Seq(Items),
              created: Entries \union {NoWallet}]

Chains ==
  [owner: Owners, purse: [Owners -> Nat], allowance: [Owners -> Nat], balance: Nat,
   created: SUBSET Entries, accepted: SUBSET Entries, held: [Entries -> Nat],
   functions: SUBSET Functions, destinations: SUBSET Targets]

TotalOf(c) == c.purse[Deployer] + c.purse[Safe] + c.balance + SumFunctionOnSet(c.held, Entries)

SoundChain(c) ==
  /\ c \in Chains
  /\ TotalOf(c) = Supply
  /\ \A e \in Entries : c.held[e] \in {0, Amount[e]} /\ (c.held[e] > 0 => e \in c.created)
  /\ c.accepted \subseteq c.created

LocksInv ==
  /\ scenario \in Scenarios
  /\ SoundChain(chain)
  /\ recorded \subseteq chain.created
  /\ batches \subseteq Seq(Transactions)
  /\ tasks \subseteq LockTasks
  /\ \A task \in tasks : task.created # NoWallet => task.created \in chain.created
  /\ failures \in 0 .. MaxFailures

(* What the chain keeps, whatever is sent to it.                           *)
Keeps(c, new) ==
  /\ c.created \subseteq new.created /\ c.accepted \subseteq new.accepted
  /\ \A e \in c.accepted : new.held[e] = c.held[e]

-----------------------------------------------------------------------------
(* Transactions.                                                           *)

LEMMA Ledger ==
  /\ IsFiniteSet(Entries) /\ Amount \in [Entries -> Nat \ {0}]
  /\ Owners = {Deployer, Safe} /\ Deployer # Safe
  /\ DeployFile \in Seq(Entries) /\ NoWallet \notin Entries
<1>1. /\ DeployFile \in Seq(Entries) /\ Amount \in [Entries -> Nat \ {0}] /\ NoWallet \notin Entries
  BY LocksAssumption
<1>2. IsFiniteSet(Entries)
  <2>1. DOMAIN DeployFile = 1 .. Len(DeployFile) /\ Len(DeployFile) \in Nat
    BY <1>1
  <2>2. IsFiniteSet(DOMAIN DeployFile)
    BY <2>1, FS_Interval
  <2> DEFINE S == DOMAIN DeployFile
             T == {DeployFile[i] : i \in S}
  <2>3. DeployFile \in Surjection(S, T)
    <3>1. DeployFile = [i \in S |-> DeployFile[i]]
      BY <1>1
    <3>2. DeployFile \in [S -> T] /\ \A t \in T : \E i \in S : DeployFile[i] = t
      BY <3>1
    <3> HIDE DEF S, T
    <3> QED BY <3>2 DEF Surjection
  <2>4. IsFiniteSet(T)
    BY <2>2, <2>3, FS_Surjection
  <2> QED BY <2>4 DEF Entries, Range
<1> QED
  BY <1>1, <1>2 DEF Owners, Deployer, Safe

LEMMA TransactionFacts ==
  ASSUME NEW tx \in Transactions
  PROVE  /\ tx[1] \in {"create", "cancel", "accept", "approve", "deposit", "withdraw", "authorise",
                       "destination", "transfer"}
         /\ tx[1] \in {"create", "cancel", "accept"} => tx[2] \in Entries
         /\ tx[1] \in {"approve", "deposit", "withdraw"} => tx[2] \in Nat
         /\ tx[1] = "authorise" => tx[2] \in Functions
         /\ tx[1] = "destination" => tx[2] \in Targets
         /\ tx[1] = "transfer" => tx[2] \in Owners
BY DEF Transactions

LEMMA ItemFacts ==
  ASSUME NEW item \in Items
  PROVE  /\ item[1] \notin {"check", "save"} => item \in Transactions
         /\ item[1] = "check" => item[2] \in Targets
         /\ item[1] = "save" => item[2] \in Seq(Transactions)
<1>1. item \in Transactions => item[1] \notin {"check", "save"}
  BY TransactionFacts
<1> QED
  BY <1>1 DEF Items

(* One lock gets or loses its tokens.                                      *)
LEMMA HeldChanges ==
  ASSUME NEW f \in [Entries -> Nat], NEW e \in Entries, NEW amount \in Nat,
         NEW g, g = [f EXCEPT ![e] = amount]
  PROVE  /\ SumFunctionOnSet(g, Entries) = SumFunctionOnSet(f, Entries) + amount - f[e]
         /\ SumFunctionOnSet(f, Entries) \in Nat
<1>1. /\ \A y \in Entries : f[y] \in Int /\ g[y] \in Int
      /\ \A y \in Entries \ {e} : g[y] = f[y]
      /\ g[e] = amount /\ \A y \in Entries : f[y] \in Nat
  OBVIOUS
<1>2. IsFiniteSet(Entries)
  BY Ledger
<1>3. SumFunctionOnSet(g, Entries) = SumFunctionOnSet(f, Entries) + g[e] - f[e]
  BY <1>1, <1>2, SumUpdate
<1>4. SumFunctionOnSet(f, Entries) \in Nat
  BY <1>1, <1>2, SumType
<1> QED
  BY <1>1, <1>3, <1>4

(* The chain after a transaction, by what is assigned.                     *)
LEMMA CreateSound ==
  ASSUME NEW c, SoundChain(c), NEW e \in Entries, CanCreate(c, e), NEW new,
         new = [c EXCEPT !.created = @ \union {e}, !.held[e] = Amount[e],
                         !.balance = @ - Amount[e]]
  PROVE  SoundChain(new) /\ Keeps(c, new) /\ e \in new.created
<1>1. /\ c \in Chains /\ e \notin c.created /\ c.balance >= Amount[e] /\ Amount[e] \in Nat
      /\ c.held[e] = 0 /\ c.accepted \subseteq c.created
  BY Ledger DEF SoundChain, CanCreate, Chains
<1>2. /\ new \in Chains /\ new.created = c.created \union {e}
      /\ new.balance = c.balance - Amount[e] /\ new.held = [c.held EXCEPT ![e] = Amount[e]]
      /\ new.purse = c.purse /\ new.accepted = c.accepted
  <2> DEFINE created == c.created \union {e}
             held    == [c.held EXCEPT ![e] = Amount[e]]
             balance == c.balance - Amount[e]
  <2>1. new = [c EXCEPT !.created = created, !.held = held, !.balance = balance]
    BY <1>1 DEF Chains
  <2>2. created \in SUBSET Entries /\ held \in [Entries -> Nat] /\ balance \in Nat
    BY <1>1 DEF Chains
  <2> HIDE DEF created, held, balance
  <2>3. /\ new \in Chains /\ new.created = created /\ new.balance = balance /\ new.held = held
        /\ new.purse = c.purse /\ new.accepted = c.accepted
    BY <1>1, <2>1, <2>2 DEF Chains
  <2> QED BY <2>3 DEF created, held, balance
<1>3. SumFunctionOnSet(new.held, Entries) = SumFunctionOnSet(c.held, Entries) + Amount[e]
        /\ SumFunctionOnSet(c.held, Entries) \in Nat
  <2>1. c.held \in [Entries -> Nat]
    BY <1>1 DEF Chains
  <2> QED BY <1>1, <1>2, <2>1, HeldChanges
<1>4. TotalOf(new) = TotalOf(c)
  <2>1. c.purse[Deployer] \in Nat /\ c.purse[Safe] \in Nat /\ c.balance \in Nat
    BY <1>1, Ledger DEF Chains
  <2> QED BY <1>1, <1>2, <1>3, <2>1 DEF TotalOf
<1>5. /\ \A y \in Entries : new.held[y] \in {0, Amount[y]} /\ (new.held[y] > 0 => y \in new.created)
      /\ new.accepted \subseteq new.created
  BY <1>1, <1>2 DEF SoundChain, Chains
<1> QED
  BY <1>1, <1>2, <1>4, <1>5 DEF SoundChain, Keeps, Chains

LEMMA CancelSound ==
  ASSUME NEW c, SoundChain(c), NEW e \in Entries, NEW sender \in Owners, CanCancel(c, e, sender),
         NEW new, new = [c EXCEPT !.held[e] = 0, !.purse[sender] = @ + c.held[e]]
  PROVE  SoundChain(new) /\ Keeps(c, new)
<1>1. /\ c \in Chains /\ e \in c.created /\ e \notin c.accepted /\ c.accepted \subseteq c.created
      /\ c.held[e] \in Nat
  BY DEF SoundChain, CanCancel, Chains
<1>2. /\ new \in Chains /\ new.created = c.created /\ new.accepted = c.accepted
      /\ new.balance = c.balance /\ new.held = [c.held EXCEPT ![e] = 0]
      /\ new.purse = [c.purse EXCEPT ![sender] = @ + c.held[e]]
  <2> DEFINE held  == [c.held EXCEPT ![e] = 0]
             purse == [c.purse EXCEPT ![sender] = @ + c.held[e]]
  <2>1. new = [c EXCEPT !.held = held, !.purse = purse]
    BY <1>1 DEF Chains
  <2>2. held \in [Entries -> Nat] /\ purse \in [Owners -> Nat]
    BY <1>1 DEF Chains
  <2> HIDE DEF held, purse
  <2>3. /\ new \in Chains /\ new.created = c.created /\ new.accepted = c.accepted
        /\ new.balance = c.balance /\ new.held = held /\ new.purse = purse
    BY <1>1, <2>1, <2>2 DEF Chains
  <2> QED BY <2>3 DEF held, purse
<1>5. SumFunctionOnSet(new.held, Entries) = SumFunctionOnSet(c.held, Entries) - c.held[e]
        /\ SumFunctionOnSet(c.held, Entries) \in Nat
  <2>1. c.held \in [Entries -> Nat]
    BY <1>1 DEF Chains
  <2> QED BY <1>1, <1>2, <2>1, HeldChanges
<1>6. /\ c.purse[Deployer] \in Nat /\ c.purse[Safe] \in Nat /\ c.balance \in Nat
      /\ new.purse[Deployer] + new.purse[Safe]
           = c.purse[Deployer] + c.purse[Safe] + c.held[e]
  BY <1>1, <1>2, Ledger DEF Chains
<1>7. new.purse[Deployer] \in Nat /\ new.purse[Safe] \in Nat
  BY <1>2, Ledger DEF Chains
<1>8. TotalOf(new) = TotalOf(c)
  BY <1>1, <1>2, <1>5, <1>6, <1>7 DEF TotalOf
<1> QED
  BY <1>1, <1>2, <1>8 DEF SoundChain, Keeps, Chains

(* The other transactions leave the locks alone.                           *)
LEMMA LocksAlone ==
  ASSUME NEW c, SoundChain(c), NEW new \in Chains,
         new.created = c.created, new.held = c.held,
         \/ new.accepted = c.accepted
         \/ (new.accepted \subseteq new.created /\ c.accepted \subseteq new.accepted),
         new.purse[Deployer] + new.purse[Safe] + new.balance
           = c.purse[Deployer] + c.purse[Safe] + c.balance
  PROVE  SoundChain(new) /\ Keeps(c, new)
<1>1. \A y \in Entries : c.held[y] \in Nat
  BY DEF SoundChain, Chains
<1>2. SumFunctionOnSet(c.held, Entries) \in Nat
  BY <1>1, Ledger, SumType
<1>3. TotalOf(new) = TotalOf(c)
  BY <1>2 DEF TotalOf
<1> QED
  BY <1>3 DEF SoundChain, Keeps


(* What is permitted leaves a sound chain, of which no lock, no acceptance *)
(* and no tokens of an accepted lock are gone.                             *)
LEMMA EffectSound ==
  ASSUME NEW c, SoundChain(c), NEW tx \in Transactions, NEW sender \in Owners,
         Permitted(c, tx, sender)
  PROVE  LET new == Effect(c, tx, sender)
         IN  /\ SoundChain(new) /\ Keeps(c, new)
             /\ tx[1] = "create" => tx[2] \in new.created
<1> DEFINE new == Effect(c, tx, sender)
<1>1. /\ c \in Chains /\ c.accepted \subseteq c.created
      /\ c.purse \in [Owners -> Nat] /\ c.allowance \in [Owners -> Nat] /\ c.balance \in Nat
  BY DEF SoundChain, Chains
<1>2. CASE tx[1] = "create"
  <2>1. tx[2] \in Entries /\ CanCreate(c, tx[2])
    BY <1>2, TransactionFacts DEF Permitted
  <2>2. new = [c EXCEPT !.created = @ \union {tx[2]}, !.held[tx[2]] = Amount[tx[2]],
                        !.balance = @ - Amount[tx[2]]]
    BY <1>2 DEF Effect
  <2> HIDE DEF new
  <2>3. SoundChain(new) /\ Keeps(c, new) /\ tx[2] \in new.created
    BY <2>1, <2>2, CreateSound
  <2> QED BY <2>3 DEF new
<1>3. CASE tx[1] = "approve"
  <2> DEFINE allowance == [c.allowance EXCEPT ![sender] = tx[2]]
  <2>1. allowance \in [Owners -> Nat]
    BY <1>1, <1>3, TransactionFacts
  <2>2. new = [c EXCEPT !.allowance = allowance]
    BY <1>1, <1>3 DEF Effect, Chains
  <2> HIDE DEF new, allowance
  <2>3. /\ new \in Chains /\ new.created = c.created /\ new.held = c.held
        /\ new.accepted = c.accepted /\ new.purse = c.purse /\ new.balance = c.balance
    BY <1>1, <2>1, <2>2 DEF Chains
  <2>4. SoundChain(new) /\ Keeps(c, new)
    BY <2>3, LocksAlone
  <2> QED BY <1>3, <2>4 DEF new
<1>4. CASE tx[1] = "deposit"
  <2> DEFINE amount    == tx[2]
             allowance == [c.allowance EXCEPT ![sender] = @ - amount]
             purse     == [c.purse EXCEPT ![sender] = @ - amount]
             balance   == c.balance + amount
  <2>1. amount \in Nat /\ c.purse[sender] >= amount /\ c.allowance[sender] >= amount
    BY <1>4, TransactionFacts DEF Permitted
  <2>2. new = [c EXCEPT !.allowance = allowance, !.purse = purse, !.balance = balance]
    BY <1>1, <1>4 DEF Effect, Chains
  <2> HIDE DEF amount
  <2>3. allowance \in [Owners -> Nat] /\ purse \in [Owners -> Nat] /\ balance \in Nat
    BY <1>1, <2>1
  <2>4. purse[Deployer] + purse[Safe] + balance = c.purse[Deployer] + c.purse[Safe] + c.balance
    BY <1>1, <2>1, Ledger
  <2> HIDE DEF new, allowance, purse, balance
  <2>5. /\ new \in Chains /\ new.created = c.created /\ new.held = c.held
        /\ new.accepted = c.accepted /\ new.purse = purse /\ new.balance = balance
    BY <1>1, <2>2, <2>3 DEF Chains
  <2>6. SoundChain(new) /\ Keeps(c, new)
    BY <2>4, <2>5, LocksAlone
  <2> QED BY <1>4, <2>6 DEF new
<1>5. CASE tx[1] = "withdraw"
  <2> DEFINE amount    == tx[2]
             purse     == [c.purse EXCEPT ![sender] = @ + amount]
             balance   == c.balance - amount
  <2>1. amount \in Nat /\ c.balance >= amount
    BY <1>5, TransactionFacts DEF Permitted
  <2>2. new = [c EXCEPT !.balance = balance, !.purse = purse]
    BY <1>1, <1>5 DEF Effect, Chains
  <2> HIDE DEF amount
  <2>3. purse \in [Owners -> Nat] /\ balance \in Nat
    BY <1>1, <2>1
  <2>4. purse[Deployer] + purse[Safe] + balance = c.purse[Deployer] + c.purse[Safe] + c.balance
    BY <1>1, <2>1, Ledger
  <2> HIDE DEF new, purse, balance
  <2>5. /\ new \in Chains /\ new.created = c.created /\ new.held = c.held
        /\ new.accepted = c.accepted /\ new.purse = purse /\ new.balance = balance
    BY <1>1, <2>2, <2>3 DEF Chains
  <2>6. SoundChain(new) /\ Keeps(c, new)
    BY <2>4, <2>5, LocksAlone
  <2> QED BY <1>5, <2>6 DEF new
<1>6. CASE tx[1] = "accept"
  <2>1. tx[2] \in Entries /\ tx[2] \in c.created
    BY <1>6, TransactionFacts DEF Permitted
  <2>2. new = [c EXCEPT !.accepted = @ \union {tx[2]}]
    BY <1>6 DEF Effect
  <2> HIDE DEF new
  <2>3. /\ new \in Chains /\ new.created = c.created /\ new.held = c.held
        /\ new.accepted = c.accepted \union {tx[2]} /\ new.purse = c.purse
        /\ new.balance = c.balance
    BY <1>1, <2>1, <2>2 DEF Chains
  <2>4. new.accepted \subseteq new.created /\ c.accepted \subseteq new.accepted
    BY <1>1, <2>1, <2>3
  <2>5. SoundChain(new) /\ Keeps(c, new)
    BY <2>3, <2>4, LocksAlone
  <2> QED BY <1>6, <2>5 DEF new
<1>7. CASE tx[1] = "cancel"
  <2>1. tx[2] \in Entries /\ CanCancel(c, tx[2], sender)
    BY <1>7, TransactionFacts DEF Permitted
  <2>2. new = [c EXCEPT !.held[tx[2]] = 0, !.purse[sender] = @ + c.held[tx[2]]]
    BY <1>7 DEF Effect
  <2> HIDE DEF new
  <2>3. SoundChain(new) /\ Keeps(c, new)
    BY <2>1, <2>2, CancelSound
  <2> QED BY <1>7, <2>3 DEF new
<1>8. CASE tx[1] = "authorise"
  <2>1. tx[2] \in Functions
    BY <1>8, TransactionFacts
  <2>2. new = [c EXCEPT !.functions = @ \union {tx[2]}]
    BY <1>8 DEF Effect
  <2> HIDE DEF new
  <2>3. /\ new \in Chains /\ new.created = c.created /\ new.held = c.held
        /\ new.accepted = c.accepted /\ new.purse = c.purse /\ new.balance = c.balance
    BY <1>1, <2>1, <2>2 DEF Chains
  <2>4. SoundChain(new) /\ Keeps(c, new)
    BY <2>3, LocksAlone
  <2> QED BY <1>8, <2>4 DEF new
<1>9. CASE tx[1] = "destination"
  <2>1. tx[2] \in Targets
    BY <1>9, TransactionFacts
  <2>2. new = [c EXCEPT !.destinations = @ \union {tx[2]}]
    BY <1>9 DEF Effect
  <2> HIDE DEF new
  <2>3. /\ new \in Chains /\ new.created = c.created /\ new.held = c.held
        /\ new.accepted = c.accepted /\ new.purse = c.purse /\ new.balance = c.balance
    BY <1>1, <2>1, <2>2 DEF Chains
  <2>4. SoundChain(new) /\ Keeps(c, new)
    BY <2>3, LocksAlone
  <2> QED BY <1>9, <2>4 DEF new
<1>10. CASE tx[1] = "transfer"
  <2>1. tx[2] \in Owners
    BY <1>10, TransactionFacts
  <2>2. new = [c EXCEPT !.owner = tx[2]]
    BY <1>10 DEF Effect
  <2> HIDE DEF new
  <2>3. /\ new \in Chains /\ new.created = c.created /\ new.held = c.held
        /\ new.accepted = c.accepted /\ new.purse = c.purse /\ new.balance = c.balance
    BY <1>1, <2>1, <2>2 DEF Chains
  <2>4. SoundChain(new) /\ Keeps(c, new)
    BY <2>3, LocksAlone
  <2> QED BY <1>10, <2>4 DEF new
<1> QED
  BY <1>2, <1>3, <1>4, <1>5, <1>6, <1>7, <1>8, <1>9, <1>10, TransactionFacts

LEMMA KeepsOn ==
  ASSUME NEW a, NEW b, NEW c, Keeps(a, b), Keeps(b, c)
  PROVE  Keeps(a, c) /\ Keeps(a, a)
BY DEF Keeps

-----------------------------------------------------------------------------
(* A batch of the Safe.                                                    *)

(* What the Safe has after so many of the transactions of a batch.         *)
Result == [reverts: BOOLEAN, chain: {c \in Chains : SoundChain(c) /\ Keeps(chain, c)}]

After(batch, last, i) ==
  IF last.reverts \/ ~Permitted(last.chain, batch[i], Safe)
    THEN [reverts |-> TRUE, chain |-> chain]
    ELSE [reverts |-> FALSE, chain |-> Effect(last.chain, batch[i], Safe)]

LEMMA AfterTyped ==
  ASSUME SoundChain(chain), NEW batch \in Seq(Transactions), NEW i \in 1 .. Len(batch),
         NEW last \in Result
  PROVE  After(batch, last, i) \in Result
<1>1. chain \in Chains /\ Keeps(chain, chain)
  BY DEF SoundChain, Keeps
<1>2. /\ last.reverts \in BOOLEAN /\ last.chain \in Chains /\ SoundChain(last.chain)
      /\ Keeps(chain, last.chain)
  BY DEF Result
<1>3. CASE last.reverts \/ ~Permitted(last.chain, batch[i], Safe)
  <2>1. After(batch, last, i) = [reverts |-> TRUE, chain |-> chain]
    BY <1>3 DEF After
  <2> QED BY <1>1, <2>1 DEF Result
<1>4. CASE ~(last.reverts \/ ~Permitted(last.chain, batch[i], Safe))
  <2> DEFINE new == Effect(last.chain, batch[i], Safe)
  <2>1. After(batch, last, i) = [reverts |-> FALSE, chain |-> new]
    BY <1>4 DEF After
  <2>2. SoundChain(new) /\ Keeps(last.chain, new)
    BY <1>2, <1>4, Ledger, EffectSound
  <2> HIDE DEF new
  <2>3. Keeps(chain, new) /\ new \in Chains
    BY <1>2, <2>2, KeepsOn DEF SoundChain
  <2> QED BY <2>1, <2>2, <2>3 DEF Result
<1> QED
  BY <1>3, <1>4

LEMMA BatchSound ==
  ASSUME SoundChain(chain), NEW batch \in Seq(Transactions), ExecuteBatch(batch)
  PROVE  SoundChain(chain') /\ Keeps(chain, chain')
<1> DEFINE n     == Len(batch)
           start == [reverts |-> FALSE, chain |-> chain]
           Body(f, i) == IF i = 0 THEN start
                         ELSE IF f[i-1].reverts \/ ~Permitted(f[i-1].chain, batch[i], Safe)
                                THEN [reverts |-> TRUE, chain |-> chain]
                                ELSE [reverts |-> FALSE, chain |-> Effect(f[i-1].chain, batch[i], Safe)]
           after == CHOOSE f : f = [i \in 0 .. n |-> Body(f, i)]
           next  == [p \in (1 .. n) \X Result |-> After(batch, p[2], p[1])]
<1>1. chain' = after[n].chain
  BY DEF ExecuteBatch
<1>2. n \in Nat
  OBVIOUS
<1>3. start \in Result
  BY DEF Result, Keeps, SoundChain
<1>4. next \in Nexts(n, Result)
  BY AfterTyped DEF Nexts
<1>5. \A f, i : Body(f, i) = IF i = 0 THEN start ELSE After(batch, f[i-1], i)
  BY DEF After
<1> HIDE DEF Body, start
<1>6. PICK f \in [0 .. n -> Result] : Follows(f, start, next, n)
  <2> HIDE DEF n, next
  <2> QED BY <1>2, <1>3, <1>4, RecursionExists
<1>7. f = [i \in 0 .. n |-> Body(f, i)]
  <2> SUFFICES ASSUME NEW i \in 0 .. n PROVE f[i] = Body(f, i)
    <3> HIDE DEF n
    <3> QED BY <1>6
  <2>1. CASE i = 0
    BY <1>5, <1>6, <2>1 DEF Follows
  <2>2. CASE i # 0
    <3>1. i \in 1 .. n /\ i - 1 \in 0 .. n /\ f[i - 1] \in Result
      BY <1>2, <1>6, <2>2
    <3>2. f[i] = next[<<i, f[i - 1]>>]
      BY <1>6, <3>1 DEF Follows
    <3>3. next[<<i, f[i - 1]>>] = After(batch, f[i - 1], i)
      BY <3>1
    <3> QED BY <1>5, <2>2, <3>2, <3>3
  <2> QED BY <2>1, <2>2
<1>8. after = [i \in 0 .. n |-> Body(after, i)]
  <2> HIDE DEF n
  <2> QED BY <1>7
<1> HIDE DEF after, next
<1> DEFINE P == {i \in 0 .. n : after[i] \in Result}
<1>9. n \in P
  <2>1. 0 \in P
    BY <1>2, <1>3, <1>5, <1>8
  <2>2. ASSUME NEW i \in 1 .. n, i - 1 \in P PROVE i \in P
    <3>1. i \in 0 .. n /\ i # 0 /\ after[i - 1] \in Result
      BY <1>2, <2>2
    <3>2. after[i] = After(batch, after[i - 1], i)
      BY <1>5, <1>8, <3>1
    <3> QED BY <3>1, <3>2, AfterTyped
  <2> HIDE DEF P
  <2>3. \A i \in 0 .. n : i \in P
    BY <1>2, <2>1, <2>2, UpToInduction
  <2> QED BY <1>2, <2>3
<1> QED
  BY <1>1, <1>9 DEF Result


-----------------------------------------------------------------------------
(* What the tasks prepare.                                                 *)

LEMMA RequestFacts ==
  ASSUME NEW request \in Requests
  PROVE  /\ request[1] = "deposit" => request[2] \in Nat
         /\ request[1] = "withdraw" => request \in Transactions
         /\ request[1] = "transfer" => request \in Transactions
         /\ request[1] = "cancel" => request \in Transactions
         /\ request[1] = "accept" => request \in Transactions
         /\ request[1] = "batch" /\ request[2] = "cancel" => request[3] \in Entries
BY DEF Requests, Transactions

(* The entry at one place of the deploy file.                              *)
Taken(last, i) == IF DeployFile[i] \in recorded THEN last ELSE Append(last, DeployFile[i])

LEMMA RemainingTyped == Remaining \in Seq(Entries)
<1> DEFINE n     == Len(DeployFile)
           S     == Seq(Entries)
           Body(f, i) == IF i = 0 THEN <<>>
                         ELSE IF DeployFile[i] \in recorded THEN f[i-1]
                         ELSE Append(f[i-1], DeployFile[i])
           remaining == CHOOSE f : f = [i \in 0 .. n |-> Body(f, i)]
           next  == [p \in (1 .. n) \X S |-> Taken(p[2], p[1])]
<1>1. Remaining = remaining[n]
  BY DEF Remaining
<1>2. n \in Nat /\ <<>> \in S
  BY Ledger
<1>3. ASSUME NEW i \in 1 .. n, NEW last \in S PROVE Taken(last, i) \in S
  <2>1. DeployFile[i] \in Entries
    BY Ledger
  <2>2. Append(last, DeployFile[i]) \in S
    BY <2>1, AppendProperties
  <2> QED BY <2>2 DEF Taken
<1>4. next \in Nexts(n, S)
  BY <1>3 DEF Nexts
<1>5. \A f, i : Body(f, i) = IF i = 0 THEN <<>> ELSE Taken(f[i-1], i)
  BY DEF Taken
<1> HIDE DEF Body, S
<1>6. PICK f \in [0 .. n -> S] : Follows(f, <<>>, next, n)
  <2> HIDE DEF n, next
  <2> QED BY <1>2, <1>4, RecursionExists
<1>7. f = [i \in 0 .. n |-> Body(f, i)]
  <2> SUFFICES ASSUME NEW i \in 0 .. n PROVE f[i] = Body(f, i)
    <3> HIDE DEF n
    <3> QED BY <1>6
  <2>1. CASE i = 0
    BY <1>5, <1>6, <2>1 DEF Follows
  <2>2. CASE i # 0
    <3>1. i \in 1 .. n /\ i - 1 \in 0 .. n /\ f[i - 1] \in S
      BY <1>2, <1>6, <2>2
    <3>2. f[i] = next[<<i, f[i - 1]>>]
      BY <1>6, <3>1 DEF Follows
    <3>3. next[<<i, f[i - 1]>>] = Taken(f[i - 1], i)
      BY <3>1
    <3> QED BY <1>5, <2>2, <3>2, <3>3
  <2> QED BY <2>1, <2>2
<1>8. remaining = [i \in 0 .. n |-> Body(remaining, i)]
  <2> HIDE DEF n
  <2> QED BY <1>7
<1> HIDE DEF remaining, next
<1> DEFINE P == {i \in 0 .. n : remaining[i] \in S}
<1>9. n \in P
  <2>1. 0 \in P
    BY <1>2, <1>5, <1>8
  <2>2. ASSUME NEW i \in 1 .. n, i - 1 \in P PROVE i \in P
    <3>1. i \in 0 .. n /\ i # 0 /\ remaining[i - 1] \in S
      BY <1>2, <2>2
    <3>2. remaining[i] = Taken(remaining[i - 1], i)
      BY <1>5, <1>8, <3>1
    <3> QED BY <1>3, <3>1, <3>2
  <2> HIDE DEF P
  <2>3. \A i \in 0 .. n : i \in P
    BY <1>2, <2>1, <2>2, UpToInduction
  <2> QED BY <1>2, <2>3
<1> QED
  BY <1>1, <1>9 DEF S

LEMMA Prepared ==
  ASSUME SoundChain(chain)
  PROVE  /\ Creations \in Seq(Transactions)
         /\ \A amount \in Nat : DepositTxs(amount) \in Seq(Transactions)
         /\ \A target \in Targets : AddDestination(target) \in Seq(Transactions)
         /\ Underfunded => Total(Remaining) - chain.balance \in Nat
<1>1. Remaining \in Seq(Entries)
  BY RemainingTyped
<1>2. Creations \in Seq(Transactions)
  <2>1. /\ DOMAIN Remaining = 1 .. Len(Remaining) /\ Len(Remaining) \in Nat
        /\ \A i \in DOMAIN Remaining : Remaining[i] \in Entries
    BY <1>1
  <2>2. \A i \in 1 .. Len(Remaining) : <<"create", Remaining[i]>> \in Transactions
    BY <2>1 DEF Transactions
  <2>3. Creations = [i \in 1 .. Len(Remaining) |-> <<"create", Remaining[i]>>]
    BY <2>1 DEF Creations
  <2> QED BY <2>1, <2>2, <2>3
<1>3. ASSUME NEW amount \in Nat PROVE DepositTxs(amount) \in Seq(Transactions)
  <2>1. <<"approve", amount>> \in Transactions /\ <<"deposit", amount>> \in Transactions
    BY DEF Transactions
  <2> QED BY <2>1 DEF DepositTxs
<1>4. ASSUME NEW target \in Targets PROVE AddDestination(target) \in Seq(Transactions)
  <2>1. <<"destination", target>> \in Transactions
    BY DEF Transactions
  <2> QED BY <2>1 DEF AddDestination
<1>5. Underfunded => Total(Remaining) - chain.balance \in Nat
  <2> DEFINE amounts == [i \in DOMAIN Remaining |-> Amount[Remaining[i]]]
  <2>1. DOMAIN Remaining = 1 .. Len(Remaining) /\ Len(Remaining) \in Nat
    BY <1>1
  <2>2. IsFiniteSet(DOMAIN Remaining)
    BY <2>1, FS_Interval
  <2>3. \A i \in DOMAIN Remaining : amounts[i] \in Nat
    BY <1>1, <2>1, Ledger
  <2> HIDE DEF amounts
  <2>4. SumFunctionOnSet(amounts, DOMAIN Remaining) \in Nat
    BY <2>2, <2>3, SumType
  <2>5. chain.balance \in Nat
    BY DEF SoundChain, Chains
  <2> QED BY <2>4, <2>5 DEF Underfunded, Total, amounts
<1> QED
  BY <1>2, <1>3, <1>4, <1>5

(* A task that writes a batch has one item.                                *)
LEMMA SavesBatch ==
  ASSUME NEW batch \in Seq(Transactions)
  PROVE  <<<<"save", batch>>>> \in Seq(Items)
<1>1. <<"save", batch>> \in Items
  BY DEF Items
<1> QED
  BY <1>1

LEMMA JustSends ==
  /\ Seq(Transactions) \subseteq Seq(Items)
  /\ Transactions \subseteq Items
BY DEF Items

-----------------------------------------------------------------------------
(* The steps.                                                              *)

LEMMA StepSound ==
  ASSUME LocksInv, scenario' = scenario, SoundChain(chain'), recorded' \subseteq chain'.created,
         batches' \subseteq Seq(Transactions), tasks' \subseteq LockTasks,
         \A task \in tasks' : task.created # NoWallet => task.created \in chain'.created,
         failures' \in 0 .. MaxFailures
  PROVE  LocksInv'
BY DEF LocksInv, SoundChain, TotalOf, Supply, LockTasks, Transactions, Items, Chains

LEMMA Same ==
  ASSUME LocksInv
  PROVE  SoundChain(chain) /\ Keeps(chain, chain) /\ failures \in 0 .. MaxFailures
BY DEF LocksInv, Keeps

LEMMA StartSound ==
  ASSUME LocksInv, NEW request \in scenario.requests, NEW todo \in Seq(Items), Start(request, todo)
  PROVE  LocksInv' /\ Keeps(chain, chain')
<1>1. UNCHANGED <<scenario, chain, recorded, batches, failures>>
  BY DEF Start
<1> DEFINE Task(run) == [run |-> run, request |-> request, todo |-> todo, created |-> NoWallet]
<1>2. PICK run \in 1 .. MaxTasks : tasks' = tasks \union {Task(run)}
  BY DEF Start
<1> DEFINE task == Task(run)
<1>3. task \in LockTasks /\ task.created = NoWallet
  BY DEF LockTasks
<1> HIDE DEF task
<1>4. /\ tasks' \subseteq LockTasks
      /\ \A t \in tasks' : t.created # NoWallet => t.created \in chain'.created
  <2>1. tasks' = tasks \union {task}
    BY <1>2 DEF task
  <2> QED BY <1>1, <2>1, <1>3 DEF LocksInv
<1> QED
  BY <1>1, <1>4, Same, StepSound DEF LocksInv

LEMMA RunSound ==
  ASSUME LocksInv, NEW request \in scenario.requests, Run(request)
  PROVE  LocksInv' /\ Keeps(chain, chain')
<1>1. request \in Requests
  BY LocksAssumption DEF LocksInv
<1>2. SoundChain(chain)
  BY DEF LocksInv
<1>3. CASE CreateLocks(request)
  <2>1. Creations \in Seq(Items) /\ Start(request, Creations)
    BY <1>2, <1>3, Prepared, JustSends DEF CreateLocks
  <2> QED BY <2>1, StartSound
<1>4. CASE CreateLocksBatch(request)
  <2> DEFINE deposit == IF Underfunded THEN DepositTxs(Total(Remaining) - chain.balance) ELSE <<>>
             batch   == deposit \o Creations
  <2>1. deposit \in Seq(Transactions) /\ Creations \in Seq(Transactions)
    <3>1. /\ Creations \in Seq(Transactions)
          /\ \A amount \in Nat : DepositTxs(amount) \in Seq(Transactions)
          /\ Underfunded => Total(Remaining) - chain.balance \in Nat
      BY <1>2, Prepared
    <3>2. CASE Underfunded
      BY <3>1, <3>2
    <3>3. CASE ~Underfunded
      BY <3>1, <3>3
    <3> QED BY <3>1, <3>2, <3>3
  <2>2. Start(request, <<<<"save", batch>>>>)
    BY <1>4 DEF CreateLocksBatch
  <2> HIDE DEF deposit
  <2>3. batch \in Seq(Transactions)
    BY <2>1, ConcatProperties
  <2> HIDE DEF batch
  <2> QED BY <2>2, <2>3, SavesBatch, StartSound
<1>5. CASE ManagerDeposit(request)
  <2>1. request[2] \in Nat /\ Start(request, DepositTxs(request[2]))
    BY <1>1, <1>5, RequestFacts DEF ManagerDeposit
  <2>2. DepositTxs(request[2]) \in Seq(Items)
    BY <1>2, <2>1, Prepared, JustSends
  <2> QED BY <2>1, <2>2, StartSound
<1>6. CASE /\ Start(request, <<request>>)
           /\ request \in Transactions
  <2>1. <<request>> \in Seq(Items)
    BY <1>6, JustSends
  <2> QED BY <1>6, <2>1, StartSound
<1>7. CASE ManagerWithdraw(request)
  BY <1>1, <1>6, <1>7, RequestFacts DEF ManagerWithdraw
<1>8. CASE ManagerTransferOwnership(request)
  BY <1>1, <1>6, <1>8, RequestFacts DEF ManagerTransferOwnership
<1>9. CASE ManagerSetupAuth(request)
  <2>1. <<"authorise", "staking">> \in Items /\ <<"destination", "staking">> \in Items
    BY DEF Items, Transactions, Functions, Targets
  <2>2. <<<<"authorise", "staking">>, <<"destination", "staking">>>> \in Seq(Items)
    BY <2>1
  <2> QED BY <1>9, <2>2, StartSound DEF ManagerSetupAuth
<1>10. CASE UpdateAuthFunctions(request)
  <2>1. /\ <<"authorise", "horizon">> \in Items /\ <<"authorise", "subgraph">> \in Items
        /\ <<"check", "staking">> \in Items /\ <<"check", "service">> \in Items
    BY DEF Items, Transactions, Functions, Targets
  <2>2. <<<<"authorise", "horizon">>, <<"authorise", "subgraph">>,
          <<"check", "staking">>, <<"check", "service">>>> \in Seq(Items)
    BY <2>1
  <2> QED BY <1>10, <2>2, StartSound DEF UpdateAuthFunctions
<1>11. CASE UpdateAuthFunctionsBatch(request)
  <2> DEFINE first == <<<<"authorise", "horizon">>, <<"authorise", "subgraph">>>>
             batch == first \o AddDestination("staking") \o AddDestination("service")
  <2>1. Start(request, <<<<"save", batch>>>>)
    BY <1>11 DEF UpdateAuthFunctionsBatch
  <2>2. <<"authorise", "horizon">> \in Transactions /\ <<"authorise", "subgraph">> \in Transactions
    BY DEF Transactions, Functions
  <2>3. first \in Seq(Transactions)
    BY <2>2
  <2>4. AddDestination("staking") \in Seq(Transactions) /\ AddDestination("service") \in Seq(Transactions)
    BY <1>2, Prepared DEF Targets
  <2> HIDE DEF first
  <2>5. batch \in Seq(Transactions)
    BY <2>3, <2>4, ConcatProperties
  <2> HIDE DEF batch
  <2> QED BY <2>1, <2>5, SavesBatch, StartSound
<1>12. CASE CancelTokenLock(request)
  BY <1>1, <1>6, <1>12, RequestFacts DEF CancelTokenLock
<1>13. CASE CancelTokenLockBatch(request)
  <2>1. request[3] \in Entries /\ Start(request, <<<<"save", <<<<"cancel", request[3]>>>>>>>>)
    BY <1>1, <1>13, RequestFacts DEF CancelTokenLockBatch
  <2>2. <<"cancel", request[3]>> \in Transactions
    BY <2>1 DEF Transactions
  <2>3. <<<<"cancel", request[3]>>>> \in Seq(Transactions)
    BY <2>2
  <2> QED BY <2>1, <2>3, SavesBatch, StartSound
<1>14. CASE BeneficiaryAcceptLock(request)
  BY <1>1, <1>6, <1>14, RequestFacts DEF BeneficiaryAcceptLock
<1> QED
  BY <1>3, <1>4, <1>5, <1>7, <1>8, <1>9, <1>10, <1>11, <1>12, <1>13, <1>14 DEF Run

(* A task that goes on is a task, and has created what it says.            *)
LEMMA BecomesSound ==
  ASSUME LocksInv, NEW task \in tasks, NEW todo \in Seq(Items),
         NEW created \in Entries \union {NoWallet}, Becomes(task, todo, created)
  PROVE  /\ tasks' \subseteq LockTasks
         /\ \A t \in tasks' : t \in tasks \/ t.created = created
<1> DEFINE next == [task EXCEPT !.todo = todo, !.created = created]
<1>1. task \in LockTasks /\ tasks \subseteq LockTasks
  BY DEF LocksInv
<1>2. next \in LockTasks /\ next.created = created
  BY <1>1 DEF LockTasks
<1>3. tasks' \subseteq tasks \union {next}
  BY DEF Becomes
<1> QED
  BY <1>1, <1>2, <1>3

(* The items of a task, and what is left of them.                          *)
LEMMA TodoFacts ==
  ASSUME LocksInv, NEW task \in tasks
  PROVE  /\ task.todo \in Seq(Items) /\ task.created \in Entries \union {NoWallet}
         /\ task.todo # <<>> => Head(task.todo) \in Items /\ Tail(task.todo) \in Seq(Items)
         /\ task.todo # <<>> => AfterFailure(task) \in Seq(Items)
<1>1. task.todo \in Seq(Items) /\ task.created \in Entries \union {NoWallet}
  BY DEF LocksInv, LockTasks
<1>2. task.todo # <<>> => Head(task.todo) \in Items /\ Tail(task.todo) \in Seq(Items)
  BY <1>1, HeadTailProperties
<1>3. <<>> \in Seq(Items)
  OBVIOUS
<1> QED
  BY <1>1, <1>2, <1>3 DEF AfterFailure

LEMMA SendSound ==
  ASSUME LocksInv, NEW task \in tasks, Send(task)
  PROVE  LocksInv' /\ Keeps(chain, chain')
<1> DEFINE tx == Head(task.todo)
<1>1. /\ task.todo # <<>> /\ UNCHANGED <<scenario, recorded, batches, failures>>
      /\ tx[1] \notin {"check", "save"}
  BY DEF Send
<1>2. tx \in Transactions /\ Tail(task.todo) \in Seq(Items) /\ AfterFailure(task) \in Seq(Items)
  BY <1>1, TodoFacts, ItemFacts
<1>3. CASE Permitted(chain, tx, Deployer)
  <2> DEFINE created == IF tx[1] = "create" THEN tx[2] ELSE NoWallet
  <2>1. chain' = Effect(chain, tx, Deployer) /\ Becomes(task, Tail(task.todo), created)
    BY <1>3 DEF Send
  <2>2. /\ SoundChain(chain') /\ Keeps(chain, chain')
        /\ tx[1] = "create" => tx[2] \in chain'.created
    BY <1>2, <1>3, <2>1, Ledger, EffectSound DEF LocksInv
  <2>3. created \in Entries \union {NoWallet} /\ (created # NoWallet => created \in chain'.created)
    BY <1>2, <2>2, TransactionFacts
  <2> HIDE DEF created, tx
  <2>4. /\ tasks' \subseteq LockTasks
        /\ \A t \in tasks' : t \in tasks \/ t.created = created
    BY <1>2, <2>1, <2>3, BecomesSound
  <2>5. \A t \in tasks' : t.created # NoWallet => t.created \in chain'.created
    BY <2>2, <2>3, <2>4 DEF LocksInv, Keeps
  <2>6. recorded' \subseteq chain'.created
    BY <1>1, <2>2 DEF LocksInv, Keeps
  <2> QED BY <1>1, <2>2, <2>4, <2>5, <2>6, StepSound DEF LocksInv
<1>4. CASE ~Permitted(chain, tx, Deployer)
  <2>1. Becomes(task, AfterFailure(task), NoWallet) /\ UNCHANGED chain
    BY <1>4 DEF Send
  <2>2. /\ tasks' \subseteq LockTasks
        /\ \A t \in tasks' : t \in tasks \/ t.created = NoWallet
    BY <1>2, <2>1, BecomesSound
  <2> QED BY <1>1, <2>1, <2>2, Same, StepSound DEF LocksInv
<1> QED
  BY <1>3, <1>4

LEMMA SaveDeployResultSound ==
  ASSUME LocksInv, NEW task \in tasks, SaveDeployResult(task)
  PROVE  LocksInv' /\ Keeps(chain, chain')
<1>1. /\ task.created # NoWallet /\ recorded' = recorded \union {task.created}
      /\ Becomes(task, task.todo, NoWallet) /\ UNCHANGED <<scenario, chain, batches, failures>>
  BY DEF SaveDeployResult
<1>2. /\ tasks' \subseteq LockTasks
      /\ \A t \in tasks' : t \in tasks \/ t.created = NoWallet
  BY <1>1, TodoFacts, BecomesSound
<1>3. recorded' \subseteq chain'.created
  BY <1>1 DEF LocksInv
<1> QED
  BY <1>1, <1>2, <1>3, Same, StepSound DEF LocksInv

LEMMA CheckDestinationSound ==
  ASSUME LocksInv, NEW task \in tasks, CheckDestination(task)
  PROVE  LocksInv' /\ Keeps(chain, chain')
<1> DEFINE target == Head(task.todo)[2]
           todo   == AddDestination(target) \o Tail(task.todo)
<1>1. /\ task.todo # <<>> /\ Head(task.todo)[1] = "check" /\ Becomes(task, todo, NoWallet)
      /\ UNCHANGED <<scenario, chain, recorded, batches, failures>>
  BY DEF CheckDestination
<1>2. target \in Targets /\ Tail(task.todo) \in Seq(Items)
  BY <1>1, TodoFacts, ItemFacts
<1> HIDE DEF target
<1>3. AddDestination(target) \in Seq(Items)
  BY <1>2, Prepared, JustSends DEF LocksInv
<1>4. todo \in Seq(Items)
  BY <1>2, <1>3, ConcatProperties
<1> HIDE DEF todo
<1>5. /\ tasks' \subseteq LockTasks
      /\ \A t \in tasks' : t \in tasks \/ t.created = NoWallet
  BY <1>1, <1>4, BecomesSound
<1> QED
  BY <1>1, <1>5, Same, StepSound DEF LocksInv

LEMMA SaveBatchSound ==
  ASSUME LocksInv, NEW task \in tasks, SaveBatch(task)
  PROVE  LocksInv' /\ Keeps(chain, chain')
<1>1. /\ task.todo # <<>> /\ Head(task.todo)[1] = "save"
      /\ batches' = batches \union {Head(task.todo)[2]} /\ Becomes(task, <<>>, NoWallet)
      /\ UNCHANGED <<scenario, chain, recorded, failures>>
  BY DEF SaveBatch
<1>2. Head(task.todo)[2] \in Seq(Transactions)
  BY <1>1, TodoFacts, ItemFacts
<1>3. batches' \subseteq Seq(Transactions)
  BY <1>1, <1>2 DEF LocksInv
<1>4. <<>> \in Seq(Items)
  OBVIOUS
<1>5. /\ tasks' \subseteq LockTasks
      /\ \A t \in tasks' : t \in tasks \/ t.created = NoWallet
  BY <1>1, <1>4, BecomesSound
<1> QED
  BY <1>1, <1>3, <1>5, Same, StepSound DEF LocksInv

LEMMA SendFailsSound ==
  ASSUME LocksInv, NEW task \in tasks, SendFails(task)
  PROVE  LocksInv' /\ Keeps(chain, chain')
<1> DEFINE tx == Head(task.todo)
<1>1. /\ failures < MaxFailures /\ task.todo # <<>> /\ Becomes(task, AfterFailure(task), NoWallet)
      /\ failures' = failures + 1 /\ UNCHANGED <<scenario, recorded, batches>>
      /\ tx[1] \notin {"check", "save"}
  BY DEF SendFails
<1>2. /\ tasks' \subseteq LockTasks
      /\ \A t \in tasks' : t \in tasks \/ t.created = NoWallet
  BY <1>1, TodoFacts, BecomesSound
<1>3. failures' \in 0 .. MaxFailures
  BY <1>1, Same, LocksAssumption
<1>4. CASE UNCHANGED chain
  BY <1>1, <1>2, <1>3, <1>4, Same, StepSound DEF LocksInv
<1>5. CASE Permitted(chain, tx, Deployer) /\ chain' = Effect(chain, tx, Deployer)
  <2>1. tx \in Transactions
    BY <1>1, TodoFacts, ItemFacts
  <2>2. SoundChain(chain') /\ Keeps(chain, chain')
    BY <1>5, <2>1, Ledger, EffectSound DEF LocksInv
  <2> HIDE DEF tx
  <2>3. \A t \in tasks' : t.created # NoWallet => t.created \in chain'.created
    BY <1>2, <2>2 DEF LocksInv, Keeps
  <2>4. recorded' \subseteq chain'.created
    BY <1>1, <2>2 DEF LocksInv, Keeps
  <2> QED BY <1>1, <1>2, <1>3, <2>2, <2>3, <2>4, StepSound DEF LocksInv
<1> QED
  BY <1>4, <1>5 DEF SendFails

LEMMA TaskDiesSound ==
  ASSUME LocksInv, NEW task \in tasks, TaskDies(task)
  PROVE  LocksInv' /\ Keeps(chain, chain')
<1>1. /\ failures < MaxFailures /\ tasks' \subseteq tasks
      /\ failures' = failures + 1 /\ UNCHANGED <<scenario, chain, recorded, batches>>
  BY DEF TaskDies
<1>2. failures' \in 0 .. MaxFailures
  BY <1>1, Same, LocksAssumption
<1> QED
  BY <1>1, <1>2, Same, StepSound DEF LocksInv

LEMMA ExecuteBatchSound ==
  ASSUME LocksInv, NEW batch \in batches, ExecuteBatch(batch)
  PROVE  LocksInv' /\ Keeps(chain, chain')
<1>1. UNCHANGED <<scenario, recorded, batches, tasks, failures>>
  BY DEF ExecuteBatch
<1>2. SoundChain(chain') /\ Keeps(chain, chain')
  BY BatchSound DEF LocksInv
<1>3. /\ recorded' \subseteq chain'.created
      /\ \A t \in tasks' : t.created # NoWallet => t.created \in chain'.created
  BY <1>1, <1>2 DEF LocksInv, Keeps
<1>4. tasks' \subseteq LockTasks /\ batches' \subseteq Seq(Transactions)
  BY <1>1 DEF LocksInv
<1> QED
  BY <1>1, <1>2, <1>3, <1>4, Same, StepSound

(* At first nothing is held, and the operators have everything.            *)
LEMMA LocksStart == LocksInit => LocksInv
<1> SUFFICES ASSUME LocksInit PROVE LocksInv
  OBVIOUS
<1>1. /\ scenario \in Scenarios /\ recorded = {} /\ batches = {} /\ tasks = {} /\ failures = 0
      /\ chain = [owner |-> scenario.owner, purse |-> scenario.purse,
                  allowance |-> [o \in Owners |-> 0], balance |-> 0,
                  created |-> {}, accepted |-> {}, held |-> [e \in Entries |-> 0],
                  functions |-> {}, destinations |-> {}]
  BY DEF LocksInit
<1>2. scenario.owner \in Owners /\ scenario.purse \in [Owners -> Nat] /\ MaxFailures \in Nat
  BY <1>1, LocksAssumption
<1>3. /\ chain \in Chains /\ chain.accepted = {} /\ chain.balance = 0
      /\ chain.held = [e \in Entries |-> 0] /\ chain.purse = scenario.purse
  BY <1>1, <1>2 DEF Chains
<1>4. SumFunctionOnSet(chain.held, Entries) = 0
  <2>1. \A e \in Entries : chain.held[e] = 0
    BY <1>3
  <2> QED BY <2>1, Ledger, SumZero
<1>5. TotalOf(chain) = Supply
  <2>1. scenario.purse[Deployer] \in Nat /\ scenario.purse[Safe] \in Nat
    BY <1>2, Ledger
  <2> QED BY <1>3, <1>4, <2>1 DEF TotalOf, Supply
<1>6. SoundChain(chain)
  BY <1>3, <1>5 DEF SoundChain
<1> QED
  BY <1>1, <1>2, <1>6 DEF LocksInv

(* A step keeps the invariant, and what the chain keeps.                   *)
LEMMA LocksStep ==
  LocksInv /\ [LocksNext]_locksVars => LocksInv' /\ Keeps(chain, chain')
<1> SUFFICES ASSUME LocksInv, [LocksNext]_locksVars PROVE LocksInv' /\ Keeps(chain, chain')
  OBVIOUS
<1>1. CASE \E request \in scenario.requests : Run(request)
  BY <1>1, RunSound
<1>2. CASE \E task \in tasks : Step(task)
  BY <1>2, SendSound, SaveDeployResultSound, CheckDestinationSound, SaveBatchSound DEF Step
<1>3. CASE \E task \in tasks : SendFails(task) \/ TaskDies(task)
  BY <1>3, SendFailsSound, TaskDiesSound
<1>4. CASE \E batch \in batches : ExecuteBatch(batch)
  BY <1>4, ExecuteBatchSound
<1>5. CASE UNCHANGED locksVars
  <2>1. UNCHANGED <<scenario, chain, recorded, batches, tasks, failures>>
    BY <1>5 DEF locksVars
  <2> QED BY <2>1, Same, StepSound DEF LocksInv
<1> QED
  BY <1>1, <1>2, <1>3, <1>4, <1>5 DEF LocksNext

LEMMA LocksInvSound == LocksInv => RecordsSound
<1> SUFFICES ASSUME LocksInv PROVE RecordsSound
  OBVIOUS
<1>1. \A t \in tasks : t.request \in scenario.requests /\ t.created \in Entries \union {NoWallet}
  BY DEF LocksInv, LockTasks
<1>2. recorded \subseteq Entries
  BY DEF LocksInv, SoundChain, Chains
<1>3. /\ chain \in Chains
      /\ \A e \in Entries : chain.held[e] \in {0, Amount[e]} /\ (chain.held[e] > 0 => e \in chain.created)
      /\ chain.purse[Deployer] + chain.purse[Safe] + chain.balance
           + SumFunctionOnSet(chain.held, Entries) = Supply
  BY DEF LocksInv, SoundChain, TotalOf
<1>4. LocksTypeOK
  BY <1>1, <1>2, <1>3 DEF LocksTypeOK, LocksInv, Chains
<1> QED
  BY <1>4 DEF RecordsSound, RecordedExists, LocksInv

(* Whatever runs side by side, dies between a transaction and its file, or *)
(* is executed late by the Safe: no token is lost or made, a lock has its  *)
(* whole amount or nothing, and an entry that the result file has, and     *)
(* that no later run creates, has its wallet.                              *)
THEOREM RecordsStaySound == LocksSpec => []RecordsSound
<1>1. LocksSpec => []LocksInv
  <2>1. LocksInit => LocksInv
    BY LocksStart
  <2>2. LocksInv /\ [LocksNext]_locksVars => LocksInv'
    BY LocksStep
  <2> QED BY <2>1, <2>2, PTL DEF LocksSpec
<1>2. LocksInv => RecordsSound
  BY LocksInvSound
<1> QED
  BY <1>1, <1>2, PTL

(* No cancellation, however old its check or its batch, takes the tokens   *)
(* of a lock that its beneficiary has accepted.                            *)
THEOREM AcceptedLockStays == LocksSpec => AcceptedLockKept
<1>1. LocksInit => LocksInv
  BY LocksStart
<1>2. LocksInv /\ [LocksNext]_locksVars => LocksInv'
  BY LocksStep
<1>3. LocksInv /\ [LocksNext]_locksVars
        => [\A e \in chain.accepted : chain'.held[e] = chain.held[e]]_locksVars
  BY LocksStep DEF Keeps
<1> QED
  BY <1>1, <1>2, <1>3, PTL DEF LocksSpec, AcceptedLockKept
=============================================================================
