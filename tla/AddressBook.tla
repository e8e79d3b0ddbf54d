----------------------------- MODULE AddressBook -----------------------------
(***************************************************************************)
(* An entry of an address book: the JSON file in which a deployment keeps,  *)
(* for every contract, its address and, for a proxied contract, its         *)
(* implementation, the implementation waiting for governance, and what is   *)
(* known about the deployment of each.                                      *)
(*                                                                          *)
(* Every operation of AddressBookOps reads the entry, builds the new one    *)
(* and writes it whole, so an operation is an operator from entries to      *)
(* entries.  An address is the position of its contract among those         *)
(* deployed, 0 where the field is absent.                                   *)
(***************************************************************************)
EXTENDS Naturals

CONSTANTS
  Hashes,     \* hashes of compiled bytecode
  ArgValues,  \* encoded constructor arguments
  NoHash,     \* the empty string
  NoArgs      \* "0x": no arguments, or arguments nobody recorded

ASSUME BookValuesAssumption == NoHash \notin Hashes

(* What a book knows about a deployment.  Block 0: no block recorded;       *)
(* verified: the address whose page of the explorer it links to.            *)
DeploymentMetadata ==
  [hash: Hashes \union {NoHash}, args: ArgValues \union {NoArgs}, block: Nat, known: BOOLEAN,
   verified: Nat]

(* An absent metadata field, and the one sync writes over a stale one.      *)
NoMetadata    ==
  [hash |-> NoHash, args |-> NoArgs, block |-> 0, known |-> FALSE, verified |-> 0]
WipedMetadata == [NoMetadata EXCEPT !.known = TRUE]

AddressBookEntry ==
  [address: Nat, proxy: BOOLEAN,
   implementation: Nat, implementationDeployment: DeploymentMetadata,
   pending: Nat, pendingDeployment: DeploymentMetadata,
   deployment: DeploymentMetadata]

NoEntry ==
  [address |-> 0, proxy |-> FALSE,
   implementation |-> 0, implementationDeployment |-> NoMetadata,
   pending |-> 0, pendingDeployment |-> NoMetadata,
   deployment |-> NoMetadata]

EntryExists(entry) == entry.address # 0
HasPending(entry)  == entry.pending # 0

(* Replaces the entry: whatever it held, a pending implementation included, *)
(* is gone.                                                                 *)
SetContract(address) == [NoEntry EXCEPT !.address = address]

SetProxy(address, implementation) ==
  [NoEntry EXCEPT !.address = address, !.proxy = TRUE, !.implementation = implementation]

SetImplementation(entry, implementation) ==
  [entry EXCEPT !.implementation = implementation]

SetDeploymentMetadata(entry, metadata) ==
  [entry EXCEPT !.deployment = metadata]

SetImplementationDeploymentMetadata(entry, metadata) ==
  [entry EXCEPT !.implementationDeployment = metadata]

(* For a contract without a proxy.                                          *)
SetVerified(entry, address) == [entry EXCEPT !.deployment.verified = address]

SetImplementationVerified(entry, address) ==
  [entry EXCEPT !.implementationDeployment.verified = address]

(* Refused when there is no pending implementation.                         *)
SetPendingDeploymentMetadata(entry, metadata) ==
  IF HasPending(entry) THEN [entry EXCEPT !.pendingDeployment = metadata] ELSE entry

(* Refused for a contract that is not a proxy; replaces an earlier pending. *)
SetPendingImplementationWithMetadata(entry, implementation, metadata) ==
  IF entry.proxy
    THEN [entry EXCEPT !.pending = implementation, !.pendingDeployment = metadata]
    ELSE entry

PromotePendingImplementationWithMetadata(entry) ==
  [entry EXCEPT !.implementation = entry.pending,
                !.implementationDeployment = entry.pendingDeployment,
                !.pending = 0,
                !.pendingDeployment = NoMetadata]

GetDeploymentMetadata(entry) ==
  IF entry.proxy THEN entry.implementationDeployment ELSE entry.deployment

=============================================================================
