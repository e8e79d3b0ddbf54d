------------------------- MODULE GraphTallyCollector ------------------------
(***************************************************************************)
(* GraphTallyCollector pays a service provider against RAVs, vouchers that *)
(* a signer of the payer signed and that a data service presents.  A RAV   *)
(* states the total owed so far; what was collected before is deducted.    *)
(*                                                                         *)
(* This module puts together the collector, the signers of Authorizable,   *)
(* and the escrow it draws on: every account of the escrow here belongs to *)
(* this collector.                                                         *)
(***************************************************************************)
EXTENDS PaymentsEscrow, Authorizable

CONSTANTS
  GraphTally,             \* address of GraphTallyCollector
  CollectionIds,
  RAVs                    \* the vouchers that have been signed

RAVType == [collectionId : CollectionIds, payer : Payers, serviceProvider : Receivers,
            dataService : DataServices, valueAggregate : Nat, signer : Signers]

ASSUME TallyAssumption ==
  /\ IsFiniteSet(CollectionIds) /\ RAVs \subseteq RAVType
  /\ Collectors = {GraphTally} /\ Authorizers = Payers
  /\ \A rav \in RAVs : rav.dataService # EscrowContract  \* it is the caller of collect

VARIABLES
  tokensCollected,        \* by data service, collection, receiver and payer
  provisioned             \* the <<receiver, dataService>> with tokens available

tallyVars == <<authorizations, noticeAt, tokensCollected, provisioned>>
allVars == <<vars, tallyVars>>

Collections == DataServices \X CollectionIds \X Receivers \X Payers

CollectionOf(rav) ==
  <<rav.dataService, rav.collectionId, rav.serviceProvider, rav.payer>>

AccountOf(rav) == <<rav.payer, GraphTally, rav.serviceProvider>>

TallyInit ==
  /\ Init
  /\ InitAuthorizations
  /\ tokensCollected = [c \in Collections |-> 0]
  /\ provisioned = {}

TokensOwed(rav) == rav.valueAggregate - tokensCollected[CollectionOf(rav)]

(* A call collects all that a RAV owes, or the part asked for.             *)
IsOwed(rav, requested) == TokensOwed(rav) > 0 /\ requested <= TokensOwed(rav)

TokensToCollect(rav, requested) ==
  IF requested = 0 THEN TokensOwed(rav) ELSE requested

(* Mutant: the payers of a receiver share one counter.                     *)
RecordCollection_ForAllPayers(c, tokens) ==
  [d \in Collections |->
     IF d[1] = c[1] /\ d[2] = c[2] /\ d[3] = c[3]
     THEN tokensCollected[d] + tokens ELSE tokensCollected[d]]

RecordCollection(c, tokens) == [tokensCollected EXCEPT ![c] = @ + tokens]

CollectRAV(caller, rav, requested, dataServiceCut, destination) ==
  LET tokens == TokensToCollect(rav, requested)
  IN  /\ caller = rav.dataService
      /\ IsAuthorized(rav.payer, rav.signer)
      /\ <<rav.serviceProvider, rav.dataService>> \in provisioned
      /\ IsOwed(rav, requested)
      /\ tokensCollected' = RecordCollection(CollectionOf(rav), tokens)
      /\ Collect(AccountOf(rav), tokens, rav.dataService, dataServiceCut, destination)
      /\ UNCHANGED <<authorizations, noticeAt, provisioned>>

(* A provision is created or filled, or all its tokens start thawing.      *)
ProvisionChanges(provision) ==
  /\ provisioned' = IF provision \in provisioned THEN provisioned \ {provision}
                    ELSE provisioned \cup {provision}
  /\ UNCHANGED <<vars, authorizations, noticeAt, tokensCollected>>

DataServiceCalls ==
  \E caller \in DataServices, rav \in RAVs, requested \in {0} \cup TokenAmounts,
     dataServiceCut \in Cuts, destination \in Destinations :
       CollectRAV(caller, rav, requested, dataServiceCut, destination)

TallyNext ==
  \/ DataServiceCalls
  \/ PayerCalls /\ UNCHANGED tallyVars
  \/ DirectPayments /\ UNCHANGED tallyVars
  \/ EnvironmentSteps /\ UNCHANGED tallyVars
  \/ AuthorizerCalls /\ UNCHANGED <<vars, tokensCollected, provisioned>>
  \/ \E provision \in Pools : ProvisionChanges(provision)

TallySpec == TallyInit /\ [][TallyNext]_allVars

-----------------------------------------------------------------------------
(* Invariants.                                                             *)

TallyTypeOK ==
  /\ TypeOK
  /\ authorizations \in [Signers -> AuthorizationType]
  /\ noticeAt \in [Signers -> Nat]
  /\ tokensCollected \in [Collections -> Nat]
  /\ provisioned \subseteq Pools

(* However many RAVs are presented, in whatever order and parts, no more   *)
(* is collected than the greatest total that a signer of the payer signed  *)
(* for this very collection.                                               *)
CollectedIsSigned ==
  \A c \in Collections :
    tokensCollected[c] > 0 =>
      \E rav \in RAVs :
        /\ CollectionOf(rav) = c
        /\ tokensCollected[c] <= rav.valueAggregate
        /\ authorizations[rav.signer].authorizer = rav.payer

(* The collector's books and the escrow's agree: an account has paid what  *)
(* was collected of it under all data services and collections together.   *)
CollectionsMatchEscrow ==
  \A payer \in Payers, receiver \in Receivers :
    collected[<<payer, GraphTally, receiver>>] =
      SumFunctionOnSet(tokensCollected, {c \in Collections : c[3] = receiver /\ c[4] = payer})

(* The books of the collector.                                             *)
CollectionsConsistent == TallyTypeOK /\ CollectionsMatchEscrow

-----------------------------------------------------------------------------
(* Action properties.                                                      *)

(* A signer's word ends with its revocation: the signer is never           *)
(* authorized again, by anyone, and until then belongs to one payer, who   *)
(* can revoke it only a whole thawing period after the last announcement,  *)
(* and only if that was not cancelled.                                     *)
SignersAreForLife ==
  [][ \A s \in Signers :
        LET auth == authorizations[s]
            new  == authorizations'[s]
        IN  /\ auth.authorizer # NoAuthorizer => new.authorizer = auth.authorizer
            /\ auth.revoked => new.revoked
            /\ new.revoked /\ ~auth.revoked =>
                 noticeAt[s] > 0 /\ now >= noticeAt[s] + RevokeThawingPeriod
    ]_allVars

-----------------------------------------------------------------------------
(* Liveness: a data service that goes on presenting what it can collect,   *)
(* to be paid into the receiver's stake.                                   *)

Collectable(rav) ==
  /\ ~paused
  /\ IsAuthorized(rav.payer, rav.signer)
  /\ <<rav.serviceProvider, rav.dataService>> \in provisioned
  /\ TokensOwed(rav) \in 1 .. escrowAccounts[AccountOf(rav)].balance

PresentsRAV(dataService) ==
  \E rav \in RAVs :
    /\ Collectable(rav)
    /\ \E dataServiceCut \in Cuts :
         CollectRAV(dataService, rav, 0, dataServiceCut, NoDestination)

TallyLiveSpec ==
  TallySpec /\ \A dataService \in DataServices : WF_tokensCollected(PresentsRAV(dataService))

(* Nothing else stands between a RAV and its payment: no data service will *)
(* hold a RAV of an authorized signer, for a provisioned receiver, which   *)
(* the account covers, for ever.  Neither the escrow's check of its        *)
(* balance, nor GraphPayments, nor staking can refuse them all.            *)
CollectableIsPaid ==
  \A dataService \in DataServices :
    []<>~(\E rav \in RAVs : rav.dataService = dataService /\ Collectable(rav))

=============================================================================
