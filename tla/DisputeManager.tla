--------------------------- MODULE DisputeManager ---------------------------
(***************************************************************************)
(* DisputeManager of the subgraph service.  A fisherman disputes what an   *)
(* indexer signed or proved, with a deposit; the arbitrator accepts (the   *)
(* indexer is slashed, the fisherman rewarded), rejects (the deposit is    *)
(* burned) or draws the dispute; the fisherman may cancel it after the     *)
(* dispute period.  Two query disputes about conflicting attestations are  *)
(* linked, and are resolved in one call.                                   *)
(*                                                                         *)
(* The id of a dispute is the hash of what is disputed, and for a query    *)
(* dispute of the fisherman too.  Ids are names here, and what went into   *)
(* the hash are constant functions of the name.  The stake is what the     *)
(* manager sees of HorizonStaking, where others may change it at any time. *)
(***************************************************************************)
EXTENDS Integers, FiniteSets, Functions

CONSTANTS
  Fishermen, Indexers,
  QueryDisputes, IndexingDisputes, FeeDisputes,    \* dispute ids, by type
  IndexerOf,              \* indexer of the attestation, allocation or agreement
  FishermanOf,            \* the fisherman in the id of a query dispute
  RequestOf, ResponseOf,  \* request and response of an attestation
  NoDispute,              \* bytes32(0)
  Deposits, Periods, RewardCuts, SlashingCuts,     \* what the owner may set
  StakeAmounts, VerifierCuts,                      \* stake that indexers come to have
  SlashAmounts,           \* the arbitrator's tokensSlash
  PauseInputs,            \* {} or BOOLEAN: whether the protocol can be paused
  MaxPPM,                 \* 100% in parts per million
  FishermanFunds,         \* what every fisherman owns at the start
  MaxTime                 \* bound on the block timestamp

DisputeIds == QueryDisputes \cup IndexingDisputes \cup FeeDisputes

(* MIN_DISPUTE_DEPOSIT, the nonzero dispute period and                     *)
(* MAX_FISHERMAN_REWARD_CUT are what the setters validate.                 *)
ASSUME DisputeAssumption ==
  /\ IsFiniteSet(Fishermen) /\ IsFiniteSet(DisputeIds)
  /\ IndexerOf \in [DisputeIds -> Indexers]
  /\ FishermanOf \in [QueryDisputes -> Fishermen]
  /\ NoDispute \notin DisputeIds
  /\ MaxPPM \in Nat \ {0} /\ MaxTime \in Nat /\ FishermanFunds \in Nat
  /\ Deposits \subseteq Nat \ {0} /\ Periods \subseteq Nat \ {0}
  /\ \A cut \in RewardCuts : cut \in Nat /\ 2 * cut <= MaxPPM
  /\ SlashingCuts \subseteq 0 .. MaxPPM /\ VerifierCuts \subseteq 0 .. MaxPPM
  /\ StakeAmounts \subseteq Nat /\ SlashAmounts \subseteq Nat
  /\ PauseInputs \subseteq BOOLEAN

VARIABLES
  now,                    \* block.timestamp
  disputes,               \* by id
  balance,                \* tokens of the manager
  funds,                  \* tokens of every fisherman
  parameters,             \* disputePeriod, disputeDeposit and the two cuts
  subgraphServiceSet,     \* whether the owner has set the subgraph service
  stakes,                 \* of every indexer, as HorizonStaking keeps it
  delegationSlashing,     \* HorizonStaking slashes delegators too
  disputable,             \* the fee disputes whose agreement has been collected on
  paused,                 \* the protocol is paused
  rewarded,               \* history: rewards of every fisherman so far
  leftOver                \* history: odd tokens of halved deposits, by fisherman

books == <<disputes, balance, funds, stakes, rewarded>>
settings == <<parameters, subgraphServiceSet, delegationSlashing, disputable, paused>>
vars == <<now, books, settings, leftOver>>

NullDispute == [status |-> "Null"]

DisputeType ==
  [indexer : Indexers, fisherman : Fishermen, deposit : Nat,
   relatedDisputeId : DisputeIds \cup {NoDispute},
   status : {"Accepted", "Rejected", "Drawn", "Pending", "Cancelled"},
   cancellableAt : Nat, stakeSnapshot : Nat]

ParametersType == [disputePeriod : Periods, disputeDeposit : Deposits,
                   fishermanRewardCut : RewardCuts, maxSlashingCut : SlashingCuts]

(* Tokens and cut of the provision, tokens of its delegation pool.         *)
StakeType == [tokens : Nat, maxVerifierCut : 0 .. MaxPPM, poolTokens : Nat]

Init ==
  /\ now = 1
  /\ disputes = [id \in DisputeIds |-> NullDispute]
  /\ balance = 0
  /\ funds = [f \in Fishermen |-> FishermanFunds]
  /\ parameters \in ParametersType
  /\ subgraphServiceSet = FALSE
  /\ stakes = [i \in Indexers |-> [tokens |-> 0, maxVerifierCut |-> 0, poolTokens |-> 0]]
  /\ delegationSlashing \in BOOLEAN
  /\ disputable = {}
  /\ paused = FALSE
  /\ rewarded = [f \in Fishermen |-> 0]
  /\ leftOver = [f \in Fishermen |-> 0]

MulPPM(a, b) == (a * b) \div MaxPPM
LesserOf(a, b) == IF a <= b THEN a ELSE b

IsDisputeCreated(id) == disputes[id].status # "Null"
IsPending(id) == disputes[id].status = "Pending"
IsDisputeInConflict(id) == disputes[id].relatedDisputeId # NoDispute

-----------------------------------------------------------------------------
(* Creating a dispute.                                                     *)

StakeSnapshot(indexer) == stakes[indexer].tokens + stakes[indexer].poolTokens

NewDispute(fisherman, id, deposit, related) ==
  [indexer          |-> IndexerOf[id],
   fisherman        |-> fisherman,
   deposit          |-> deposit,
   relatedDisputeId |-> related,
   status           |-> "Pending",
   cancellableAt    |-> now + parameters.disputePeriod,
   stakeSnapshot    |-> StakeSnapshot(IndexerOf[id])]

CanCreate(id) ==
  /\ subgraphServiceSet
  /\ ~IsDisputeCreated(id)
  /\ StakeSnapshot(IndexerOf[id]) # 0

PullDeposit(fisherman) ==
  /\ parameters.disputeDeposit <= funds[fisherman]
  /\ funds' = [funds EXCEPT ![fisherman] = @ - parameters.disputeDeposit]
  /\ balance' = balance + parameters.disputeDeposit

(* The bound on time leaves room for every dispute period to end.          *)
WithinTime == now + parameters.disputePeriod <= MaxTime

CreateDispute(fisherman, id) ==
  /\ WithinTime
  /\ CanCreate(id)
  /\ PullDeposit(fisherman)
  /\ disputes' = [disputes EXCEPT
                    ![id] = NewDispute(fisherman, id, parameters.disputeDeposit, NoDispute)]
  /\ UNCHANGED <<now, stakes, rewarded, settings, leftOver>>

CreateIndexingDispute(fisherman, id) == CreateDispute(fisherman, id)

CreateIndexingFeeDispute(fisherman, id) ==
  id \in disputable /\ CreateDispute(fisherman, id)

CreateQueryDispute(fisherman, id) ==
  FishermanOf[id] = fisherman /\ CreateDispute(fisherman, id)

AreConflicting(id1, id2) ==
  RequestOf[id1] = RequestOf[id2] /\ ResponseOf[id1] # ResponseOf[id2]

(* The deposit is halved, and an odd token stays with the manager.         *)
CreateQueryDisputeConflict(fisherman, id1, id2) ==
  LET half == parameters.disputeDeposit \div 2
  IN  /\ WithinTime
      /\ AreConflicting(id1, id2)
      /\ FishermanOf[id1] = fisherman /\ FishermanOf[id2] = fisherman
      /\ CanCreate(id1) /\ CanCreate(id2)
      /\ PullDeposit(fisherman)
      /\ disputes' = [disputes EXCEPT ![id1] = NewDispute(fisherman, id1, half, id2),
                                      ![id2] = NewDispute(fisherman, id2, half, id1)]
      /\ leftOver' = [leftOver EXCEPT ![fisherman] = @ + parameters.disputeDeposit - 2 * half]
      /\ UNCHANGED <<now, stakes, rewarded, settings>>

-----------------------------------------------------------------------------
(* Resolving disputes.  A call may resolve two, one after the other: each  *)
(* resolution is a function of the books.                                  *)

Books == [disputes |-> disputes, balance |-> balance, funds |-> funds,
          stakes |-> stakes, rewarded |-> rewarded]

BooksBecome(b) ==
  /\ disputes' = b.disputes /\ balance' = b.balance /\ funds' = b.funds
  /\ stakes' = b.stakes     /\ rewarded' = b.rewarded
  /\ UNCHANGED <<now, settings, leftOver>>

(* Mutant: the reward is taken by the fisherman's cut alone.               *)
TokensToReward_FullCut(stake, tokensSlash) ==
  MulPPM(parameters.fishermanRewardCut, LesserOf(tokensSlash, stake.tokens))

(* The reward comes of the provider's tokens, at a cut that HorizonStaking *)
(* will accept.                                                            *)
TokensToReward(stake, tokensSlash) ==
  MulPPM(LesserOf(stake.maxVerifierCut, parameters.fishermanRewardCut),
         LesserOf(tokensSlash, stake.tokens))

(* HorizonStaking.slash as the manager meets it: the provider pays first,  *)
(* the pool what is left of the amount, if delegators are slashed at all.  *)
ProviderTokensSlashed(stake, tokensSlash) ==
  LesserOf(stake.tokens, LesserOf(tokensSlash, stake.tokens + stake.poolTokens))

SlashSucceeds(stake, tokensSlash, reward) ==
  LET slashed == ProviderTokensSlashed(stake, tokensSlash)
  IN  /\ ~paused
      /\ stake.tokens + stake.poolTokens # 0
      /\ slashed > 0 => reward <= MulPPM(slashed, stake.maxVerifierCut)

SlashedStake(stake, tokensSlash) ==
  LET slashed == ProviderTokensSlashed(stake, tokensSlash)
      rest    == LesserOf(tokensSlash, stake.tokens + stake.poolTokens) - slashed
  IN  [stake EXCEPT !.tokens = @ - slashed,
                    !.poolTokens = IF delegationSlashing THEN @ - rest ELSE @]

(* What HorizonStaking sends to the manager: nothing unless the provider   *)
(* was slashed.                                                            *)
RewardSent(stake, tokensSlash, reward) ==
  IF ProviderTokensSlashed(stake, tokensSlash) > 0 THEN reward ELSE 0

CanAccept(b, id, tokensSlash) ==
  LET dispute == b.disputes[id]
      stake   == b.stakes[dispute.indexer]
      reward  == TokensToReward(stake, tokensSlash)
  IN  /\ tokensSlash # 0
      /\ tokensSlash <= MulPPM(dispute.stakeSnapshot, parameters.maxSlashingCut)
      /\ SlashSucceeds(stake, tokensSlash, reward)
      /\ reward + dispute.deposit <= b.balance + RewardSent(stake, tokensSlash, reward)

(* The fisherman gets the deposit back, and tokens that the manager was    *)
(* sent for it.                                                            *)
PayFisherman(b, id, status, tokens, received) ==
  LET fisherman == b.disputes[id].fisherman
      deposit   == b.disputes[id].deposit
  IN  [b EXCEPT !.disputes[id].status   = status,
                !.balance               = @ + received - tokens - deposit,
                !.funds[fisherman]      = @ + tokens + deposit,
                !.rewarded[fisherman]   = @ + received]

AcceptedBooks(b, id, tokensSlash) ==
  LET indexer == b.disputes[id].indexer
      reward  == TokensToReward(b.stakes[indexer], tokensSlash)
      paid    == PayFisherman(b, id, "Accepted", reward,
                              RewardSent(b.stakes[indexer], tokensSlash, reward))
  IN  [paid EXCEPT !.stakes[indexer] = SlashedStake(@, tokensSlash)]

ReturnedBooks(b, id, status) == PayFisherman(b, id, status, 0, 0)

AcceptDispute(id, tokensSlash) ==
  /\ IsPending(id)
  /\ ~IsDisputeInConflict(id)
  /\ CanAccept(Books, id, tokensSlash)
  /\ BooksBecome(AcceptedBooks(Books, id, tokensSlash))

(* The second dispute is accepted too, with an amount of its own, or drawn.*)
AcceptDisputeConflict(id, tokensSlash, acceptRelated, tokensSlashRelated) ==
  LET related == disputes[id].relatedDisputeId
      first   == AcceptedBooks(Books, id, tokensSlash)
  IN  /\ IsPending(id)
      /\ IsDisputeInConflict(id)
      /\ CanAccept(Books, id, tokensSlash)
      /\ IF acceptRelated
         THEN /\ CanAccept(first, related, tokensSlashRelated)
              /\ BooksBecome(AcceptedBooks(first, related, tokensSlashRelated))
         ELSE BooksBecome(ReturnedBooks(first, related, "Drawn"))

(* Mutant: the dispute may be one of two.                                  *)
RejectDispute_InConflict(id) ==
  /\ IsPending(id)
  /\ BooksBecome([Books EXCEPT !.disputes[id].status = "Rejected",
                               !.balance = @ - disputes[id].deposit])

(* The deposit is burned.                                                  *)
RejectDispute(id) ==
  /\ IsPending(id)
  /\ ~IsDisputeInConflict(id)
  /\ BooksBecome([Books EXCEPT !.disputes[id].status = "Rejected",
                               !.balance = @ - disputes[id].deposit])

(* Mutant: the call may resolve a dispute that is resolved already.        *)
ReturnDeposits_Again(id, status) ==
  LET first == ReturnedBooks(Books, id, status)
  IN  /\ IsDisputeCreated(id)
      /\ BooksBecome(IF IsDisputeInConflict(id)
                     THEN ReturnedBooks(first, disputes[id].relatedDisputeId, status)
                     ELSE first)

(* Draw or cancel the dispute, and the one it is linked to.                *)
ReturnDeposits(id, status) ==
  LET first == ReturnedBooks(Books, id, status)
  IN  /\ IsPending(id)
      /\ BooksBecome(IF IsDisputeInConflict(id)
                     THEN ReturnedBooks(first, disputes[id].relatedDisputeId, status)
                     ELSE first)

DrawDispute(id) == ReturnDeposits(id, "Drawn")

(* Mutant: a dispute in conflict cannot be cancelled.                      *)
CancelDispute_NotInConflict(fisherman, id) ==
  /\ IsPending(id) /\ ~IsDisputeInConflict(id)
  /\ disputes[id].fisherman = fisherman
  /\ disputes[id].cancellableAt <= now
  /\ ReturnDeposits(id, "Cancelled")

CancelDispute(fisherman, id) ==
  /\ IsPending(id)
  /\ disputes[id].fisherman = fisherman
  /\ disputes[id].cancellableAt <= now
  /\ ReturnDeposits(id, "Cancelled")

-----------------------------------------------------------------------------
(* The owner's setters, and the environment.                               *)

SetParameter(new) ==
  /\ parameters' = new
  /\ UNCHANGED <<now, books, subgraphServiceSet, delegationSlashing, disputable, paused,
                 leftOver>>

SetDisputePeriod(period)    == SetParameter([parameters EXCEPT !.disputePeriod = period])
SetDisputeDeposit(deposit)  == SetParameter([parameters EXCEPT !.disputeDeposit = deposit])
SetFishermanRewardCut(cut)  == SetParameter([parameters EXCEPT !.fishermanRewardCut = cut])
SetMaxSlashingCut(cut)      == SetParameter([parameters EXCEPT !.maxSlashingCut = cut])

SetSubgraphService ==
  /\ subgraphServiceSet' = TRUE
  /\ UNCHANGED <<now, books, parameters, delegationSlashing, disputable, paused, leftOver>>

(* Indexers and delegators stake, thaw and withdraw.                       *)
StakeChanges(indexer, stake) ==
  /\ stakes' = [stakes EXCEPT ![indexer] = stake]
  /\ UNCHANGED <<now, disputes, balance, funds, rewarded, settings, leftOver>>

DelegationSlashingChanges(enabled) ==
  /\ delegationSlashing' = enabled
  /\ UNCHANGED <<now, books, parameters, subgraphServiceSet, disputable, paused, leftOver>>

(* An indexing agreement is collected on for the first time.               *)
AgreementCollected(id) ==
  /\ disputable' = disputable \cup {id}
  /\ UNCHANGED <<now, books, parameters, subgraphServiceSet, delegationSlashing, paused,
                 leftOver>>

SetPaused(value) ==
  /\ paused' = value
  /\ UNCHANGED <<now, books, parameters, subgraphServiceSet, delegationSlashing, disputable,
                 leftOver>>

Tick ==
  /\ now < MaxTime
  /\ now' = now + 1
  /\ UNCHANGED <<books, settings, leftOver>>

FishermanCalls(f) ==
  \/ \E id \in IndexingDisputes : CreateIndexingDispute(f, id)
  \/ \E id \in FeeDisputes : CreateIndexingFeeDispute(f, id)
  \/ \E id \in QueryDisputes : CreateQueryDispute(f, id)
  \/ \E id1, id2 \in QueryDisputes : CreateQueryDisputeConflict(f, id1, id2)
  \/ \E id \in DisputeIds : CancelDispute(f, id)

ArbitratorCalls ==
  \E id \in DisputeIds :
    \/ \E tokens \in SlashAmounts : AcceptDispute(id, tokens)
    \/ \E tokens, tokensRelated \in SlashAmounts, both \in BOOLEAN :
         AcceptDisputeConflict(id, tokens, both, tokensRelated)
    \/ RejectDispute(id)
    \/ DrawDispute(id)

OwnerCalls ==
  \/ \E period \in Periods : SetDisputePeriod(period)
  \/ \E deposit \in Deposits : SetDisputeDeposit(deposit)
  \/ \E cut \in RewardCuts : SetFishermanRewardCut(cut)
  \/ \E cut \in SlashingCuts : SetMaxSlashingCut(cut)
  \/ SetSubgraphService

EnvironmentSteps ==
  \/ \E indexer \in Indexers :
       \E stake \in [tokens : StakeAmounts, maxVerifierCut : VerifierCuts,
                     poolTokens : StakeAmounts] : StakeChanges(indexer, stake)
  \/ \E enabled \in BOOLEAN : DelegationSlashingChanges(enabled)
  \/ \E id \in FeeDisputes : AgreementCollected(id)
  \/ \E value \in PauseInputs : SetPaused(value)
  \/ Tick

Next ==
  (\E f \in Fishermen : FishermanCalls(f)) \/ ArbitratorCalls \/ OwnerCalls \/ EnvironmentSteps

Spec == Init /\ [][Next]_vars

-----------------------------------------------------------------------------
(* Invariants.                                                             *)

(* The manager never pays more than it has, and no amount turns negative.  *)
TypeOK ==
  /\ now \in Nat
  /\ disputes \in [DisputeIds -> DisputeType \cup {NullDispute}]
  /\ balance \in Nat
  /\ funds \in [Fishermen -> Nat]
  /\ parameters \in ParametersType
  /\ stakes \in [Indexers -> StakeType]
  /\ {subgraphServiceSet, delegationSlashing, paused} \subseteq BOOLEAN
  /\ disputable \subseteq FeeDisputes
  /\ rewarded \in [Fishermen -> Nat]
  /\ leftOver \in [Fishermen -> Nat]

DepositsOf(ids) ==
  SumFunctionOnSet([id \in DisputeIds |-> IF IsDisputeCreated(id) THEN disputes[id].deposit ELSE 0], ids)

(* The manager holds the deposits of the pending disputes, and beside them *)
(* only what halving an odd deposit left over: a reward is paid of what    *)
(* HorizonStaking sent, never of the deposit of somebody else.             *)
DepositsBacked ==
  balance = DepositsOf({id \in DisputeIds : IsPending(id)}) + SumFunctionOnSet(leftOver, Fishermen)

(* A fisherman gets every deposit back exactly once, however the dispute   *)
(* ends, unless it is rejected.                                            *)
DepositsReturnedOnce ==
  \A f \in Fishermen :
    LET unreturned == {id \in DisputeIds : /\ disputes[id].status \in {"Pending", "Rejected"}
                                           /\ disputes[id].fisherman = f}
    IN  funds[f] + DepositsOf(unreturned) + leftOver[f] = FishermanFunds + rewarded[f]

(* The deposits, from both sides.                                          *)
DepositsAccounted == TypeOK /\ DepositsBacked /\ DepositsReturnedOnce

(* Linked disputes are about conflicting attestations and share their fate:*)
(* neither is resolved without the other, and neither is rejected, for one *)
(* attestation at least must be wrong.                                     *)
LinkedResolvedTogether ==
  \A id \in DisputeIds :
    IsDisputeCreated(id) /\ IsDisputeInConflict(id) =>
      LET related == disputes[id].relatedDisputeId
      IN  /\ IsDisputeCreated(related) /\ disputes[related].relatedDisputeId = id
          /\ AreConflicting(id, related)
          /\ disputes[related].fisherman = disputes[id].fisherman
          /\ disputes[id].status # "Rejected"
          /\ \A status \in {"Pending", "Cancelled"} :
               disputes[id].status = status <=> disputes[related].status = status

(* The arbitrator's slash is never refused for the reward, whatever the    *)
(* owner and the indexer set their cuts to, and whatever is left of the    *)
(* stake.                                                                  *)
RewardNeverBlocksSlash ==
  \A i \in Indexers, tokensSlash \in SlashAmounts :
    ~paused /\ StakeSnapshot(i) # 0 =>
      SlashSucceeds(stakes[i], tokensSlash, TokensToReward(stakes[i], tokensSlash))

-----------------------------------------------------------------------------
(* Liveness: time passes, and fishermen cancel what they may cancel.       *)

LiveSpec ==
  /\ Spec
  /\ WF_vars(Tick)
  /\ \A f \in Fishermen, id \in DisputeIds : WF_vars(CancelDispute(f, id))

(* A deposit is not locked for ever: without any arbitrator, a fisherman   *)
(* ends a dispute after its period, also if the stake is gone, the protocol*)
(* paused, or the parameters changed.                                      *)
DisputesEnd == \A id \in DisputeIds : IsPending(id) ~> ~IsPending(id)

=============================================================================
