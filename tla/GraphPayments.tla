--------------------------- MODULE GraphPayments ----------------------------
(***************************************************************************)
(* GraphPayments.collect: a payment is pulled from its caller, split, and  *)
(* paid out in the same call.  The contract keeps nothing of its own, so   *)
(* this module has no state beyond the ledger and the accounts that        *)
(* HorizonStaking credits.  A caller may name any address as data service  *)
(* or destination, the contracts themselves included.                      *)
(***************************************************************************)
EXTENDS TokenLedger

CONSTANTS
  Receivers,            \* service providers
  DataServices,
  PaymentsContract,     \* address of GraphPayments
  StakingContract,      \* address of HorizonStaking
  NoDestination,        \* address(0): the receiver's part is staked
  ProtocolPaymentCut

ASSUME PaymentsAssumption ==
  /\ ProtocolPaymentCut \in 0 .. MaxPPM
  /\ PaymentsContract # StakingContract

VARIABLES
  stakeOf,              \* [Receivers -> Nat], credited by stakeTo
  poolTokens,           \* [Receivers \X DataServices -> Nat], by addToDelegationPool
  hasDelegators,        \* the pools <<receiver, dataService>> with shares
  feeCutOf,             \* [Receivers \X DataServices -> Nat], getDelegationFeeCut
  directed              \* history: what callers had sent to one of these contracts

stakingVars == <<stakeOf, poolTokens, hasDelegators, feeCutOf, directed>>

(* Mutant: what is deducted from the receiver is not rounded up with the   *)
(* delegators' part.                                                       *)
Split_RoundsApart(tokens, dataServiceCut, delegated, delegationFeeCut) ==
  LET protocol     == MulPPMRoundUp(tokens, ProtocolPaymentCut)
      dataService  == MulPPMRoundUp(tokens - protocol, dataServiceCut)
      afterService == tokens - protocol - dataService
      delegation   == IF delegated THEN MulPPM(afterService, delegationFeeCut) ELSE 0
      deducted     == IF delegated THEN MulPPMRoundUp(afterService, delegationFeeCut) ELSE 0
  IN  [protocol |-> protocol, dataService |-> dataService, delegation |-> delegation,
       receiver |-> afterService - deducted]

(* The parts of a payment: protocol, data service, delegators, receiver,   *)
(* each cut taken of what the ones before it left, rounded up.             *)
Split(tokens, dataServiceCut, delegated, delegationFeeCut) ==
  LET protocol      == MulPPMRoundUp(tokens, ProtocolPaymentCut)
      afterProtocol == tokens - protocol
      dataService   == MulPPMRoundUp(afterProtocol, dataServiceCut)
      afterService  == afterProtocol - dataService
      delegation    == IF delegated THEN MulPPMRoundUp(afterService, delegationFeeCut)
                       ELSE 0
  IN  [protocol    |-> protocol,
       dataService |-> dataService,
       delegation  |-> delegation,
       receiver    |-> afterService - delegation]

(* The ledger after the parts are pulled from payer and paid out.          *)
PayOut(payer, tokens, part, dataService, destination) ==
  LET pulled  == Transfer(balanceOf, payer, PaymentsContract, tokens)
      burned  == Burn(pulled, PaymentsContract, part.protocol)
      service == Transfer(burned, PaymentsContract, dataService, part.dataService)
      pool    == Transfer(service, PaymentsContract, StakingContract, part.delegation)
  IN  Transfer(pool, PaymentsContract,
               IF destination = NoDestination THEN StakingContract ELSE destination,
               part.receiver)

(* Mutant: a delegation part of zero is paid too, which staking refuses.   *)
StakingAccepts_CallsForNothing(receiver, dataService, part) ==
  <<receiver, dataService>> \in hasDelegators => part.delegation # 0

(* addToDelegationPool reverts for a pool without shares; it is called     *)
(* only for a part that is not zero.                                       *)
StakingAccepts(receiver, dataService, part) ==
  part.delegation # 0 => <<receiver, dataService>> \in hasDelegators

(* The whole of collect, called by an address that holds the tokens.       *)
CollectPayment(payer, receiver, tokens, dataService, dataServiceCut, destination) ==
  LET pool == <<receiver, dataService>>
      part == Split(tokens, dataServiceCut, pool \in hasDelegators, feeCutOf[pool])
  IN  /\ IsValidPPM(dataServiceCut)
      /\ CanTransfer(payer, tokens)
      /\ StakingAccepts(receiver, dataService, part)
      /\ balanceOf' = PayOut(payer, tokens, part, dataService, destination)
      /\ poolTokens' = [poolTokens EXCEPT ![pool] = @ + part.delegation]
      /\ stakeOf' = IF destination = NoDestination
                    THEN [stakeOf EXCEPT ![receiver] = @ + part.receiver]
                    ELSE stakeOf
      /\ directed' = [c \in DOMAIN directed |->
                        directed[c] + (IF c = dataService THEN part.dataService ELSE 0)
                                    + (IF c = destination THEN part.receiver ELSE 0)]
      /\ UNCHANGED <<hasDelegators, feeCutOf>>
=============================================================================
