--------------------------- MODULE PaymentsEscrow ---------------------------
(***************************************************************************)
(* PaymentsEscrow keeps tokens of payers, set aside for one collector and  *)
(* one receiver.  The collector may pay the receiver out of the account at *)
(* any time; the payer gets tokens back only after a thawing period.       *)
(*                                                                         *)
(* A call that reverts is an action that is not enabled.  What happens in  *)
(* HorizonStaking meanwhile is left to the environment: pools gain and lose*)
(* their delegators, providers set fee cuts.                               *)
(***************************************************************************)
EXTENDS GraphPayments, FiniteSets, Functions

CONSTANTS
  Payers,
  Collectors,             \* addresses that call collect
  EscrowContract,         \* address of PaymentsEscrow
  ThawingPeriod,          \* WITHDRAW_ESCROW_THAWING_PERIOD
  TokenAmounts,           \* amounts to deposit or collect
  ThawAmounts,            \* amounts to thaw
  Cuts, FeeCuts,          \* cuts of data services and of delegators
  Destinations,           \* addresses that collect may send the receiver's part to
  PauseInputs,            \* {} or BOOLEAN: whether the protocol can be paused
  PayerFunds              \* what every payer owns at the start

Accounts == Payers \X Collectors \X Receivers
Pools    == Receivers \X DataServices
Holders  == Payers \cup Receivers \cup DataServices
              \cup {EscrowContract, PaymentsContract, StakingContract, Burned}

ASSUME EscrowAssumption ==
  /\ IsFiniteSet(Payers) /\ IsFiniteSet(Collectors)
  /\ IsFiniteSet(Receivers) /\ IsFiniteSet(DataServices)
  /\ TokenAmounts \subseteq Nat /\ ThawAmounts \subseteq Nat /\ Cuts \subseteq Nat
  /\ FeeCuts \subseteq 0 .. MaxPPM
  /\ ThawingPeriod \in Nat /\ PayerFunds \in Nat /\ PauseInputs \subseteq BOOLEAN
  /\ Destinations \subseteq Holders \cup {NoDestination}
  /\ NoDestination \notin Holders
  /\ Cardinality({EscrowContract, PaymentsContract, StakingContract, Burned}) = 4
  /\ Payers \cap {EscrowContract, PaymentsContract, StakingContract, Burned} = {}

VARIABLES
  escrowAccounts,         \* the escrow account of every payer, collector, receiver
  paused,                 \* the controller's pause flag
  collected,              \* history: tokens collected from every account so far
  raisedAt                \* history: when an account's thawing tokens last grew

escrowVars == <<escrowAccounts, collected, raisedAt>>
vars == <<now, balanceOf, stakingVars, escrowVars, paused>>

EscrowAccountType == [balance : Nat, tokensThawing : Nat, thawEndTimestamp : Nat]
NoAccount == [balance |-> 0, tokensThawing |-> 0, thawEndTimestamp |-> 0]

(* The timestamp is never 0, which stands for "not thawing".               *)
Init ==
  /\ now = 1
  /\ balanceOf = [h \in Holders |-> IF h \in Payers THEN PayerFunds ELSE 0]
  /\ stakeOf = [r \in Receivers |-> 0]
  /\ poolTokens = [pool \in Pools |-> 0]
  /\ hasDelegators = {}
  /\ feeCutOf = [pool \in Pools |-> 0]
  /\ directed = [c \in {PaymentsContract, StakingContract} |-> 0]
  /\ escrowAccounts = [a \in Accounts |-> NoAccount]
  /\ paused = FALSE
  /\ collected = [a \in Accounts |-> 0]
  /\ raisedAt = [a \in Accounts |-> 0]

-----------------------------------------------------------------------------
(* Every call leaves one account with new contents; the history remembers  *)
(* when it last added to the thawing tokens.                               *)
SetAccount(a, new) ==
  /\ escrowAccounts' = [escrowAccounts EXCEPT ![a] = new]
  /\ raisedAt' = IF new.tokensThawing > escrowAccounts[a].tokensThawing
                 THEN [raisedAt EXCEPT ![a] = now]
                 ELSE raisedAt

ThawEnd == now + ThawingPeriod

(* deposit and depositTo: anyone may pay into the account of a payer.      *)
Deposit(caller, a, tokens) ==
  /\ ~paused
  /\ CanTransfer(caller, tokens)
  /\ SetAccount(a, [escrowAccounts[a] EXCEPT !.balance = @ + tokens])
  /\ balanceOf' = Transfer(balanceOf, caller, EscrowContract, tokens)
  /\ UNCHANGED <<now, stakingVars, paused, collected>>

(* Mutant: a second thaw adds to the first and keeps its end.              *)
Thaw_KeepsTimer(a, tokens) ==
  /\ ~paused
  /\ tokens > 0
  /\ tokens <= escrowAccounts[a].balance
  /\ SetAccount(a, [escrowAccounts[a] EXCEPT !.tokensThawing    = tokens,
                      !.thawEndTimestamp = IF @ = 0 THEN ThawEnd ELSE @])
  /\ UNCHANGED <<now, balanceOf, stakingVars, paused, collected>>

(* thaw: the amount replaces the one thawing before; the period restarts.  *)
Thaw(a, tokens) ==
  /\ ~paused
  /\ tokens > 0
  /\ tokens <= escrowAccounts[a].balance
  /\ SetAccount(a, [escrowAccounts[a] EXCEPT !.tokensThawing    = tokens,
                                             !.thawEndTimestamp = ThawEnd])
  /\ UNCHANGED <<now, balanceOf, stakingVars, paused, collected>>

(* adjustThaw, as a function of the account.  Lowering keeps the end;      *)
(* raising restarts the period, unless the caller does not want that.      *)
AdjustedThaw(account, tokensToThaw, evenIfTimerReset) ==
  LET tokens == IF tokensToThaw < account.balance THEN tokensToThaw ELSE account.balance
      keepsTimer == account.thawEndTimestamp \in {0, ThawEnd}
  IN  CASE tokens = account.tokensThawing -> account
        [] tokens < account.tokensThawing ->
             [account EXCEPT !.tokensThawing    = tokens,
                             !.thawEndTimestamp = IF tokens = 0 THEN 0 ELSE @]
        [] tokens > account.tokensThawing /\ ~evenIfTimerReset /\ ~keepsTimer -> account
        [] OTHER -> [account EXCEPT !.tokensThawing    = tokens,
                                    !.thawEndTimestamp = ThawEnd]

AdjustThaw(a, tokens, evenIfTimerReset) ==
  /\ ~paused
  /\ SetAccount(a, AdjustedThaw(escrowAccounts[a], tokens, evenIfTimerReset))
  /\ UNCHANGED <<now, balanceOf, stakingVars, paused, collected>>

CancelThaw(a) ==
  /\ ~paused
  /\ escrowAccounts[a].tokensThawing # 0
  /\ SetAccount(a, [escrowAccounts[a] EXCEPT !.tokensThawing    = 0,
                                             !.thawEndTimestamp = 0])
  /\ UNCHANGED <<now, balanceOf, stakingVars, paused, collected>>

(* Mutant: the account keeps what is withdrawn.                            *)
Withdraw_KeepsBalance(a) ==
  LET account == escrowAccounts[a]
  IN  /\ ~paused
      /\ account.thawEndTimestamp # 0
      /\ account.thawEndTimestamp < now
      /\ CanTransfer(EscrowContract, account.tokensThawing)
      /\ SetAccount(a, [account EXCEPT !.tokensThawing = 0, !.thawEndTimestamp = 0])
      /\ balanceOf' = Transfer(balanceOf, EscrowContract, a[1], account.tokensThawing)
      /\ UNCHANGED <<now, stakingVars, paused, collected>>

(* withdraw: a collection may have left less than was thawing.             *)
Withdraw(a) ==
  LET account == escrowAccounts[a]
      tokens  == IF account.tokensThawing > account.balance THEN account.balance
                 ELSE account.tokensThawing
  IN  /\ ~paused
      /\ account.thawEndTimestamp # 0
      /\ account.thawEndTimestamp < now
      /\ CanTransfer(EscrowContract, tokens)
      /\ SetAccount(a, [balance |-> account.balance - tokens,
                        tokensThawing |-> 0, thawEndTimestamp |-> 0])
      /\ balanceOf' = Transfer(balanceOf, EscrowContract, a[1], tokens)
      /\ UNCHANGED <<now, stakingVars, paused, collected>>

(* The account after a collection: what thaws is capped by what is left.   *)
CollectedFrom(account, tokens) ==
  LET balance == account.balance - tokens
      capped  == account.tokensThawing > balance
  IN  [balance          |-> balance,
       tokensThawing    |-> IF capped THEN balance ELSE account.tokensThawing,
       thawEndTimestamp |-> IF capped /\ balance = 0 THEN 0
                            ELSE account.thawEndTimestamp]

(* collect, called by the collector of the account.  It reverts unless the *)
(* balance of the escrow falls by exactly the amount.                      *)
Collect(a, tokens, dataService, dataServiceCut, destination) ==
  /\ ~paused
  /\ tokens <= escrowAccounts[a].balance
  /\ SetAccount(a, CollectedFrom(escrowAccounts[a], tokens))
  /\ CollectPayment(EscrowContract, a[3], tokens, dataService, dataServiceCut, destination)
  /\ balanceOf[EscrowContract] = tokens + balanceOf'[EscrowContract]
  /\ collected' = [collected EXCEPT ![a] = @ + tokens]
  /\ UNCHANGED <<now, paused>>

(* GraphPayments.collect called by a payer directly, without the escrow.   *)
(* Staking refuses its part while the protocol is paused.                  *)
PayDirectly(payer, receiver, tokens, dataService, dataServiceCut, destination) ==
  /\ CollectPayment(payer, receiver, tokens, dataService, dataServiceCut, destination)
  /\ paused => balanceOf'[StakingContract] = balanceOf[StakingContract]
  /\ UNCHANGED <<now, escrowVars, paused>>

-----------------------------------------------------------------------------
(* The environment.                                                        *)

(* A pool gets its first delegator or loses the last one.                  *)
DelegatorsChange(pool) ==
  /\ hasDelegators' = IF pool \in hasDelegators THEN hasDelegators \ {pool}
                      ELSE hasDelegators \cup {pool}
  /\ UNCHANGED <<now, balanceOf, stakeOf, poolTokens, feeCutOf, directed, escrowVars, paused>>

(* A service provider sets the cut of its delegators.                      *)
FeeCutChanges(pool, cut) ==
  /\ feeCutOf' = [feeCutOf EXCEPT ![pool] = cut]
  /\ UNCHANGED <<now, balanceOf, stakeOf, poolTokens, hasDelegators, directed, escrowVars, paused>>

SetPaused(value) ==
  /\ paused' = value
  /\ UNCHANGED <<now, balanceOf, stakingVars, escrowVars>>

BlockPasses ==
  /\ Tick
  /\ UNCHANGED <<balanceOf, stakingVars, escrowVars, paused>>

PayerCalls ==
  \E a \in Accounts :
    \/ \E caller \in Payers, tokens \in TokenAmounts : Deposit(caller, a, tokens)
    \/ \E tokens \in ThawAmounts : Thaw(a, tokens)
    \/ \E tokens \in ThawAmounts, even \in BOOLEAN : AdjustThaw(a, tokens, even)
    \/ CancelThaw(a)
    \/ Withdraw(a)

DirectPayments ==
  \E payer \in Payers, receiver \in Receivers, tokens \in TokenAmounts,
     dataService \in DataServices, dataServiceCut \in Cuts, destination \in Destinations :
       PayDirectly(payer, receiver, tokens, dataService, dataServiceCut, destination)

EnvironmentSteps ==
  \/ \E pool \in Pools : DelegatorsChange(pool)
  \/ \E pool \in Pools, cut \in FeeCuts : FeeCutChanges(pool, cut)
  \/ \E value \in PauseInputs : SetPaused(value)
  \/ BlockPasses

-----------------------------------------------------------------------------
(* Invariants.                                                             *)

(* Every balance is a natural number: no subtraction of the escrow or of   *)
(* GraphPayments goes below zero.                                          *)
TypeOK ==
  /\ now \in Nat
  /\ balanceOf \in [Holders -> Nat]
  /\ stakeOf \in [Receivers -> Nat]
  /\ poolTokens \in [Pools -> Nat]
  /\ hasDelegators \subseteq Pools
  /\ feeCutOf \in [Pools -> 0 .. MaxPPM]
  /\ directed \in [{PaymentsContract, StakingContract} -> Nat]
  /\ escrowAccounts \in [Accounts -> EscrowAccountType]
  /\ paused \in BOOLEAN
  /\ collected \in [Accounts -> Nat]
  /\ raisedAt \in [Accounts -> Nat]

(* The escrow holds the balances of all its accounts, although it pays     *)
(* through a second contract that pulls from it; it may hold more, for     *)
(* anyone can send it tokens.                                              *)
EscrowSolvent ==
  SumFunctionOnSet([a \in Accounts |-> escrowAccounts[a].balance], Accounts)
    <= balanceOf[EscrowContract]

(* A payment goes out in full in the call that pulls it: GraphPayments     *)
(* keeps nothing, staking receives what it credits, no token is lost.      *)
(* What a caller sends to one of the two contracts as data service or      *)
(* destination stays there, and no later payment is made of it.            *)
PaymentsPassThrough ==
  /\ balanceOf[PaymentsContract] = directed[PaymentsContract]
  /\ balanceOf[StakingContract] = SumFunctionOnSet(stakeOf, Receivers)
       + SumFunctionOnSet(poolTokens, Pools) + directed[StakingContract]
  /\ SumFunctionOnSet(balanceOf, Holders) = Cardinality(Payers) * PayerFunds

(* What thaws is there to be withdrawn, and an account has an end of the   *)
(* thawing period exactly while it thaws something, also when a collection *)
(* takes thawing tokens.                                                   *)
ThawingConsistent ==
  \A a \in Accounts :
    /\ escrowAccounts[a].tokensThawing <= escrowAccounts[a].balance
    /\ (escrowAccounts[a].tokensThawing = 0) <=> (escrowAccounts[a].thawEndTimestamp = 0)

(* The books of the escrow, and its tokens.                                *)
EscrowConsistent == TypeOK /\ EscrowSolvent /\ ThawingConsistent

-----------------------------------------------------------------------------
(* Action properties.                                                      *)

(* The notice a receiver gets.  What leaves an account without having been *)
(* collected has been thawing, all of it, for more than the whole period:  *)
(* no sequence of thaw, adjustThaw and cancelThaw shortens it.             *)
WithdrawnAfterNotice ==
  [][ \A a \in Accounts :
        LET left == escrowAccounts[a].balance - escrowAccounts'[a].balance
            withdrawn == left - (collected'[a] - collected[a])
        IN  withdrawn > 0 =>
              /\ withdrawn <= escrowAccounts[a].tokensThawing
              /\ now > raisedAt[a] + ThawingPeriod
    ]_vars
=============================================================================
