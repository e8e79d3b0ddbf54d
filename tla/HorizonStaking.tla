--------------------------- MODULE HorizonStaking ---------------------------
(***************************************************************************)
(* HorizonStaking holds the stake of service providers, lets them provision*)
(* it to verifiers (data services), keeps one delegation pool per          *)
(* provision, and lets a verifier slash what was provisioned to it.        *)
(*                                                                         *)
(* One action is one external call: a call that reverts is an action that  *)
(* is not enabled.  GRT outside the contract is one number, wallet.        *)
(***************************************************************************)
EXTENDS ThawRequests, FiniteSets

CONSTANTS
  Providers, Verifiers, Delegators, Operators,  \* addresses, by role
  TokenAmounts, ShareAmounts, SlippageBounds,   \* arguments of the calls
  Cuts, FeeCuts, Periods, PauseInputs,          \* parameters that can be set
  LockedVerifiers,       \* verifiers the governor may allow for locked stake
  MaxPPM,                \* 100% in parts per million
  MinDelegation,         \* MIN_DELEGATION
  MaxThawRequests,       \* MAX_THAW_REQUESTS
  TimestampModulus,      \* 2^64: a thawing deadline is a uint64
  LegacyAmounts,         \* balances locked before Horizon
  TokenSupply,           \* bound: the GRT outside the contract at the start
  MaxTime                \* bound on the block timestamp

ASSUME AddressesFinite ==
  /\ IsFiniteSet(Providers)
  /\ IsFiniteSet(Verifiers)
  /\ IsFiniteSet(Delegators)

ASSUME ArgumentsNatural ==
  /\ TokenAmounts \subseteq Nat   /\ ShareAmounts \subseteq Nat
  /\ SlippageBounds \subseteq Nat /\ Cuts \subseteq Nat
  /\ FeeCuts \subseteq Nat        /\ Periods \subseteq Nat
  /\ LegacyAmounts \subseteq Nat  /\ TokenSupply \in Nat
  /\ MaxTime \in Nat              /\ PauseInputs \subseteq BOOLEAN
  /\ LockedVerifiers \subseteq Verifiers

ASSUME ParametersPositive ==
  /\ MaxPPM \in Nat \ {0}           /\ MinDelegation \in Nat \ {0}
  /\ MaxThawRequests \in Nat \ {0}  /\ TimestampModulus \in Nat \ {0}

VARIABLES
  serviceProviders,   \* provider -> its stake
  provisions,         \* provider -> verifier -> provision
  provisionRequests,  \* provider -> verifier -> its thaw request list
  pools,              \* provider -> verifier -> delegation pool
  delegations,        \* provider -> verifier -> delegator -> pool shares
  delegationRequests, \* provider -> verifier -> delegator -> thaw request list
  legacyLocked,       \* provider -> delegator -> tokens undelegated pre-Horizon
  balance,            \* GRT held by the contract
  wallet,             \* GRT held by everyone else
  operatorAuth,       \* provider -> verifier -> operators
  delegationFeeCut,   \* provider -> verifier -> cut of the delegators
  allowedLockedVerifiers, delegationSlashingEnabled, maxThawingPeriod, paused,
  now                 \* block timestamp

provisionVars  == <<serviceProviders, provisions, provisionRequests>>
delegationVars == <<pools, delegations, delegationRequests>>
tokenVars      == <<balance, wallet>>
configVars     == <<operatorAuth, delegationFeeCut, allowedLockedVerifiers,
                    delegationSlashingEnabled, maxThawingPeriod, paused>>
vars == <<provisionVars, delegationVars, legacyLocked, tokenVars, configVars, now>>

-----------------------------------------------------------------------------
ServiceProviderType ==
  [tokensStaked : Nat, tokensProvisioned : Nat, tokensLocked : Nat]

ProvisionType ==
  [created : BOOLEAN, tokens : Nat, tokensThawing : Nat, sharesThawing : Nat,
   thawingNonce : Nat, maxVerifierCut : Nat, maxVerifierCutPending : Nat,
   thawingPeriod : Nat, thawingPeriodPending : Nat]

DelegationPoolType ==
  [tokens : Nat, shares : Nat, tokensThawing : Nat, sharesThawing : Nat,
   thawingNonce : Nat]

TypeOK ==
  /\ serviceProviders \in [Providers -> ServiceProviderType]
  /\ provisions \in [Providers -> [Verifiers -> ProvisionType]]
  /\ provisionRequests \in [Providers -> [Verifiers -> Seq(ThawRequestType)]]
  /\ pools \in [Providers -> [Verifiers -> DelegationPoolType]]
  /\ delegations \in [Providers -> [Verifiers -> [Delegators -> Nat]]]
  /\ delegationRequests \in
       [Providers -> [Verifiers -> [Delegators -> Seq(ThawRequestType)]]]
  /\ legacyLocked \in [Providers -> [Delegators -> Nat]]
  /\ balance \in Nat
  /\ wallet \in Nat
  /\ operatorAuth \in [Providers -> [Verifiers -> SUBSET Operators]]
  /\ delegationFeeCut \in [Providers -> [Verifiers -> Nat]]
  /\ allowedLockedVerifiers \in SUBSET LockedVerifiers
  /\ delegationSlashingEnabled \in BOOLEAN
  /\ maxThawingPeriod \in Nat
  /\ paused \in BOOLEAN
  /\ now \in Nat

NoProvision ==
  [created |-> FALSE, tokens |-> 0, tokensThawing |-> 0, sharesThawing |-> 0,
   thawingNonce |-> 0, maxVerifierCut |-> 0, maxVerifierCutPending |-> 0,
   thawingPeriod |-> 0, thawingPeriodPending |-> 0]

EmptyPool ==
  [tokens |-> 0, shares |-> 0, tokensThawing |-> 0, sharesThawing |-> 0,
   thawingNonce |-> 0]

(* What the contract owes: all stake, all delegated tokens, and what was   *)
(* undelegated before Horizon and not collected yet.                       *)
TokensStaked(sps) ==
  SumFunctionOnSet([p \in Providers |-> sps[p].tokensStaked], Providers)

TokensDelegated(pls) ==
  SumFunctionOnSet(
    [p \in Providers |->
       SumFunctionOnSet([v \in Verifiers |-> pls[p][v].tokens], Verifiers)],
    Providers)

TokensLocked(locked) ==
  SumFunctionOnSet([p \in Providers |-> SumFunctionOnSet(locked[p], Delegators)],
                   Providers)

TokensOwed ==
  TokensStaked(serviceProviders) + TokensDelegated(pools) + TokensLocked(legacyLocked)

Init ==
  /\ \E locked \in [Providers -> LegacyAmounts] :
       serviceProviders = [p \in Providers |->
         [tokensStaked |-> locked[p], tokensProvisioned |-> 0,
          tokensLocked |-> locked[p]]]
  /\ provisions = [p \in Providers |-> [v \in Verifiers |-> NoProvision]]
  /\ provisionRequests = [p \in Providers |-> [v \in Verifiers |-> <<>>]]
  /\ pools = [p \in Providers |-> [v \in Verifiers |-> EmptyPool]]
  /\ delegations =
       [p \in Providers |-> [v \in Verifiers |-> [d \in Delegators |-> 0]]]
  /\ delegationRequests =
       [p \in Providers |-> [v \in Verifiers |-> [d \in Delegators |-> <<>>]]]
  /\ legacyLocked \in [Providers -> [Delegators -> LegacyAmounts]]
  /\ balance = TokensOwed
  /\ wallet = TokenSupply
  /\ operatorAuth = [p \in Providers |-> [v \in Verifiers |-> {}]]
  /\ delegationFeeCut = [p \in Providers |-> [v \in Verifiers |-> 0]]
  /\ allowedLockedVerifiers = {}
  /\ delegationSlashingEnabled = FALSE
  /\ maxThawingPeriod = 0
  /\ paused = FALSE
  /\ now = 1

-----------------------------------------------------------------------------
(* Helpers of the calls.                                                   *)

PullTokens(tokens) ==
  /\ tokens <= wallet
  /\ wallet' = wallet - tokens
  /\ balance' = balance + tokens

PushTokens(tokens) ==
  /\ tokens <= balance
  /\ balance' = balance - tokens
  /\ wallet' = wallet + tokens

IsAuthorized(caller, p, v) == caller = p \/ caller \in operatorAuth[p][v]

Callers == Providers \cup Operators \cup Verifiers

IsValidPPM(cut) == cut <= MaxPPM

MulPPM(tokens, cut) == (tokens * cut) \div MaxPPM

(* Mutant: what is provisioned is idle.                                    *)
IdleStake_IgnoresProvisions(sp) == sp.tokensStaked - sp.tokensLocked

IdleStake(sp) ==
  LET used == sp.tokensProvisioned + sp.tokensLocked
  IN  IF sp.tokensStaked > used THEN sp.tokensStaked - used ELSE 0

ThawingUntil(p, v) == (now + provisions[p][v].thawingPeriod) % TimestampModulus

CanCreateThawRequest(reqs, shares) == shares # 0 /\ Len(reqs) < MaxThawRequests

CanFulfillThawRequests(reqs, n) == reqs # <<>> /\ n <= Len(reqs)

-----------------------------------------------------------------------------
(* Stake.                                                                  *)

(* stake, stakeTo: anyone may stake for any provider.                      *)
Stake(p, tokens) ==
  /\ ~paused
  /\ tokens # 0
  /\ PullTokens(tokens)
  /\ serviceProviders' = [serviceProviders EXCEPT ![p].tokensStaked = @ + tokens]
  /\ UNCHANGED <<provisions, provisionRequests, delegationVars, legacyLocked,
                 configVars, now>>

(* Mutant: no notPaused.                                                   *)
Unstake_WhilePaused(p, tokens) ==
  /\ tokens # 0
  /\ tokens <= IdleStake(serviceProviders[p])
  /\ PushTokens(tokens)
  /\ serviceProviders' = [serviceProviders EXCEPT ![p].tokensStaked = @ - tokens]
  /\ UNCHANGED <<provisions, provisionRequests, delegationVars, legacyLocked,
                 configVars, now>>

Unstake(p, tokens) ==
  /\ ~paused
  /\ tokens # 0
  /\ tokens <= IdleStake(serviceProviders[p])
  /\ PushTokens(tokens)
  /\ serviceProviders' = [serviceProviders EXCEPT ![p].tokensStaked = @ - tokens]
  /\ UNCHANGED <<provisions, provisionRequests, delegationVars, legacyLocked,
                 configVars, now>>

(* withdraw, forceWithdraw: the tokens unstaked before Horizon.            *)
Withdraw(p) ==
  LET tokens == serviceProviders[p].tokensLocked
  IN  /\ ~paused
      /\ tokens # 0
      /\ PushTokens(tokens)
      /\ serviceProviders' = [serviceProviders EXCEPT
                                ![p].tokensLocked = 0,
                                ![p].tokensStaked = @ - tokens]
      /\ UNCHANGED <<provisions, provisionRequests, delegationVars,
                     legacyLocked, configVars, now>>

-----------------------------------------------------------------------------
(* Provisions.                                                             *)

NewProvision(tokens, cut, period) ==
  [created |-> TRUE, tokens |-> tokens, tokensThawing |-> 0, sharesThawing |-> 0,
   thawingNonce |-> 0, maxVerifierCut |-> cut, maxVerifierCutPending |-> cut,
   thawingPeriod |-> period, thawingPeriodPending |-> period]

CreateProvision(p, v, tokens, cut, period) ==
  /\ ~paused
  /\ tokens > 0
  /\ IsValidPPM(cut)
  /\ period <= maxThawingPeriod
  /\ ~provisions[p][v].created
  /\ tokens <= IdleStake(serviceProviders[p])
  /\ provisions' = [provisions EXCEPT ![p][v] = NewProvision(tokens, cut, period)]
  /\ serviceProviders' = [serviceProviders EXCEPT ![p].tokensProvisioned = @ + tokens]
  /\ UNCHANGED <<provisionRequests, delegationVars, legacyLocked, tokenVars,
                 configVars, now>>

Provision(caller, p, v, tokens, cut, period) ==
  /\ IsAuthorized(caller, p, v)
  /\ CreateProvision(p, v, tokens, cut, period)

ProvisionLocked(caller, p, v, tokens, cut, period) ==
  /\ IsAuthorized(caller, p, v)
  /\ v \in allowedLockedVerifiers
  /\ CreateProvision(p, v, tokens, cut, period)

AddToProvision(caller, p, v, tokens) ==
  /\ ~paused
  /\ IsAuthorized(caller, p, v)
  /\ tokens # 0
  /\ provisions[p][v].created
  /\ tokens <= IdleStake(serviceProviders[p])
  /\ provisions' = [provisions EXCEPT ![p][v].tokens = @ + tokens]
  /\ serviceProviders' = [serviceProviders EXCEPT ![p].tokensProvisioned = @ + tokens]
  /\ UNCHANGED <<provisionRequests, delegationVars, legacyLocked, tokenVars,
                 configVars, now>>

StakeToProvision(caller, p, v, tokens) ==
  LET staked == [serviceProviders[p] EXCEPT !.tokensStaked = @ + tokens]
  IN  /\ ~paused
      /\ IsAuthorized(caller, p, v) \/ caller = v
      /\ tokens # 0
      /\ provisions[p][v].created
      /\ tokens <= IdleStake(staked)
      /\ PullTokens(tokens)
      /\ provisions' = [provisions EXCEPT ![p][v].tokens = @ + tokens]
      /\ serviceProviders' = [serviceProviders EXCEPT
                                ![p].tokensStaked = @ + tokens,
                                ![p].tokensProvisioned = @ + tokens]
      /\ UNCHANGED <<provisionRequests, delegationVars, legacyLocked,
                     configVars, now>>

Thaw(caller, p, v, tokens) ==
  LET prov   == provisions[p][v]
      reqs   == provisionRequests[p][v]
      shares == ThawingSharesRoundUp(prov, tokens)
  IN  /\ ~paused
      /\ IsAuthorized(caller, p, v)
      /\ tokens # 0
      /\ tokens <= TokensAvailable(prov)
      /\ CanCreateThawRequest(reqs, shares)
      /\ provisions' = [provisions EXCEPT ![p][v] = StartThawing(@, tokens, shares)]
      /\ provisionRequests' = [provisionRequests EXCEPT ![p][v] =
           Append(@, NewThawRequest(prov, shares, ThawingUntil(p, v)))]
      /\ UNCHANGED <<serviceProviders, delegationVars, legacyLocked, tokenVars,
                     configVars, now>>

(* Thawed tokens leave the provision and are idle stake again.             *)
Deprovision(caller, p, v, n) ==
  LET reqs   == provisionRequests[p][v]
      result == FulfillThawRequests(provisions[p][v], reqs, n, now)
  IN  /\ ~paused
      /\ IsAuthorized(caller, p, v)
      /\ CanFulfillThawRequests(reqs, n)
      /\ provisions' = [provisions EXCEPT ![p][v] = ReleaseThawed(@, result)]
      /\ provisionRequests' =
           [provisionRequests EXCEPT ![p][v] = RemainingRequests(reqs, n, now)]
      /\ serviceProviders' = [serviceProviders EXCEPT
                                ![p].tokensProvisioned = @ - result.tokensThawed]
      /\ UNCHANGED <<delegationVars, legacyLocked, tokenVars, configVars, now>>

(* deprovision from one verifier, then addToProvision to another, or to the*)
(* same: the second step reads what the first one wrote.                   *)
Reprovision(caller, p, old, new, n) ==
  LET reqs   == provisionRequests[p][old]
      result == FulfillThawRequests(provisions[p][old], reqs, n, now)
      tokens == result.tokensThawed
      freed  == [serviceProviders[p] EXCEPT !.tokensProvisioned = @ - tokens]
      released == [provisions EXCEPT ![p][old] = ReleaseThawed(@, result)]
  IN  /\ ~paused
      /\ IsAuthorized(caller, p, old)
      /\ IsAuthorized(caller, p, new)
      /\ CanFulfillThawRequests(reqs, n)
      /\ tokens # 0
      /\ provisions[p][new].created
      /\ tokens <= IdleStake(freed)
      /\ provisions' = [released EXCEPT ![p][new].tokens = @ + tokens]
      /\ provisionRequests' =
           [provisionRequests EXCEPT ![p][old] = RemainingRequests(reqs, n, now)]
      /\ UNCHANGED <<serviceProviders, delegationVars, legacyLocked, tokenVars,
                     configVars, now>>

(* The provider stages new parameters, which the verifier then accepts.    *)
SetProvisionParameters(caller, p, v, cut, period) ==
  LET prov == provisions[p][v]
  IN  /\ ~paused
      /\ IsAuthorized(caller, p, v)
      /\ prov.created
      /\ prov.maxVerifierCutPending # cut => IsValidPPM(cut)
      /\ prov.thawingPeriodPending # period => period <= maxThawingPeriod
      /\ provisions' = [provisions EXCEPT ![p][v].maxVerifierCutPending = cut,
                                          ![p][v].thawingPeriodPending = period]
      /\ UNCHANGED <<serviceProviders, provisionRequests, delegationVars,
                     legacyLocked, tokenVars, configVars, now>>

(* Mutant: the staged thawing period is not validated again.               *)
AcceptProvisionParameters_Unvalidated(p, v) ==
  /\ ~paused
  /\ provisions[p][v].created
  /\ provisions' = [provisions EXCEPT
       ![p][v].maxVerifierCut = provisions[p][v].maxVerifierCutPending,
       ![p][v].thawingPeriod = provisions[p][v].thawingPeriodPending]
  /\ UNCHANGED <<serviceProviders, provisionRequests, delegationVars,
                 legacyLocked, tokenVars, configVars, now>>

AcceptProvisionParameters(p, v) ==
  LET prov    == provisions[p][v]
      changed == \/ prov.maxVerifierCutPending # prov.maxVerifierCut
                 \/ prov.thawingPeriodPending # prov.thawingPeriod
  IN  /\ ~paused
      /\ prov.created
      /\ changed => prov.thawingPeriodPending <= maxThawingPeriod
      /\ provisions' = [provisions EXCEPT
                          ![p][v].maxVerifierCut = prov.maxVerifierCutPending,
                          ![p][v].thawingPeriod = prov.thawingPeriodPending]
      /\ UNCHANGED <<serviceProviders, provisionRequests, delegationVars,
                     legacyLocked, tokenVars, configVars, now>>

-----------------------------------------------------------------------------
(* Delegation.                                                             *)

(* An invalid delegation pool has shares but no tokens.                    *)
IsValidPool(pool) == pool.tokens # 0 \/ pool.shares = 0

(* Mutant: delegation shares are rounded up.                               *)
DelegationShares_RoundsUp(pool, tokens) ==
  IF pool.tokens = 0 \/ pool.tokens = pool.tokensThawing THEN tokens
  ELSE (tokens * pool.shares + TokensAvailable(pool) - 1)
         \div TokensAvailable(pool)

(* The pool starts over when it is empty, or when all of it is thawing.    *)
DelegationShares(pool, tokens) ==
  IF pool.tokens = 0 \/ pool.tokens = pool.tokensThawing THEN tokens
  ELSE (tokens * pool.shares) \div TokensAvailable(pool)

CanDelegate(pool, p, v, tokens, minShares) ==
  /\ tokens >= MinDelegation
  /\ provisions[p][v].created
  /\ IsValidPool(pool)
  /\ DelegationShares(pool, tokens) # 0
  /\ DelegationShares(pool, tokens) >= minShares

AddDelegation(pool, tokens) ==
  [pool EXCEPT !.tokens = @ + tokens,
               !.shares = @ + DelegationShares(pool, tokens)]

(* delegate, and the old call for the pool of the subgraph service.        *)
Delegate(d, p, v, tokens, minShares) ==
  LET pool == pools[p][v]
  IN  /\ ~paused
      /\ tokens # 0
      /\ PullTokens(tokens)
      /\ CanDelegate(pool, p, v, tokens, minShares)
      /\ pools' = [pools EXCEPT ![p][v] = AddDelegation(@, tokens)]
      /\ delegations' = [delegations EXCEPT ![p][v][d] =
                           @ + DelegationShares(pool, tokens)]
      /\ UNCHANGED <<provisionVars, delegationRequests, legacyLocked,
                     configVars, now>>

(* Fees and rewards are given to the delegators of an existing pool.       *)
AddToDelegationPool(p, v, tokens) ==
  /\ ~paused
  /\ tokens # 0
  /\ provisions[p][v].created
  /\ pools[p][v].shares > 0
  /\ PullTokens(tokens)
  /\ pools' = [pools EXCEPT ![p][v].tokens = @ + tokens]
  /\ UNCHANGED <<provisionVars, delegations, delegationRequests, legacyLocked,
                 configVars, now>>

(* Mutant: the undelegated shares are not burned.                          *)
UndelegatedPool_KeepsShares(pool, shares, tokens) ==
  StartThawing(pool, tokens, ThawingSharesRoundDown(pool, tokens))

(* Pool shares become tokens, and the tokens shares of the thawing pool.   *)
UndelegatedPool(pool, shares, tokens) ==
  [StartThawing(pool, tokens, ThawingSharesRoundDown(pool, tokens))
     EXCEPT !.shares = @ - shares]

LeavesEnough(pool, left) ==
  left # 0 => (left * TokensAvailable(pool)) \div pool.shares >= MinDelegation

Undelegate(d, p, v, shares) ==
  LET pool   == pools[p][v]
      reqs   == delegationRequests[p][v][d]
      tokens == (shares * TokensAvailable(pool)) \div pool.shares
      thawingShares == ThawingSharesRoundDown(pool, tokens)
  IN  /\ ~paused
      /\ shares > 0
      /\ delegations[p][v][d] >= shares
      /\ pool.tokens # 0
      /\ LeavesEnough(UndelegatedPool(pool, shares, tokens),
                      delegations[p][v][d] - shares)
      /\ CanCreateThawRequest(reqs, thawingShares)
      /\ pools' = [pools EXCEPT ![p][v] = UndelegatedPool(@, shares, tokens)]
      /\ delegations' = [delegations EXCEPT ![p][v][d] = @ - shares]
      /\ delegationRequests' = [delegationRequests EXCEPT ![p][v][d] =
           Append(@, NewThawRequest(pool, thawingShares, ThawingUntil(p, v)))]
      /\ UNCHANGED <<provisionVars, legacyLocked, tokenVars, configVars, now>>

WithdrawDelegated(d, p, v, n) ==
  LET pool   == pools[p][v]
      reqs   == delegationRequests[p][v][d]
      result == FulfillThawRequests(pool, reqs, n, now)
  IN  /\ ~paused
      /\ IsValidPool(pool)
      /\ CanFulfillThawRequests(reqs, n)
      /\ pools' = [pools EXCEPT ![p][v] = ReleaseThawed(@, result)]
      /\ delegationRequests' =
           [delegationRequests EXCEPT ![p][v][d] = RemainingRequests(reqs, n, now)]
      /\ PushTokens(result.tokensThawed)
      /\ UNCHANGED <<provisionVars, delegations, legacyLocked, configVars, now>>

(* Mutant: the pool delegated to was read before the release.              *)
Redelegate_StalePool(d, p, v, newP, newV, minShares, n) ==
  LET pool     == pools[p][v]
      reqs     == delegationRequests[p][v][d]
      result   == FulfillThawRequests(pool, reqs, n, now)
      tokens   == result.tokensThawed
      newPool  == pools[newP][newV]
  IN  /\ ~paused
      /\ IsValidPool(pool)
      /\ CanFulfillThawRequests(reqs, n)
      /\ delegationRequests' =
           [delegationRequests EXCEPT ![p][v][d] = RemainingRequests(reqs, n, now)]
      /\ tokens # 0
      /\ CanDelegate(newPool, newP, newV, tokens, minShares)
      /\ pools' = [pools EXCEPT ![p][v] = ReleaseThawed(@, result),
                                ![newP][newV] = AddDelegation(newPool, tokens)]
      /\ delegations' = [delegations EXCEPT ![newP][newV][d] =
                           @ + DelegationShares(newPool, tokens)]
      /\ UNCHANGED <<provisionVars, legacyLocked, tokenVars, configVars, now>>

(* What was thawed is delegated to another pool, or to the same: the pool  *)
(* delegated to is read after the thawed tokens were released.             *)
Redelegate(d, p, v, newP, newV, minShares, n) ==
  LET pool     == pools[p][v]
      reqs     == delegationRequests[p][v][d]
      result   == FulfillThawRequests(pool, reqs, n, now)
      tokens   == result.tokensThawed
      released == [pools EXCEPT ![p][v] = ReleaseThawed(@, result)]
      newPool  == released[newP][newV]
  IN  /\ ~paused
      /\ IsValidPool(pool)
      /\ CanFulfillThawRequests(reqs, n)
      /\ delegationRequests' =
           [delegationRequests EXCEPT ![p][v][d] = RemainingRequests(reqs, n, now)]
      /\ \/ /\ tokens = 0
            /\ pools' = released
            /\ UNCHANGED delegations
         \/ /\ tokens # 0
            /\ CanDelegate(newPool, newP, newV, tokens, minShares)
            /\ pools' = [released EXCEPT ![newP][newV] = AddDelegation(@, tokens)]
            /\ delegations' = [delegations EXCEPT ![newP][newV][d] =
                                 @ + DelegationShares(newPool, tokens)]
      /\ UNCHANGED <<provisionVars, legacyLocked, tokenVars, configVars, now>>

(* The old withdrawDelegated and forceWithdrawDelegated.                   *)
WithdrawDelegatedLegacy(p, d) ==
  /\ ~paused
  /\ legacyLocked[p][d] > 0
  /\ PushTokens(legacyLocked[p][d])
  /\ legacyLocked' = [legacyLocked EXCEPT ![p][d] = 0]
  /\ UNCHANGED <<provisionVars, delegationVars, configVars, now>>

SetDelegationFeeCut(caller, p, v, cut) ==
  /\ ~paused
  /\ IsAuthorized(caller, p, v)
  /\ IsValidPPM(cut)
  /\ delegationFeeCut' = [delegationFeeCut EXCEPT ![p][v] = cut]
  /\ UNCHANGED <<provisionVars, delegationVars, legacyLocked, tokenVars,
                 operatorAuth, allowedLockedVerifiers,
                 delegationSlashingEnabled, maxThawingPeriod, paused, now>>

-----------------------------------------------------------------------------
(* Slashing, by the verifier: the provider first, then the delegators.     *)

Slash(p, v, tokens, tokensVerifier) ==
  LET prov         == provisions[p][v]
      pool         == pools[p][v]
      tokensToSlash == LesserOf(tokens, prov.tokens + pool.tokens)
      fromProvider == LesserOf(prov.tokens, tokensToSlash)
      fromPool     == IF delegationSlashingEnabled
                      THEN tokensToSlash - fromProvider ELSE 0
      reward       == IF fromProvider > 0 THEN tokensVerifier ELSE 0
  IN  /\ ~paused
      /\ prov.tokens + pool.tokens # 0
      /\ reward <= MulPPM(fromProvider, prov.maxVerifierCut)
      /\ fromProvider + fromPool <= balance
      /\ provisions' = [provisions EXCEPT ![p][v] = SlashAccount(@, fromProvider)]
      /\ serviceProviders' = [serviceProviders EXCEPT
                                ![p].tokensProvisioned = @ - fromProvider,
                                ![p].tokensStaked = @ - fromProvider]
      /\ pools' = [pools EXCEPT ![p][v] = SlashAccount(@, fromPool)]
      /\ balance' = balance - (fromProvider + fromPool)
      /\ wallet' = wallet + reward
      /\ UNCHANGED <<provisionRequests, delegations, delegationRequests,
                     legacyLocked, configVars, now>>

-----------------------------------------------------------------------------
(* Operators and governance.                                               *)

accountVars == <<provisionVars, delegationVars, legacyLocked, tokenVars>>

SetOperator(p, v, operator, allowed) ==
  /\ ~paused
  /\ operator # p
  /\ operatorAuth' = [operatorAuth EXCEPT ![p][v] =
                        IF allowed THEN @ \cup {operator} ELSE @ \ {operator}]
  /\ UNCHANGED <<accountVars, delegationFeeCut, allowedLockedVerifiers,
                 delegationSlashingEnabled, maxThawingPeriod, paused, now>>

SetOperatorLocked(p, v, operator, allowed) ==
  /\ v \in allowedLockedVerifiers
  /\ SetOperator(p, v, operator, allowed)

SetAllowedLockedVerifier(v, allowed) ==
  /\ allowedLockedVerifiers' = IF allowed THEN allowedLockedVerifiers \cup {v}
                               ELSE allowedLockedVerifiers \ {v}
  /\ UNCHANGED <<accountVars, operatorAuth, delegationFeeCut,
                 delegationSlashingEnabled, maxThawingPeriod, paused, now>>

SetDelegationSlashingEnabled ==
  /\ delegationSlashingEnabled' = TRUE
  /\ UNCHANGED <<accountVars, operatorAuth, delegationFeeCut,
                 allowedLockedVerifiers, maxThawingPeriod, paused, now>>

SetMaxThawingPeriod(period) ==
  /\ maxThawingPeriod' = period
  /\ UNCHANGED <<accountVars, operatorAuth, delegationFeeCut,
                 allowedLockedVerifiers, delegationSlashingEnabled, paused, now>>

(* The Controller pauses and unpauses the protocol.                        *)
SetPaused(value) ==
  /\ paused' = value
  /\ UNCHANGED <<accountVars, operatorAuth, delegationFeeCut,
                 allowedLockedVerifiers, delegationSlashingEnabled,
                 maxThawingPeriod, now>>

Tick ==
  /\ now < MaxTime
  /\ now' = now + 1
  /\ UNCHANGED <<accountVars, configVars>>

-----------------------------------------------------------------------------
StakeStep(p) ==
  \/ \E tokens \in TokenAmounts : Stake(p, tokens) \/ Unstake(p, tokens)
  \/ Withdraw(p)

ProvisionStep(p, v) ==
  \E caller \in Callers :
    \/ \E tokens \in TokenAmounts :
         \/ \E cut \in Cuts, period \in Periods :
              \/ Provision(caller, p, v, tokens, cut, period)
              \/ ProvisionLocked(caller, p, v, tokens, cut, period)
         \/ AddToProvision(caller, p, v, tokens)
         \/ StakeToProvision(caller, p, v, tokens)
         \/ Thaw(caller, p, v, tokens)
    \/ \E n \in 0 .. MaxThawRequests :
         \/ Deprovision(caller, p, v, n)
         \/ \E new \in Verifiers : Reprovision(caller, p, v, new, n)
    \/ \E cut \in Cuts, period \in Periods :
         SetProvisionParameters(caller, p, v, cut, period)
    \/ \E cut \in FeeCuts : SetDelegationFeeCut(caller, p, v, cut)

SlashStep(p, v) ==
  \E tokens \in TokenAmounts, reward \in TokenAmounts \cup {0} :
    Slash(p, v, tokens, reward)

VerifierStep(p, v) == AcceptProvisionParameters(p, v) \/ SlashStep(p, v)

DelegatorStep(d, p, v) ==
  \/ \E tokens \in TokenAmounts, minShares \in SlippageBounds :
       Delegate(d, p, v, tokens, minShares)
  \/ \E shares \in ShareAmounts : Undelegate(d, p, v, shares)
  \/ \E n \in 0 .. MaxThawRequests :
       \/ WithdrawDelegated(d, p, v, n)
       \/ \E newP \in Providers, newV \in Verifiers, minShares \in SlippageBounds :
            Redelegate(d, p, v, newP, newV, minShares, n)

ConfigStep ==
  \/ \E p \in Providers, v \in Verifiers, operator \in Operators, allowed \in BOOLEAN :
       \/ SetOperator(p, v, operator, allowed)
       \/ SetOperatorLocked(p, v, operator, allowed)
  \/ \E v \in LockedVerifiers, allowed \in BOOLEAN : SetAllowedLockedVerifier(v, allowed)
  \/ SetDelegationSlashingEnabled
  \/ \E period \in Periods : SetMaxThawingPeriod(period)
  \/ \E value \in PauseInputs : SetPaused(value)

Next ==
  \/ \E p \in Providers :
       \/ StakeStep(p)
       \/ \E v \in Verifiers :
            \/ ProvisionStep(p, v)
            \/ VerifierStep(p, v)
            \/ \E tokens \in TokenAmounts : AddToDelegationPool(p, v, tokens)
            \/ \E d \in Delegators : DelegatorStep(d, p, v)
       \/ \E d \in Delegators : WithdrawDelegatedLegacy(p, d)
  \/ ConfigStep
  \/ Tick

Spec == Init /\ [][Next]_vars

-----------------------------------------------------------------------------
(* Safety.                                                                 *)

(* Thawing tokens are part of the account, a thawing share is never worth  *)
(* more than one token, and there are thawing shares exactly while tokens  *)
(* thaw.  The divisions by sharesThawing and the subtractions of           *)
(* fulfilment rest on this.                                                *)
SoundAccount(account) ==
  /\ account.tokensThawing <= account.tokens
  /\ account.tokensThawing <= account.sharesThawing
  /\ account.tokensThawing = 0 => account.sharesThawing = 0

(* A provision's thawing shares are exactly those of the pending requests  *)
(* that a slash has not voided: neither thaw, deprovision, reprovision nor *)
(* slash ever loses or duplicates one.                                     *)
ProvisionsConsistent ==
  \A p \in Providers, v \in Verifiers :
    LET prov == provisions[p][v]
        reqs == provisionRequests[p][v]
    IN  /\ SoundAccount(prov)
        /\ NoncesUpTo(reqs, prov.thawingNonce)
        /\ prov.sharesThawing = ValidShares(reqs, prov.thawingNonce)

(* The same of a delegation pool, whose thawing shares are spread over the *)
(* request lists of all its delegators.                                    *)
PoolsConsistent ==
  \A p \in Providers, v \in Verifiers :
    LET pool == pools[p][v]
        held == [d \in Delegators |->
                   ValidShares(delegationRequests[p][v][d], pool.thawingNonce)]
    IN  /\ SoundAccount(pool)
        /\ \A d \in Delegators :
             NoncesUpTo(delegationRequests[p][v][d], pool.thawingNonce)
        /\ pool.sharesThawing = SumFunctionOnSet(held, Delegators)

(* The shares of a pool are those of its delegators.                       *)
PoolSharesAreDelegations ==
  \A p \in Providers, v \in Verifiers :
    pools[p][v].shares = SumFunctionOnSet(delegations[p][v], Delegators)

(* A pool with shares starts over only when it has no token at all: the    *)
(* "entire pool is thawing" case of delegate never gives away what other   *)
(* delegators still hold.                                                  *)
StartingOverDilutesNobody ==
  \A p \in Providers, v \in Verifiers :
    LET pool == pools[p][v]
    IN  pool.shares = 0 <=> (pool.tokens = pool.tokensThawing /\ IsValidPool(pool))

(* The thawing accounts, of provisions and of pools alike.                 *)
AccountsConsistent ==
  ProvisionsConsistent /\ PoolsConsistent /\ StartingOverDilutesNobody

(* Stake is provisioned once: provisions and what was locked before        *)
(* Horizon never exceed the stake, whatever was slashed or moved.          *)
StakeCoversProvisions ==
  \A p \in Providers :
    /\ serviceProviders[p].tokensProvisioned =
         SumFunctionOnSet([v \in Verifiers |-> provisions[p][v].tokens], Verifiers)
    /\ serviceProviders[p].tokensProvisioned + serviceProviders[p].tokensLocked
         <= serviceProviders[p].tokensStaked

(* The contract holds exactly the tokens it owes.                          *)
Solvent == balance = TokensOwed

-----------------------------------------------------------------------------
(* Action properties.                                                      *)

(* The delegators of a pool lose tokens by these calls alone.              *)
DelegatorsSlashed(p, v) == delegationSlashingEnabled /\ SlashStep(p, v)

(* Neither a delegation share nor a thawing share of a pool loses value.   *)
SharesKeepValue(pool, new) ==
  /\ TokensAvailable(pool) * new.shares <= TokensAvailable(new) * pool.shares
  /\ pool.tokensThawing * new.sharesThawing <= new.tokensThawing * pool.sharesThawing

(* Unless its pool is slashed, a delegation share never loses value, nor   *)
(* does a thawing share of a pool: the roundings of delegate, undelegate   *)
(* and withdrawDelegated always favour those who stay.                     *)
DelegatorsNeverDiluted ==
  [][ \A p \in Providers, v \in Verifiers :
        SharesKeepValue(pools[p][v], pools'[p][v]) \/ DelegatorsSlashed(p, v) ]_vars

(* The thawing shares of a provision, and of a pool, that may be redeemed. *)
ExpiredOfProvision(p, v) ==
  ExpiredShares(provisionRequests[p][v], provisions[p][v].thawingNonce, now)

ExpiredOfPool(p, v) ==
  SumFunctionOnSet(
    [d \in Delegators |->
       ExpiredShares(delegationRequests[p][v][d], pools[p][v].thawingNonce, now)],
    Delegators)

(* Tokens leave a provision or a pool only by a slash, or against thawing  *)
(* shares of requests that have expired, at no more than their price: until*)
(* then the verifier can slash them.                                       *)
SlashableUntilThawed ==
  [][ \A p \in Providers, v \in Verifiers :
        /\ \/ LeavesAtPrice(provisions[p][v], provisions'[p][v], ExpiredOfProvision(p, v))
           \/ SlashStep(p, v)
        /\ \/ LeavesAtPrice(pools[p][v], pools'[p][v], ExpiredOfPool(p, v))
           \/ DelegatorsSlashed(p, v) ]_vars

(* A thawing period that a verifier accepts is within the maximum of that  *)
(* moment, even if the governor lowered it after the provider had staged it.*)
AcceptedPeriodWithinMaximum ==
  [][ \A p \in Providers, v \in Verifiers :
        provisions'[p][v].thawingPeriod # provisions[p][v].thawingPeriod
          => provisions'[p][v].thawingPeriod <= maxThawingPeriod
    ]_vars

(* While the protocol is paused no token and no share moves, and no user   *)
(* setting changes.                                                        *)
PausedFreezes ==
  [][ paused => UNCHANGED <<accountVars, operatorAuth, delegationFeeCut>> ]_vars

-----------------------------------------------------------------------------
(* Liveness: time passes, and the owners of thaw requests ask for their    *)
(* tokens again and again.                                                 *)

LiveSpec ==
  /\ Spec
  /\ WF_vars(Tick)
  /\ \A p \in Providers, v \in Verifiers :
       /\ WF_vars(Deprovision(p, p, v, 0))
       /\ \A d \in Delegators : WF_vars(WithdrawDelegated(d, p, v, 0))

HeadIs(reqs, until) == reqs # <<>> /\ reqs[1].thawingUntil = until

(* The oldest request of a provision is fulfilled once it has expired:     *)
(* neither a slash nor a later call can block the list.                    *)
ProvisionThawsComplete ==
  \A p \in Providers, v \in Verifiers, until \in 0 .. MaxTime :
    HeadIs(provisionRequests[p][v], until)
      ~> ~HeadIs(provisionRequests[p][v], until)

(* The same of a delegator, unless all tokens of the pool were slashed; it *)
(* is blocked then until someone adds tokens to the pool.                  *)
DelegationThawsComplete ==
  \A p \in Providers, v \in Verifiers, d \in Delegators, until \in 0 .. MaxTime :
    HeadIs(delegationRequests[p][v][d], until)
      ~> (~HeadIs(delegationRequests[p][v][d], until) \/ ~IsValidPool(pools[p][v]))

(* No list of thaw requests is stuck.                                      *)
ThawsComplete == ProvisionThawsComplete /\ DelegationThawsComplete
=============================================================================
