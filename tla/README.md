# The Graph protocol and its operation in TLA+

A verification project for this repository: TLA+ models of the contracts that hold and move
tokens (`src/packages/horizon`, `subgraph-service`, `issuance`), and of the programs that deploy,
upgrade, configure and operate contracts (`src/packages/deployment`, `token-distribution`); TLC
configurations that check them on small instances, and theorems that TLAPS checks for all.

Contents

1. [The system](#1-the-system)
2. [Inventory of components](#2-inventory-of-components)
3. [How code is modelled](#3-how-code-is-modelled)
4. [The modules](#4-the-modules)
5. [The runs](#5-the-runs)
6. [Divergences found](#6-divergences-found)
7. [What is proved](#7-what-is-proved)
8. [What is only model-checked, and what is not modelled](#8-what-is-only-model-checked-and-what-is-not-modelled)
9. [Plan](#9-plan)

Run TLC and TLAPS in this directory, for example

    tlc -workers 2 -config HorizonStakingDelegation.cfg MCHorizonStaking
    tlapm HorizonStakingProofs.tla

## 1. The system

**The protocol.** The Graph is a market for indexing. *Service providers* stake GRT and
*provision* part of the stake to a *data service*, which acts as a *verifier*: it may slash what
was provisioned to it. *Delegators* add to a provider's stake and share its fees. *Payers* put
tokens into an escrow, from which *collectors* pay providers against vouchers or agreements.
Anyone can dispute what an indexer did; an arbitrator decides, and the indexer is slashed. New
tokens are issued per block and shared out among targets, one of them the rewards of indexers
that an eligibility oracle vouches for.

**Its operation.** Contracts are deployed behind proxies by scripts on a deployer's machine. What
the deployer may not do, the scripts write into *governance bundles*, JSON files of transactions
in `txs/`, which the governor executes, with a key or through a Safe. An *address book* in the
repository tells everybody what is deployed and pending; *rocketh*, the deployment library, keeps
records of its own. Tasks grant roles and operate the eligibility oracle; the tasks of the
token-distribution package create and manage token locks. The rollout of GIP-0088 is a sequence
of such scripts and bundles that configures the new contracts, hands them to the governor and
moves the issuance of rewards under the new allocator.

```
 payer --deposit/thaw--> PaymentsEscrow <--collect-- GraphTallyCollector <--collect-- data service
                              | collect                   RecurringCollector      (SubgraphService)
                              v                                                        ^   |
                        GraphPayments --burn, data service cut                         |   | slash
                              | addToDelegationPool, stakeTo                 accept    |   v
                              v                                   DisputeManager ------+
        provider, delegator --> HorizonStaking <------------------- getProvision, slash
                                   ^  thaw requests kept in LinkedList
 IssuanceAllocator --mint--> RewardsManager --mint--> SubgraphService, RecurringAgreementManager
                                   ^ isEligible: RewardsEligibilityOracle

 scripts of operators --transactions--> chain <--executes-- governor (key or Safe)
    | sync, deploy, upgrade,   ^                                ^ proposes
    | configure, transfer      | reads                          |
    v                          |                                |
 address book, rocketh records + deployment:status      bundles in txs/ --> executed/
```

What is hard:

- **Deferred exits.** Stake, delegation, escrow and signers leave only after a thawing period,
  during which the tokens may still be slashed, collected or used. Thawing tokens are tracked by
  shares and queues of requests whose price and order change after the request was made.
- **Shares and roundings.** Pools, thawing accounts and payments are divided with rounding; who
  gains a token by rounding, and whether the last one out finds tokens left, depends on long
  sequences of calls.
- **Several contracts keep books about the same tokens.** Stake against provisions and pools,
  the escrow against the collector's totals, the rates of targets against the issuance.
- **Calls that reach through.** A collection goes through a collector, the escrow, the payments
  contract and staking; a dispute ends in a slash that staking may refuse. One refusing party
  blocks the others.
- **Several stores of one fact.** What is deployed is on the chain, in the address book, in
  rocketh's records and in bundles; a script that stops half way, another operator's checkout, or
  an upgrade made elsewhere leave them in disagreement, and the next script has to find out.
- **Check, then act, much later.** A script reads the chain and writes a bundle; it is executed
  days later, perhaps after others, perhaps twice, perhaps never. A task decides by what it read
  and sends its transaction when that may have changed.
- **Files as locks.** Bundles are claimed, replaced, gathered and archived by name.

## 2. Inventory of components

| component (source under `src/packages`) | state | operations | correct when | here |
|---|---|---|---|---|
| **HorizonStaking** (`horizon/contracts/staking`) | stake of providers, provisions, delegation pools, delegations, thaw request lists, operators, fee cuts, governor's settings | stake, unstake, provision, thaw, deprovision, reprovision, slash, delegate, undelegate, withdraw, redelegate, operators, governor's setters | the balance covers what is owed; provisions are covered by stake; thawing accounts are sound; nothing leaves before it thawed; nobody is diluted; requests complete | modelled, proved |
| **LinkedList** (`horizon/contracts/libraries`) | head, tail, count, nonce of a list; next pointers in the items | addTail, removeHead, traverse | it is a queue | modelled, proved |
| **GraphPayments, PaymentsEscrow** (`horizon/contracts/payments`) | escrow accounts with a thawing amount and its end | deposit, thaw, adjustThaw, cancelThaw, withdraw, collect | accounts are covered; payments pass through; receivers get their notice | modelled, proved |
| **GraphTallyCollector, Authorizable** | collected so far per data service, collection, receiver and payer; signers | collect, authorizeSigner, thawSigner, cancelThawSigner, revokeAuthorizedSigner | only what was signed is collected, and it can be | modelled, proved |
| **DisputeManager** (`subgraph-service/contracts`) | disputes, deposits, parameters | create (four kinds), accept, reject, draw, cancel, setters | deposits come back once; linked disputes share their fate; every dispute can end | modelled but for the arbitrator's address, proved |
| **IssuanceAllocator** (`issuance/contracts/allocate`) | rates of targets, distribution progress, self-minting offset | distribute, change of issuance, rates, default target, notifications, pause | all issuance is allocated and minted once | modelled, proved |
| **RewardsEligibilityOracle** (`issuance/contracts/eligibility`) | renewal times, retention, roles | renew, remove, validation, retention, isEligible | a renewed indexer is eligible for the period; everybody is when the oracles fall silent | modelled, proved |
| **Deployment of proxied contracts** (`deployment/lib`, `rocketh`, `tasks`) | address book, rocketh records, `txs/upgrade-*.json`, proxy and implementations on chain | sync, deploy, upgrade, execute-governance, verify, status | the book tells the truth, status shows it, pending upgrades are not lost, the workflow ends | modelled in its core, proved |
| **GIP-0088 rollout** (`deployment/deploy`) | roles, settings, allocations and ownership on chain, bundles, the Safe's queue | configure, transfer, upgrade, connect, allocate, integrate, guard, end, status; gather | somebody governs every contract; rewards continue; the rollout completes and stays so | modelled, proved |
| **Operator tasks** (`deployment/tasks`) | bundles, running tasks | roles:grant, roles:revoke, reo:enable, reo:disable, reo:retention, reo:remove-expired, reo:status, deploy:execute-governance | what is asked for happens; status agrees with the contract | modelled, proved |
| **Token lock operations** (`token-distribution/ops`) | deploy file, result file, batches for the Safe; manager, wallets | create, deposit, withdraw, set-up and update of the authorised functions, cancel, accept, transfer | recorded locks exist; an accepted lock is not emptied; every entry gets its wallet | modelled, proved |
| RecurringCollector (`horizon/contracts/payments/collectors`) | agreements, offers, cancelled offers | offer, accept, update, cancel, collect with callbacks to payers | a collection is bounded by time and terms; `getMaxNextClaim` bounds the next collection | planned |
| Data service library (`horizon/contracts/data-service`) | stake claims in a list, tokens locked per provider | lock, release, check | what is locked is released once and in time, and was covered when locked | planned |
| SubgraphService (`subgraph-service/contracts`) | allocations, provision tracker, indexing agreements | register, allocate, present POI, resize, close, collect, slash | allocations are covered or shrink; rewards are taken once | planned |
| RewardsManager (`contracts/contracts/rewards`) | accumulators per signal, subgraph and allocated token | update hooks, take, reclaim, deny | rewards paid, reclaimed and dropped add up to what was issued | planned |
| RecurringAgreementManager (`issuance/contracts/agreement`) | agreements of one payer, snapshots of escrow | offer, cancel, reconcile, before/after collection | sums and deficits match what they sum | planned |
| Curation, GNS; L1GNS, L2GNS; token gateways, BridgeEscrow | pools and signal; transfers under way; escrow, mint allowance | mint, burn, publish, transfer in any order | reserves cover signal; nothing is lost or minted twice between layers | planned |
| EpochManager, SubgraphAvailabilityManager; Controller, Governed, GraphProxy | epochs, votes; registry, pending governor | set length, vote; two-step transfer | epochs never go back; only fresh votes count | not planned |
| Token lock contracts (`token-distribution/contracts`) | schedule, released, used and revoked amounts | release, revoke, withdraw surplus | never more than vested leaves | environment of the tasks only |
| legacy Staking and disputes; AllocationExchange; ServiceRegistry; DirectAllocation; DataEdge; interfaces, toolshed | | | replaced by Horizon, or without protocol state | not planned |

## 3. How code is modelled

**A call of a contract is an action.** The transaction is the unit of atomicity of the EVM, and
calls between contracts happen inside it. One action is one external call with all that it does
in every contract; a call that reverts is an action that is not enabled (or, sent by a script, a
step that changes nothing and stops the script). What other parties do between two calls is left
to the interleaving of actions. Calls that only vary an argument of another one (`deposit` and
`depositTo`, overloads, `stake` and `stakeTo`) are instances of one action.

**A script is a sequence of steps.** A step ends where the script awaits something that others
can see or change: a transaction, a write to the address book, a record or a bundle. Between two
steps a script may stop for good (killed, out of funds, an RPC call that failed), bundles are
executed, and, where tasks run side by side, other tasks go on. Reading the chain belongs to the
step that acts on it only where nothing can change in between; a task that decides first and acts
later is two steps. Scripts of one checkout run one at a time (`ProxyDeployments`,
`Gip0088Rollout`); tasks of several operators run at the same time (`OperatorTasks`,
`TokenLocks`).

**A bundle is a sequence of calls**, executed one after the other by the governor's key, or all
or nothing by the Safe, in any order the Safe's owners like, possibly again. An execution checks
permissions and requirements when it happens, not when the bundle was written.

**Time** is `now`, a bounded number that an action of its own advances; it starts above 0, since
the contracts read 0 as "not set". `MaxTime` (`MaxBlock`) bounds it.

**Tokens** outside a contract are one number (`wallet`) where it does not matter who has them,
and a ledger (`TokenLedger`) where payments to different parties must be told apart. Allowances
are left out of the contracts' models (whoever pays has approved it), and kept in `TokenLocks`,
whose tasks approve and deposit in two transactions. In the ledger burned tokens have an account
of their own so that losing one is visible.

**Numbers** are natural numbers; the code's checked arithmetic reverts on overflow and underflow,
and type invariants show that no subtraction of the model goes below zero. The one unchecked
narrowing, the `uint64` deadline of a thaw request, is computed modulo `TimestampModulus`. Parts
per million are parts of `MaxPPM`, so that a few tokens meet every rounding.

**History variables** (marked so) record what the code does not: collected tokens, rewards paid,
issuance of past blocks, renewals and the shortest retention since, when a revocation was
announced (`noticeAt`), what callers sent to contracts that keep nothing (`directed`), an entry of
the address book left half written (`torn`), contracts handed over out of turn (`hasty`). They
occur in no guard.

**Environment.** A contract that another module models is reduced to what the caller sees: staking
for payments (`stakeOf`, `poolTokens`, `hasDelegators`), and stakes for disputes, which others may
change to anything at any moment. For the deployment modules the chain is the environment: a
transaction has the requirements and effects that the scripts rely on. OpenZeppelin's access
control, the Safe, rocketh and the explorers are external, modelled from how the code uses them.

**Mutants.** Operators with an underscore in their names (`SlashAccount_NeverCancels`) are
plausible mistakes. They are not part of any specification; putting one in place of the operator
it is named for makes TLC report the property that guards against that mistake.

## 4. The modules

| module | models | state |
|---|---|---|
| `ThawRequests` | thaw requests and thawing accounts: `_thaw`, `_createThawRequest`, `_traverseThawRequests`, the thawing part of `slash`, `getThawedTokens` | none: operators on an account and a sequence of requests |
| `HorizonStaking` | `HorizonStaking.sol` with its base and storage | `serviceProviders`, `provisions`, `pools`, `delegations`, two families of request lists, legacy balances, settings, `balance`, `wallet`, `now` |
| `LinkedList` | `LinkedList.sol` as its users use it: several lists over one mapping of items | `lists`, `nextItem`, `stored` |
| `ItemQueue` | what a list promises (abstract): a sequence, appended to and cut off at the front | `queue` |
| `TokenLedger` | token balances, time, arithmetic in parts per million | `balanceOf`, `now` |
| `GraphPayments` | `GraphPayments.collect` | what staking credits |
| `PaymentsEscrow` | `PaymentsEscrow.sol` on top of it | `escrowAccounts`, `paused` |
| `Authorizable` | signers of a collector | `authorizations` |
| `GraphTallyCollector` | the collector, its signers and the escrow composed | `tokensCollected`, `provisioned` |
| `DisputeManager` | `DisputeManager.sol`, with the slash it triggers in `SubgraphService` and `HorizonStaking` | `disputes`, `balance`, `funds`, `parameters`, `stakes`, ... |
| `IssuanceAllocator` | `IssuanceAllocator.sol` | rates, `distribution`, `lastChangeNotifiedBlock`, `minted` |
| `EligibilityOracle` | `RewardsEligibilityOracle.sol` | none: operators on the record of an instance |
| `OperatorTasks` | role and oracle tasks of `deployment/tasks` on several instances | `oracles`, `bundles`, `tasks`, `executing`, `now` |
| `AddressBook` | an entry of the address book and the operations of `AddressBookOps` | none: operators on an entry |
| `ProxyDeployments` | sync, deploy, upgrade, execute, verify and status for one proxied contract | `code`, `proxies`, `book`, `shared`, `records`, `artifact`, `bundle`, `proposed`, `script` |
| `Gip0088Rollout` | the scripts of the rollout with their gates and displays | `chain`, `bundles`, `queue`, `script` |
| `TokenLocks` | the tasks of `token-distribution/ops` | `chain`, `recorded`, `batches`, `tasks` |
| `MC*` | constants, symmetry and scenarios for TLC | |
| `SumTheorems` | lemmas on sums over finite sets, on least counterexamples and on recursive functions | |
| `*Proofs` | lemmas and theorems, section 7; `HorizonStakingProofs` has those of `LinkedList` too, and `OperationsProofs` those of `ProxyDeployments` and `TokenLocks` | |

`PROJECT.json` maps every definition to the lines it stands for. Decisions worth knowing:

- **HorizonStaking.** A provision and a pool are both *accounts* with `tokens`, `tokensThawing`,
  `sharesThawing` and `thawingNonce`; what the code repeats for both is one operator in
  `ThawRequests`. A request list is the sequence of its requests; that `LinkedList` implements
  this is `ImplementsQueues`. Fulfilment walks the list from the head, stops at the first request
  that has not expired or at the limit (0: no limit), skips those of earlier nonces, and redeems
  the others at the price of the moment. A slash that leaves thawing shares without tokens
  cancels all requests by starting a new nonce. Legacy balances (tokens locked or undelegated
  before Horizon) exist at the start and can only be withdrawn. The pools of the subgraph service
  are stored in a mapping of their own, kept from before Horizon; they are treated like the
  others, so the model has one mapping.
- **Payments.** `collect` accepts any address as data service and as destination, the contracts of
  the protocol included. Anyone may send tokens to the escrow, so that it may hold more than its
  accounts (`EscrowSolvent`, a part of `EscrowConsistent`, is an inequality). Every payment must
  leave `GraphPayments` in full, but for what its caller directed to `GraphPayments` itself, and
  staking holds what it credited and what was directed to it: `PaymentsPassThrough` is an equality,
  with the history `directed` on its right side.
- **GraphTallyCollector.** A RAV is what a signer signed; whether the signature is genuine is
  not the model's question. The history `noticeAt` has the last announcement of a signer's
  revocation, 0 after a cancellation.
- **DisputeManager.** The id of a dispute is a hash; here it is a name, and what was hashed are
  functions of the name. The stake may change to anything between any two calls. The arbitrator
  is any caller: the address makes no difference to the books.
- **IssuanceAllocator.** A notified target may call `distributeIssuance` back. The callback comes
  after the caller distributed and before it changes a rate, so it has nothing left to do, and a
  call of its own models it. Event modes and roles are left out.
- **ProxyDeployments.** One contract of each kind of proxy (`graph`, `transparent`, `shared`).
  What a checkout compiles to is its `artifact`; operators who take part are the `Team`. The two
  synchronous writes of `applyDeploymentUpdate` are one step, and so are the records one sync
  leaves. The two writes of a sync that finds an implementation changed by others
  (`sync-utils.ts:508`, `:509`) are two: `TearSync` leaves the address without the metadata,
  because the script stops there, or because the second write fails, which is only logged
  (`address-book.ts:186`). Other writes do not fail. `validateContract` of
  `deployment-validation.ts`, with its check of complete metadata, is part of what operators are
  shown (`ValidateContract`, `MetadataComplete`). `checkShouldSync` and
  `reconstructDeploymentRecord`, which only tests use, are left out, and so is the proxy's own
  page on the explorer.
- **Gip0088Rollout.** A transaction is a pair `<<contract, what>>`. The upgrades of all components
  are one transaction (`ProxyDeployments` has their detail), the two oracles are one, and the
  transfer of the RecurringCollector's ProxyAdmin and the oracle's periods are left out. Any script
  may be run at any time; a transfer has only the guards of its script, and the history `hasty` has
  the contracts handed over while the status proposed something else (a half-configured contract and
  `--tags ...,transfer`). Bundles that presume the upgrade (`GIP_0088_ASSUME_UPGRADED`) are
  generated before it only.
- **OperatorTasks.** A task reads and decides in one step and acts in another. A bundle's name
  carries the role and the account but not the contract. A transaction and its estimation are one
  step. `reo:status` and `reo:remove-expired` go by the clock of the operator's machine, which is
  up to `MaxSkew` ahead or behind the chain's. Period, timeout and retentions are any natural
  numbers, in any order, as for the contract. The first two are constants (their setters have no
  task); a retention shorter than the period is set like any other, and the history `shortest`
  has the shortest one since an indexer's renewal.
- **TokenLocks.** The contracts are external: what a transaction requires and does. Concurrent
  deposits overwrite each other's approval, as in the code. Tasks run side by side, also two of
  the same request on one result file. A transaction that failed for the task may be mined all
  the same (`SendFails`). A deploy file is a sequence, in which an entry that occurs twice counts
  twice (`Total`); the instance for TLC has every entry once, since a duplicate makes every batch
  fail for ever.

## 5. The runs

| run | configuration | question | distinct states |
|---|---|---|---|
| `staking_provisions` | `HorizonStakingProvisions.cfg` | Is everything in a provision covered, slashable until it thawed, and frozen while paused? | 411,648 |
| `staking_delegation` | `HorizonStakingDelegation.cfg` | Are pools consistent and solvent, and is nobody diluted? | 93,528 |
| `staking_liveness` | `StakingLiveness.cfg` | Do thaws complete? | 21,708 |
| `tally` | `Tally.cfg` | Escrow, payments and collector: are the books right, and is what is covered paid? | 329,728 |
| `disputes` | `Disputes.cfg` | Are deposits accounted for, do linked disputes share their fate, can every dispute end? | 501,264 |
| `linked_list` | `LinkedList.cfg` | Is the list a queue? | 171 |
| `issuance` | `IssuanceAllocator.cfg` | Is every token issued allocated and minted once? | 239,018 |
| `proxy_deployments` | `ProxyDeployments.cfg` | Does the address book tell the truth, does the workflow end? | 464,539 |
| `rollout` | `Rollout.cfg` | Is everything governed and rewarded throughout, does the rollout complete and stay so? | 182,817 |
| `rollout_no_issuance` | `RolloutNoIssuance.cfg` | expected violation, section 6 | 129 |
| `operator_tasks` | `OperatorTasks.cfg` | Is a renewed indexer eligible, is the status true, do requests take effect? | 277,024 |
| `token_locks` | `TokenLocks.cfg` | Do recorded locks exist, are accepted locks kept, do operators get there? | 141,215 |

**Bounds, and why they are enough.** Every property has a mutant, an operator with a plausible
mistake in it, that makes it fail in the same configuration: the case it guards against happens
within the bounds. What each configuration was chosen for:

- `staking_provisions`: one provider and one verifier, 2 tokens, one request per list, 2 time
  steps, all cuts one half; an operator, a locked verifier, a legacy stake and pausing. A
  provision is only ever changed together with its provider's record, so more of them add
  interleavings but no case; that is what the theorems are for.
- `staking_delegation`: one pool, two delegators (symmetric), 5 tokens, amounts 1 and 3 and
  slashes of one half, so that prices become fractions; two requests per list, so that order,
  limits and a request of an old nonce at the head occur; redelegation into the same pool.
- `staking_liveness`: thawing periods 0 and 2, so that a later request expires earlier.
- `tally`: two payers with one receiver, one data service and one signer they compete for. One of
  them owes for two collections out of one account, for one of them by two RAVs, so that the sum
  over collections has two terms. 2 tokens and cuts of one half: a token that is cut in half is
  the rounding case; a payer may adjust a thaw to 0 or 2. Payments go to the receiver's stake, to
  the escrow or to the payments contract itself; the staking contract as a destination behaves
  like the latter and is left to the theorem.
- `disputes`: an odd deposit (3), so that halving leaves a rest; two conflicting attestations, an
  allocation and an agreement; one fisherman and one indexer; cuts of none, a quarter and a half.
- `linked_list`: two lists over one mapping, three items at once, five ever created: a list
  empties, fills again and reaches its limit. Small, but all there is at this size.
- `issuance`: two targets (symmetric), issuance 0 to 2, rates 0 and 1, three blocks, distribution
  in parts: a change of rates between two partial distributions takes three blocks.
- `proxy_deployments`: two versions of the code, three kinds of proxy, five implementations. One
  operator meets a lost or changed checkout, a crash, an upgrade made elsewhere; two operators with
  different checkouts meet each other on a contract that is fully recorded. Where a Safe governs
  and one operator works, the contract exists: a GraphProxy behind the checkout (a transparent
  proxy goes through the same states), or a shared implementation that is up to date until the
  checkout changes. A sync that is torn counts as a crash.
- `rollout`: four networks, at least one per kind of governor (its key signs, its key executes
  bundles, a Safe), with different contracts fresh and options set; a rate of 3 of which 1 is
  shared, as less than half is shared in `arbitrumOne.json5`: the differences that
  `issuance_allocate` sorts by are then not equal, and the share comes first; four bundles in the
  Safe's queue, one crash for each of the first two kinds.
- `operator_tasks`: two scenarios, one of roles (two instances whose bundles share a name), one of
  settings; times 3 to 6 against a period of 2, a timeout of 1 and retentions 1 and 3, the one
  shorter and the other longer than the period: an indexer renewed, expired and removed while a
  retention changes; clocks one second ahead or behind; two tasks at a time.
- `token_locks`: two entries of one token, five scenarios (the deployer owns the manager, the Safe
  owns it, authorisations, a handover, a handover with withdrawals), two tasks at a time, also for
  one request, two failures.

**Symmetry** is used for delegators, targets and lists, which the code treats alike, in runs without
liveness properties. (`linked_list` has a refinement, which the permutation of the lists maps to
itself.) In `proxy_deployments` versions and operators are alike too; there `MCInit` picks the
first, since its property is a temporal one.

**Fairness.** No run assumes that anyone cooperates who has no reason to.

- `staking_liveness`: time passes, and owners of thaw requests keep calling `deprovision` and
  `withdrawDelegated` without a limit (weak): it is their money, and nobody else can do it.
- `tally`: time passes, and a data service goes on presenting what it can collect, to be paid into
  the receiver's stake (weak, per data service: nothing is assumed of the order in which it
  presents its RAVs, or of its cut).
- `disputes`: time passes, and a fisherman who may cancel does (weak, per dispute); nothing is
  assumed of the arbitrator.
- `proxy_deployments`: a script that runs goes on (weak); an operator who is alone keeps starting
  the scripts of the workflow (strong, since they start only when no other runs). Nothing is
  assumed of `sync`, `verify`, the Safe or others.
- `rollout`: scripts go on, the Safe executes what it has queued (weak); operators keep running
  the script that the status proposes, and its bundle, and beside it the allocation, which the
  status cannot tell to be done and goes on proposing (strong). Without the last assumption the
  rollout may hang, see section 6.
- `operator_tasks`: a task finishes or dies (weak); operators keep asking for their goals, such
  tasks finish in the end, and bundles with such a call are executed in the end (strong: another
  bundle of the same name takes their place meanwhile).
- `token_locks`: tasks go on (weak), operators keep running wanted tasks and the Safe keeps
  executing batches (strong).

**Deadlock** is checked in every run: where the bounds have not ended, a call that changes
nothing, the passing of time or another script is always possible.

## 6. Divergences found

**With a run.** `rollout_no_issuance` refutes `GovernanceKept` for a network whose RewardsManager
issues nothing. `docs/Gip0088.md:164` requires that the IssuanceAllocator is configured before its
governance is transferred; `allocator/06_transfer_governance.ts:42` checks only whether the
deployer's role is still there, and the status does not count an allocator without a rate as an
issue. It is transferred unconfigured, the governor never got the role, and nobody holds it. For
networks that issue something `GovernanceKept` is a theorem (section 7), as long as operators
transfer what the status proposes to transfer; see *Rollout* below.

**Without a run**, met while modelling; the models follow the code:

- *Staking.* `getThawedTokens` is documented as the amount "that can be released"
  (`IHorizonStakingBase.sol:172`), but passes over an unexpired request of an earlier nonce, at
  which fulfilment stops (`HorizonStakingBase.sol:203`). `IAuthorizable` says a signer who has
  thawed should be viewed as revoked; `_isAuthorized` asks for the revocation alone.
- *Issuance.* The comment at `IssuanceAllocator.sol:86` derives that total issuance never exceeds
  the sum of the rates; a rate raised while distribution lags counts for the blocks gone by
  (line 468). The bound that holds is in `IssuanceConsistent`: the highest rate for all blocks.
- *Deployment.* `docs/SyncBytecodeDetectionFix.md:102` promises a new deployment whenever the local
  code has changed. Sync leaves rocketh's record alone then (`sync-utils.ts:684`); if that record is
  of the very code that is checked out, since another operator has upgraded in between, deploy
  reports "implementation unchanged" (`deploy-implementation.ts:383`). A bundle of an upgrade that
  is no longer pending stays in `txs/`, unlike the comment at `execute-governance.ts:109`. Shared
  implementations: between the deployment of the shared one and the proxy's own script the status
  says "up to date", and "shared implementation changed" reports any inequality, so that an upgrade
  made elsewhere is answered by a pending downgrade. A stop between deployment and entry in a script
  like `01_impl.ts` leaves a new deployment unrecorded. A stop, or a failing write, between
  `sync-utils.ts:508` and `:509` leaves the new address with the metadata of the old implementation.
  The next sync compares the addresses alone (line 494) and does not repair it; the status may say
  that the code is up to date when it is not, and deploy, which compares the same hash, that nothing
  is to do. The next upgrade through the book ends it. The backfill of contracts without proxy
  writes the local hash without comparing. The end of a component says "ready" when this checkout
  has no bundle file.
- *Rollout.* Only the oracle's transfer asks whether the contract is configured (`eligibility`'s
  `05_transfer_governance.ts:27`); those of the other contracts do not, against the "Configured" of
  `Gip0088.md:164`. On any network a configuration that stopped half way, followed by the transfer
  before the status proposes it, leaves a contract that nobody governs. `issuance_allocate.ts:117`
  puts the smaller difference first. Where less than half of the rate is shared this is the
  RecurringAgreementManager's share; a script that sends the two one by one and stops in between, or
  whose second transaction reverts since the upgrade is not done, leaves an allocator of which
  connect's own allocation exceeds the rate. Connect then fails however often it is run; running
  allocate again repairs it. The default target may stay unset; the status of IA shows
  "defaultTarget configured" whatever it is (`status-detail.ts:298`). The oracle's status shows a
  problem where no oracle is to be integrated. No gate asks for the collector's pause guardian. The
  documented order addMinter, setIssuanceAllocator, setTargetAllocation (`Gip0088.md:188`) is not
  that of the script, and must not be: `RewardsContinue` fails for it. `issuance_allocate` does not
  look whether connect is done.
- *Tasks.* `reo:status` shows "ACTIVE" when no oracle ever reported, whereas `isEligible` lets
  everybody pass (`reo-tasks.ts:188`), and goes by the local clock (`reo-tasks.ts:187`), so that
  it may be wrong by the difference to the chain's. `reo:remove-expired` on a clock that is ahead
  sends a call that returns false, and prints "removed (or already absent)" (`reo-tasks.ts:549`).
  `setIndexerRetentionPeriod` accepts a retention shorter than the period, with which anybody may
  remove an indexer that is still eligible. Names of bundles lack the contract
  (`grant-role.ts:128`). Archiving may move a bundle saved meanwhile, and the status in a receipt
  is not looked at (`execute-governance.ts:519`, `:527`).
- *Locks.* An entry created by a run that died before it saved, or whose transaction was mined
  although waiting for it failed (`create.ts:386`), is never recorded; a batch then always reverts.
  So it does when the deploy file has an entry twice. A beneficiary may accept a lock that was
  cancelled and is empty.

## 7. What is proved

Every theorem is proved for all values of the constants that satisfy the named assumptions of the
modules, which TLC evaluates in every run. The assumptions say that sets of addresses are finite,
that amounts, periods and bounds are natural numbers, that parameters lie in the ranges their
setters validate, and that different contracts have different addresses. Destinations
of payments are any addresses, and periods that no setter compares come in any order.

| theorem | states for every reachable state or step |
|---|---|
| `HorizonStakingProofs` | |
| `TypeCorrect` | `TypeOK`: no balance, share or deadline ever leaves the naturals |
| `AccountsConsistentAlways` | `AccountsConsistent`: thawing accounts of provisions and pools match their requests, and a pool that starts over dilutes nobody |
| `PoolSharesAreDelegationsAlways` | `PoolSharesAreDelegations` |
| `StakeCoversProvisionsAlways` | `StakeCoversProvisions` |
| `SolventAlways` | `Solvent`: the contract holds what it owes |
| `PausedFreezesTheorem` | `PausedFreezes` |
| `SlashableUntilThawedTheorem` | `SlashableUntilThawed`: only what has thawed, or is slashed, leaves |
| `DelegatorsNeverDilutedTheorem` | `DelegatorsNeverDiluted`: but for slashes, no call lowers what a delegator's share is worth |
| `AcceptedPeriodTheorem` | `AcceptedPeriodWithinMaximum` |
| `TokensAlwaysAtHand` | `TokensAtHand`: the contract has the tokens of every withdrawal, slash and release of a delegator's requests |
| `WellLinkedAlways` | `WellLinked` |
| `ImplementsQueuesTheorem` | `ImplementsQueues`: every list implements `ItemQueue` |
| `PaymentsProofs` | |
| `EscrowConsistentAlways` | `EscrowConsistent`: accounts are covered, and thaw no more than they have |
| `PaymentsPassThroughAlways` | `PaymentsPassThrough`: GraphPayments keeps nothing, and staking no more than it credits, but for what callers directed to them |
| `CollectedIsSignedAlways` | `CollectedIsSigned` |
| `CollectionsConsistentAlways` | `CollectionsConsistent`: the collector's totals are what left the escrow |
| `WithdrawnAfterNoticeTheorem` | `WithdrawnAfterNotice` |
| `SignersAreForLifeTheorem` | `SignersAreForLife`: a signer never changes payers, and is revoked no sooner than a whole thawing period after the last announcement |
| `CollectableIsGranted` | a RAV that is `Collectable` passes every check of the escrow, GraphPayments and staking (`Granted`), for every valid cut and every destination but the escrow itself |
| `DisputeManagerProofs` | |
| `DepositsAccountedAlways` | `DepositsAccounted`: the manager holds the deposits of pending disputes, and each is returned once |
| `LinkedResolvedTogetherAlways` | `LinkedResolvedTogether` |
| `RewardNeverBlocksSlashAlways` | `RewardNeverBlocksSlash` |
| `IssuanceAllocatorProofs` | |
| `AllocationCompleteAlways` | `AllocationComplete`: the rates of all targets add up to the issuance |
| `IssuanceConsistentAlways` | `IssuanceConsistent`: what is minted is accounted for, and within the highest rate |
| `NotifiedBeforeChangeTheorem` | `NotifiedBeforeChange` |
| `OperatorTasksProofs` | |
| `OraclesSoundAlways` | `OraclesSound`: a renewed indexer is eligible for the whole period, or as long as the shortest retention set meanwhile |
| `StatusTruthfulAlways` | `StatusTruthful` of `OperatorTasks`: "DISABLED" is right on a clock that is not ahead, "ACTIVE" on one that is not behind, once an oracle has reported |
| `RolloutProofs` | |
| `RolloutSafeAlways` | `RolloutSafe`: indexers are paid the configured rest between any two transactions, and the displays agree at the end |
| `GovernanceAlwaysKept` | `GovernanceKept` of every contract that was not handed over before the status proposed it, for a network that issues anything (section 6 has the other cases) |
| `CompletionStays` | `CompletionIsStable`: nothing undoes the verified end |
| `OperationsProofs` | |
| `BooksStaySound` | `BooksSound`: every entry of the address book stays readable, and is true of the code at its address; what it says of the current implementation is, unless a sync stopped between its two writes |
| `StatusStaysTruthful` | `StatusTruthful` of `ProxyDeployments`: "up to date" is so on the chain, under the same condition |
| `PendingStaysRecorded` | `PendingNeverLost` |
| `RecordsStaySound` | `RecordsSound`: no token is lost or made, a lock has its whole amount or nothing, recorded locks exist |
| `AcceptedLockStays` | `AcceptedLockKept`: no cancellation takes the tokens of an accepted lock |

Each proof has the same shape: an inductive invariant `IInv` (`TallyInv` for payments, `ListInv` for
lists, `LocksInv` for token locks), one lemma per call that the call keeps it, a lemma that
assembles them along `Next`, and theorems that derive the properties. TLC has checked each `IInv` as
an invariant of the component's run before. Why the properties need strengthening, and with what:

- **HorizonStaking.** Whether `deprovision` leaves a sound account depends on the requests in the
  list, so soundness of an account needs that its thawing shares are exactly the shares of the
  valid requests; that a new request keeps this needs that no request bears a future nonce; that
  `delegate` may start a pool over needs the link between shares and tokens, which a slash keeps
  only because it rounds down, and `undelegate` only because of the minimum that must be left.
  `IInv` is the conjunction of two sides, with the types of the other variables and `Solvent`:

      StakeSideInv:       every provision is sound and matches its requests (ProvisionInv), and
                          every provider's stake covers provisions and locked tokens (StakeInv)
      DelegationSideInv:  every pool is sound, matches its delegations and all request lists, and
                          starts over only when it is empty (PoolInv)

  A step touches one provision, one provider or one pool, or (a reprovision, a redelegation) two in
  turn. The lemmas of the first part say what each operation does to one account as a value
  (`ProvisionThaws`, `ProvisionSlashed`, `PoolUndelegates`, ...), and `UpdateProvision`,
  `UpdateStake` and `UpdatePool` lift this to the functions of all accounts. The arithmetic at the
  bottom is `RedeemSound`: redeeming a request at the price of the moment, rounded down, leaves the
  other requests covered. The action properties use that a traversal redeems exactly the expired
  prefix of the list, at no more than its price (`FulfillAtPrice`); `DelegatorsNeverDiluted`
  compares prices before and after as products, and a redelegation into the pool the tokens came
  from as two steps of that pool. Stating `SlashableUntilThawed` in terms of burned tokens turned
  out to be wrong while proving it: a slash whose proceeds all go to the verifier burns nothing. It
  speaks of the slash itself now.
- **LinkedList.** `WellLinked` speaks of chains of pointers; the invariant gives their closed form.
  The items of a list bear the last numbers given out, as many as the list counts, and each points
  to the next number; an item is stored when it is in a list. The loop of `traverse` is a recursive
  function whose turns are determined one by one (`TurnsStep`), and each turn takes the head off.
  The refinement then maps a list to the window of numbers it holds: adding an item appends to the
  window and traversing cuts it in front, so every step of the list is a step of the queue.
- **Payments.** The parts of a payment are naturals that add up to it (`SplitAddsUp`), so paying
  them out moves tokens between holders and leaves none with `GraphPayments` but what the caller
  directed there (`PayOutEffect`), which no later payment touches. The notice is inductive with
  `NoticeKept`: an account never thaws for less than the period since its thawing tokens last grew;
  that of a signer with `noticeAt`: as long as an announcement stands, its end is a whole thawing
  period after it. `CollectedIsSigned` holds because a total is only ever replaced by a larger
  signed one; `CollectionsConsistent` needs the escrow's record of the same tokens
  (`CollectionsMatchEscrow`).
- **DisputeManager.** A call may resolve two linked disputes one after the other, and is refused in
  between by nobody; so what a resolution keeps is stated of the books as a value (`Sound`), and a
  call is a chain of such steps. Deposits need both equations, of the manager and of every
  fisherman; the links need that two linked disputes differ in nothing but their attestations.
- **IssuanceAllocator.** `IssuanceAccounted` alone is not inductive: whether the offset of
  self-minted tokens can be deducted depends on it never exceeding what is pending
  (`TrackedIsPending`), unless the issuance was changed for blocks gone by; the upper bound needs
  that minting never gets ahead of the last block distributed (`MintedUpToLastBlock`) and that the
  blocks are in order. The division of a partial distribution in proportion of rates is bounded by
  `SumBounded` and `Quotient`.
- **OperatorTasks.** Nothing may rest on what a task has read, as it acts later. What carries the
  proof is what the contract checks itself (`RenewalKept`): an instance knows an indexer's last
  renewal, or nothing, once the period, or the shortest retention since, has passed. A retention
  that is lowered only lowers the latter, and one that is raised brings nobody back.
- **Gip0088Rollout.** A call is made long after a script decided on it, with anything in between.
  The invariant says of every list of calls that waits, in a file, in the Safe's queue or in a
  script, that each call will be due when it is made (`Waiting`): shares and oracles are set only
  where the configuration has some, and the allocator is integrated only when the RewardsManager has
  its part (`Fed`), unless the list itself starts with giving it. Lists that hand a contract over
  (`Handing`) exist only in a running script, and, unless the contract is in `hasty`, only for one
  whose governor has the role (`Granted`): the status proposed the transfer, and does so only then.
  These conditions are stable: no call takes back what any of them relies on (`Kept`), whoever makes
  it and in whatever order (`CallKeeps`). That a bundle executed by the Safe is all or nothing is an
  induction along the recursive function that models it (`SafeTurns`, `BundleKeeps`). Giving the
  RewardsManager its part first is the order of the script; in the documented order the same
  induction fails.
- **ProxyDeployments.** No two stores agree at all times: a script writes the chain, rocketh's
  record, the address book and a bundle one after the other, and may stop in between. `BooksSound`
  alone is not inductive, since sync and deploy copy into the book what they find in the records.
  The invariant asks of every store, on its own, that it only claims what is true of the
  implementations on the chain (`SoundMetadata`, `SoundBook`, `SoundRecord`, `SoundFile`); as these
  are never changed once deployed (`Extends`), every claim survives the steps of everybody else
  (`StoresStay`). To this comes what a running script relies on between two of its steps
  (`ScriptSound`): that the implementation it has deployed is of its own checkout and newer than
  the one pending (`HasDeployed`); and for shared implementations that the operator's record,
  where a script reads it, names the shared one (`RecordIsShared`), and that no proxy waits for
  one newer than that (`PendingOld`). That numbers of implementations only grow is
  what `PendingNeverLost` needs of a replacement. `StatusTruthful` then follows from the state
  alone: unless the entry is torn, a hash in the book is never wrong, only missing.
- **TokenLocks.** A task acts on a chain that has changed since it looked, and a batch waits for
  ever; so nothing is asked of what waits but its type, and all is asked of the chain: what is
  permitted conserves the tokens, lets no lock disappear and leaves an accepted one alone
  (`EffectSound`, `Keeps`). A batch is the same, transaction by transaction (`BatchSound`, along the
  recursive function that models all or nothing). `RecordsSound` needs that what a task has just
  created and not yet saved exists; it stays, as no lock is unmade, whoever acts before the file is
  written. The deposit of a batch is a natural number because it is made only if the manager is
  underfunded (`Prepared`).

**What the lemmas rest on.** `SumTheorems` proves what a sum over a finite set is (the fold of the
community modules, unfolded, split, updated and compared). Inductions over requests, intervals and
sets are arguments by a least counterexample (`LeastElement`, `FiniteSetMinimal`), since the provers
cannot instantiate the induction rules of the library. Recursive functions (the traversals of
`ThawRequests` and `LinkedList`, the bundles and lists of missing calls of the rollout, the batches
and remaining entries of the token locks) are shown to exist and to be determined by their equations
(`RecursionExists`, `UpToInduction`).

## 8. What is only model-checked, and what is not modelled

Only model-checked:

- Liveness under fairness, which TLAPS does not reach, and with it that what should be possible is
  (no theorem speaks of ENABLED): `ThawsComplete`, `CollectableIsPaid`,
  `DisputesEnd`, `EventuallyUpgraded`, `RolloutCompletes`, `RequestsTakeEffect`, `GoalsReached`. The
  state part of two of them is proved: `TokensAlwaysAtHand` says that no release of thawed stake
  fails for want of tokens, and `CollectableIsGranted` that nothing refuses a collectable RAV;
  `GrantedIsCollected` shows that the checks it names are all the guards of the call.

Not modelled: the components marked so in section 2. Beyond them, gas and its limits, the
encoding of messages and hashes, signatures, events, upgrades of the modelled contracts, and
reentrancy through the token, which is the protocol's own. Roles are modelled where a call's
effect depends on them (operators, verifiers, fishermen, payers, everything in the deployment
modules), and left out where they only say who may call. Of the deployment, fork mode, libraries,
listings (`roles:list`, `reo:indexers`, `ops/info.ts`) and `create-token-locks-simple` are left
out; the enumeration of roles, which is not atomic, a gap in the nonces of `NonceManager`, the
setters of the oracle's period and timeout, and writes of files that fail (but for the one of
`TearSync`) are not modelled.

## 9. Plan

Done: staking, payments, collector, disputes, list, issuance, the deployment of proxies, the
rollout, operator tasks and token locks. Every invariant and every action property that a run
checks is a theorem as well; what is left to TLC is liveness.

Modules, in order:

1. `RecurringCollector`: agreements over time; offers, updates and cancellations in any order;
   composed with `PaymentsEscrow` as `GraphTallyCollector` is. To show: a collection is within
   `getMaxNextClaim`, cancelled offers stay cancelled, seconds are paid once.
   `RecurringAgreementManager` on top of it: the sums and deficits it keeps incrementally.
2. `StakeClaims` (with `ProvisionTracker`), `SubgraphAllocations` (allocation, POIs, resizing,
   closing, indexing agreements) and `RewardsManager`, composed: rewards paid, reclaimed and
   dropped add up, allocations are covered or shrink.
3. `Curation` and GNS; `L1L2Transfer` with the bridge, where messages are delayed and reordered,
   and an abstract specification of a transfer that happens once.
4. `GraphTokenLock`, vesting; and the small contracts (epochs, votes, governance).
