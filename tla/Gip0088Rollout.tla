--------------------------- MODULE Gip0088Rollout ---------------------------
(***************************************************************************)
(* The rollout of GIP-0088 by the scripts of packages/deployment/deploy.    *)
(* The deployer configures the new contracts and hands them to the          *)
(* governor; the governor upgrades the existing proxies, connects the       *)
(* IssuanceAllocator to the RewardsManager, and moves a share of the        *)
(* issuance to the RecurringAgreementManager.                               *)
(*                                                                          *)
(* Every script reads what the chain has, and sends, or saves in a bundle,  *)
(* the transactions that are missing.  It may stop between any two of them. *)
(* A transaction is a pair <<contract, what>>; but for the allocations and  *)
(* the handover, its effect is that the pair is applied.                    *)
(***************************************************************************)
EXTENDS Integers, Sequences, SequencesExt

CONSTANTS
  Networks,     \* the networks, with their configuration
  MaxQueue,     \* bound: bundles waiting in the Safe
  MaxCrashes    \* bound: scripts that stop half way, per kind of governor

NewContracts == {"IA", "DA", "RAM", "Reclaim", "REO"}

(* The governor's key is one of the accounts of the scripts ("sign"), is    *)
(* given to deploy:execute-governance ("key"), or it is a Safe.             *)
Governors == {"sign", "key", "safe"}

(* fresh: the new contracts just deployed, the others are set up already.   *)
(* rate, share: RM.issuancePerBlock, and the part of it that is configured  *)
(* for the agreement manager.  oracle, closeGuard: what is configured.      *)
Network == [governor: Governors, fresh: SUBSET NewContracts, rate: Nat, share: Nat,
            oracle: BOOLEAN, closeGuard: BOOLEAN]

ASSUME RolloutAssumption ==
  /\ Networks \subseteq Network
  /\ MaxQueue \in Nat /\ MaxCrashes \in [Governors -> Nat]

(* The bundles in txs/; "upgrade-RewardsManager" stands for those that the  *)
(* components save, one per proxy with a pending implementation.            *)
Files == {"gip-0088-upgrades", "gip-0088-issuance-connect", "gip-0088-issuance-allocate",
          "gip-0088-eligibility-integrate", "gip-0088-issuance-close-guard",
          "upgrade-RewardsManager"}
NoFile == ""

VARIABLES
  network,  \* never changes
  chain,    \* what the transactions have done
  bundles,  \* the files in txs/, empty where there is none
  queue,    \* the bundles in the Safe, in nonce order
  script,   \* the script that is running
  crashes,
  hasty     \* history: the contracts handed over while no status proposed it

vars == <<network, chain, bundles, queue, script, crashes, hasty>>

(***************************************************************************)
(* Transactions.                                                            *)
(***************************************************************************)

(* The roles of the governor and of the pause guardian.                     *)
RoleGrants(c) == <<<<c, "governor">>, <<c, "pause">>>>

(* What 04_configure of each contract sets, in order.  (The periods of the  *)
(* oracle have their configured values from its initialize on.)             *)
AllocatorConfiguration  == <<<<"IA", "rate">>>> \o RoleGrants("IA")
AllocationConfiguration == RoleGrants("DA")
ManagerConfiguration ==
  <<<<"RAM", "collector">>, <<"RAM", "dataService">>>> \o RoleGrants("RAM")
    \o <<<<"RAM", "allocator">>>>
ReclaimConfiguration    == RoleGrants("Reclaim")
OracleConfiguration ==
  <<<<"REO", "pause">>, <<"REO", "operator">>, <<"REO", "governor">>>>

Configuration ==
  [IA |-> AllocatorConfiguration, DA |-> AllocationConfiguration, RAM |-> ManagerConfiguration,
   Reclaim |-> ReclaimConfiguration, REO |-> OracleConfiguration]

Upgrade        == <<"RM", "upgrade">>
PauseGuardian  == <<"RC", "pauseGuardian">>
ReclaimAddress == <<"RM", "reclaim">>
RevertSetting  == <<"RM", "revertOnIneligible">>
RMOracle       == <<"RM", "oracle">>
RAMOracle      == <<"RAM", "oracle">>
Integration    == <<"RM", "allocator">>
Minter         == <<"GT", "minter">>
DefaultTarget  == <<"IA", "defaultTarget">>
CloseGuard     == <<"SS", "closeGuard">>

(* Targets get all of the issuance, or what the configuration says.         *)
AllToRM   == <<"IA", "allToRM">>
RestToRM  == <<"IA", "restToRM">>
ShareToRAM == <<"IA", "shareToRAM">>
Allocations == {AllToRM, RestToRM, ShareToRAM}

Revoke(c)        == <<c, "revokeDeployer">>
TransferAdmin(c) == <<c, "transferProxyAdmin">>

Applied(call) == call \in chain.applied
Upgraded      == Applied(Upgrade)

(* Those of the calls that are still to be applied, in their order.         *)
Missing(calls) ==
  LET missing[i \in 0..Len(calls)] ==
        IF i = 0 THEN <<>>
        ELSE IF Applied(calls[i]) THEN missing[i-1] ELSE Append(missing[i-1], calls[i])
  IN  missing[Len(calls)]

(* IA.getIssuancePerBlock, set from the rate of the RewardsManager.         *)
AllocatorRate(state) == IF <<"IA", "rate">> \in state.applied THEN network.rate ELSE 0

Target(call) == IF call = ShareToRAM THEN "RAM" ELSE "RM"
Other(target) == IF target = "RAM" THEN "RM" ELSE "RAM"
Rate(call) == CASE call = ShareToRAM -> network.share
                [] call = RestToRM   -> network.rate - network.share
                [] call = AllToRM    -> network.rate

(* Mutant: a target may get more than what the others leave.                *)
Permitted_AnyRate(state, call, sender) ==
  LET contract == call[1] IN
  /\ IF call = TransferAdmin(contract) THEN sender = "deployer" /\ contract \in state.deployerOwns
     ELSE IF sender = "deployer" THEN contract \in state.deployerGoverns
     ELSE contract \in NewContracts => <<contract, "governor">> \in state.applied
  /\ contract \in {"RM", "SS"} \/ call \in {AllToRM, RestToRM} =>
       call = Upgrade \/ Upgrade \in state.applied

(* Access control, and what else makes a transaction revert.                *)
Permitted(state, call, sender) ==
  LET contract == call[1] IN
  /\ IF call = TransferAdmin(contract) THEN sender = "deployer" /\ contract \in state.deployerOwns
     ELSE IF sender = "deployer" THEN contract \in state.deployerGoverns
     ELSE contract \in NewContracts => <<contract, "governor">> \in state.applied
  /\ contract \in {"RM", "SS"} \/ call \in {AllToRM, RestToRM} =>
       call = Upgrade \/ Upgrade \in state.applied
  /\ call \in Allocations =>
       Rate(call) + state.allocation[Other(Target(call))] <= AllocatorRate(state)

Effect(state, call) ==
  LET contract == call[1] IN
  IF call \in Allocations THEN [state EXCEPT !.allocation[Target(call)] = Rate(call)]
  ELSE IF call = Revoke(contract) THEN [state EXCEPT !.deployerGoverns = @ \ {contract}]
  ELSE IF call = TransferAdmin(contract) THEN [state EXCEPT !.deployerOwns = @ \ {contract}]
  ELSE [state EXCEPT !.applied = @ \union {call}]

(***************************************************************************)
(* What the scripts check.                                                  *)
(***************************************************************************)

RolesGranted(c) == \A i \in 1..2 : Applied(RoleGrants(c)[i])

(* An allocator is not configured as long as there is no rate to take over. *)
AllocatorConfigured ==
  network.rate > 0 /\ AllocatorRate(chain) = network.rate /\ RolesGranted("IA")
AllocationConfigured == RolesGranted("DA")
ManagerConfigured ==
  /\ Applied(<<"RAM", "collector">>) /\ Applied(<<"RAM", "dataService">>)
  /\ Applied(<<"RAM", "allocator">>) /\ RolesGranted("RAM")
ReclaimConfigured == RolesGranted("Reclaim")
OracleConfigured  == Missing(OracleConfiguration) = <<>>

Configured(c) ==
  CASE c = "IA"  -> AllocatorConfigured [] c = "DA" -> AllocationConfigured
    [] c = "RAM" -> ManagerConfigured   [] c = "Reclaim" -> ReclaimConfigured
    [] c = "REO" -> OracleConfigured

Transferred(c) == c \notin chain.deployerGoverns /\ c \notin chain.deployerOwns

(* Mutant: only a contract nothing is set on counts.                        *)
ConfigurationIssue_NothingSet(c) == Missing(Configuration[c]) = Configuration[c]

(* What the status of gip-0088:upgrade counts as a configuration issue: an  *)
(* IA that waits for the rate of the RewardsManager is not one.             *)
ConfigurationIssue(c) == ~Configured(c) /\ ~(c = "IA" /\ network.rate = 0)
SettingsIssue == Upgraded /\ Missing(<<ReclaimAddress, RevertSetting>>) # <<>>

(* The step that it proposes, which is also the check of gate G3.           *)
NextStep ==
  LET issues == SettingsIssue \/ \E c \in NewContracts : ConfigurationIssue(c)
  IN  IF issues /\ chain.deployerOwns # {} THEN "configure"
      ELSE IF \E c \in NewContracts : ~Transferred(c) THEN "transfer"
      ELSE IF issues \/ ~Upgraded THEN "upgrade"
      ELSE "done"

(* The configured rates add up to the rate of the RewardsManager.           *)
AllocationsValid == network.rate >= network.share

RatesAligned == AllocatorRate(chain) > 0 /\ AllocatorRate(chain) = network.rate
RMAllocationShape == chain.allocation["RM"] > 0
(* With a default target nothing is left unallocated.                       *)
FullyAllocated ==
  /\ AllocatorRate(chain) > 0
  /\ Applied(DefaultTarget) \/ chain.allocation["RM"] + chain.allocation["RAM"] = network.rate

(* checkIssuanceConnectComplete.                                            *)
ConnectComplete ==
  Applied(Integration) /\ Applied(Minter) /\ RatesAligned /\ RMAllocationShape /\ FullyAllocated

OraclesMatch == network.oracle => Applied(RMOracle) /\ Applied(RAMOracle)
AllocationsMatch ==
  chain.allocation = [RM |-> network.rate - network.share, RAM |-> network.share]

(* What 09_end verifies.                                                    *)
EndVerified ==
  /\ Upgraded /\ Applied(RevertSetting)
  /\ ConnectComplete /\ OraclesMatch /\ AllocationsMatch

(***************************************************************************)
(* What the status of a component shows: per check "ok", "problem", or      *)
(* "none" where the check does not apply yet.                               *)
(***************************************************************************)
Mark(ok) == IF ok THEN "ok" ELSE "problem"
Shows(component, mark) == \E check \in DOMAIN component : component[check] = mark

(* The oracle must be the configured one or, without one, not be set.       *)
OracleCheck(setting) == Mark(Applied(setting) = network.oracle)

(* What the RewardsManager issues by, with the allocator or without.        *)
AllocatedRate == IF Applied(Integration) THEN chain.allocation["RM"] ELSE network.rate

(* The one before the upgrade has none of the rest; an allocator or a       *)
(* reclaim address that is not set is no problem here.                      *)
RewardsManagerChecks ==
  IF ~Upgraded THEN [issuanceTarget |-> "problem"]
  ELSE [issuanceTarget |-> "ok",
        rawRate       |-> Mark(network.rate > 0),
        allocatedRate |-> Mark(AllocatedRate > 0),
        allocator     |-> IF Applied(Integration) THEN "ok" ELSE "none",
        oracle        |-> OracleCheck(RMOracle),
        revertOnIneligible |-> Mark(Applied(RevertSetting)),
        reclaim       |-> IF Applied(ReclaimAddress) THEN "ok" ELSE "none"]

(* The default target is counted among the targets before it is set, so the *)
(* check of it always passes.                                               *)
AllocatorChecks ==
  [issuanceTarget |-> Mark(Upgraded),
   integrated     |-> IF Upgraded THEN Mark(Applied(Integration)) ELSE "none",
   minter         |-> IF Upgraded THEN Mark(Applied(Minter)) ELSE "none",
   defaultTarget  |-> "ok",
   allocated      |-> IF AllocatorRate(chain) = 0 THEN "none" ELSE Mark(FullyAllocated)]

(* Just the configured operator has the role.                               *)
OperatorCheck == Mark(Applied(<<"REO", "operator">>))

(* Validation and reports are left to the operators of the oracle.          *)
OracleChecks ==
  [governor   |-> Mark(Applied(<<"REO", "governor">>)),
   pause      |-> Mark(Applied(<<"REO", "pause">>)),
   operator   |-> OperatorCheck,
   integrated |-> IF Upgraded THEN Mark(Applied(RMOracle)) ELSE "none"]

ReclaimChecks == [configured |-> Mark(Upgraded /\ Applied(ReclaimAddress))]

ManagerChecks ==
  [collector   |-> Mark(Applied(<<"RAM", "collector">>)),
   dataService |-> Mark(Applied(<<"RAM", "dataService">>)),
   allocator   |-> Mark(Applied(<<"RAM", "allocator">>)),
   oracle      |-> OracleCheck(RAMOracle)]

CollectorChecks == [pauseGuardian |-> Mark(Applied(PauseGuardian))]

ComponentChecks ==
  [RM |-> RewardsManagerChecks, IA |-> AllocatorChecks, REO |-> OracleChecks,
   Reclaim |-> ReclaimChecks, RAM |-> ManagerChecks, RC |-> CollectorChecks]

(* What the status of GIP-0088 shows of the steps after the upgrade.        *)
OracleStatusLine(setting) == IF Upgraded THEN OracleCheck(setting) ELSE "none"

PhaseChecks ==
  [upgrade    |-> Mark(Upgraded),
   rmOracle   |-> OracleStatusLine(RMOracle),
   ramOracle  |-> OracleStatusLine(RAMOracle),
   connect    |-> IF Upgraded THEN Mark(ConnectComplete) ELSE "none",
   closeGuard |-> IF Applied(CloseGuard) THEN "ok" ELSE "none"]

(* The owner of a ProxyAdmin other than the governor is a warning.          *)
OwnerWarning(c) == c \in chain.deployerOwns

(***************************************************************************)
(* Scripts.                                                                 *)
(***************************************************************************)
Idle == [step |-> "idle", todo |-> <<>>, sender |-> "", file |-> NoFile, moves |-> NoFile]

(* Transactions sent one by one, after which a file, if any, is moved away. *)
Send(calls, sender, moves) ==
  script' = [step |-> "send", todo |-> calls, sender |-> sender, file |-> NoFile, moves |-> moves]

Unchanged == UNCHANGED <<network, chain, queue, crashes, hasty>>

(* 04_configure of a new contract.                                          *)
Configure(c) ==
  /\ script = Idle
  /\ c \in chain.deployerGoverns
  /\ c = "IA" => network.rate > 0
  /\ Send(Missing(Configuration[c]), "deployer", NoFile)
  /\ UNCHANGED bundles /\ Unchanged

(* 04_configure of the RecurringCollector.                                  *)
ConfigureCollector ==
  /\ script = Idle
  /\ network.governor = "sign"
  /\ Send(Missing(<<PauseGuardian>>), "governor", NoFile)
  /\ UNCHANGED bundles /\ Unchanged

(* Operators may run the transfer when the status does not propose it.      *)
HandOver(c) ==
  hasty' = IF NextStep = "transfer" \/ c \notin chain.deployerGoverns THEN hasty
           ELSE hasty \union {c}

(* Mutant: without the role, the ProxyAdmin is taken to be transferred too. *)
Transfer_RoleDecides(c) ==
  /\ script = Idle
  /\ c \in chain.deployerGoverns
  /\ Send(<<Revoke(c), TransferAdmin(c)>>, "deployer", NoFile)
  /\ HandOver(c)
  /\ UNCHANGED <<network, chain, bundles, queue, crashes>>

(* Nothing to do when the deployer does not own the ProxyAdmin any more.    *)
TransferProxyAdminOwnership(c) ==
  IF c \in chain.deployerOwns THEN <<TransferAdmin(c)>> ELSE <<>>

(* What the transfer of governance sends for a contract.                    *)
Transfer(c) ==
  /\ script = Idle
  /\ Send((IF c \in chain.deployerGoverns THEN <<Revoke(c)>> ELSE <<>>)
            \o TransferProxyAdminOwnership(c),
          "deployer", NoFile)
  /\ HandOver(c)
  /\ UNCHANGED <<network, chain, bundles, queue, crashes>>

(* 05_transfer_governance (06 of the allocator): only the one of the oracle *)
(* checks that its contract is configured.                                  *)
AllocatorTransfer  == Transfer("IA")
AllocationTransfer == Transfer("DA")
ManagerTransfer    == Transfer("RAM")
ReclaimTransfer    == Transfer("Reclaim")
OracleTransfer     == OracleConfigured /\ Transfer("REO")

TransferGovernance(c) ==
  \/ c = "IA" /\ AllocatorTransfer
  \/ c = "DA" /\ AllocationTransfer
  \/ c = "RAM" /\ ManagerTransfer
  \/ c = "Reclaim" /\ ReclaimTransfer
  \/ c = "REO" /\ OracleTransfer

(* Transactions of the governor: the bundle of an earlier run is removed;   *)
(* then they are sent, or saved in a new one.                               *)
Govern(file, calls, moves) ==
  /\ bundles' = [bundles EXCEPT ![file] = <<>>]
  /\ script' = [step |-> IF network.governor = "sign" THEN "send" ELSE "save", todo |-> calls,
                sender |-> "governor", file |-> file, moves |-> moves]

(* 02_upgrade of the components, which 04_upgrade follows if it is part of  *)
(* the run.                                                                 *)
UpgradeComponents ==
  /\ script = Idle
  /\ bundles' = [bundles EXCEPT !["upgrade-RewardsManager"] = Missing(<<Upgrade>>)]
  /\ script' \in {Idle, [Idle EXCEPT !.step = "gather"]}
  /\ Unchanged

(* The RewardsManager needs its new code, if only earlier in the bundle.    *)
ExistingContractConfig(gathered) ==
  <<PauseGuardian>> \o
    (IF Upgraded \/ gathered # <<>> THEN <<ReclaimAddress, RevertSetting>> ELSE <<>>)

(* Nothing for an IA that has no rate to take over.                         *)
DeferredNewContractConfig ==
  (IF network.rate = 0 THEN <<>> ELSE AllocatorConfiguration)
    \o AllocationConfiguration \o ManagerConfiguration
    \o ReclaimConfiguration \o OracleConfiguration

(* 04_upgrade: their bundles, settings of existing contracts, and what the  *)
(* deployer left undone on the new ones.                                    *)
UpgradeAll ==
  LET gathered == bundles["upgrade-RewardsManager"]
      calls    == gathered \o Missing(ExistingContractConfig(gathered))
                    \o Missing(DeferredNewContractConfig)
  IN  /\ script.step = "gather"
      /\ IF calls = <<>>
           THEN /\ bundles' = [bundles EXCEPT !["gip-0088-upgrades"] = <<>>]
                /\ script' = Idle
           ELSE Govern("gip-0088-upgrades", calls,
                       IF gathered # <<>> THEN "upgrade-RewardsManager" ELSE NoFile)
      /\ Unchanged

(* GIP_0088_ASSUME_UPGRADED: a bundle generated before the upgrade is       *)
(* executed, to follow it in the Safe; nothing is taken to be done.         *)
MaySequence == network.governor = "safe" /\ ~Upgraded

(* Mutant: in the order of the documentation, the target after the others.  *)
Connect_AllocatesLast(sequenced) ==
  /\ script = Idle
  /\ sequenced => MaySequence
  /\ sequenced \/ (Upgraded /\ ~ConnectComplete)
  /\ Applied(Integration) \/ RatesAligned
  /\ Govern("gip-0088-issuance-connect",
       Missing(<<Minter, Integration>>)
         \o (IF ~sequenced /\ RMAllocationShape /\ FullyAllocated THEN <<>> ELSE <<AllToRM>>)
         \o Missing(<<DefaultTarget>>),
       NoFile)
  /\ Unchanged

(* issuance_connect.                                                        *)
Connect(sequenced) ==
  /\ script = Idle
  /\ sequenced => MaySequence
  /\ sequenced \/ (Upgraded /\ ~ConnectComplete)
  /\ \/ ~sequenced /\ Applied(Integration)
     \/ sequenced /\ AllocatorRate(chain) = network.rate
     \/ RatesAligned
  /\ Govern("gip-0088-issuance-connect",
       (IF ~sequenced /\ RMAllocationShape /\ FullyAllocated THEN <<>> ELSE <<AllToRM>>)
         \o (IF sequenced THEN <<Integration, Minter>> ELSE Missing(<<Integration, Minter>>))
         \o Missing(<<DefaultTarget>>),
       NoFile)
  /\ Unchanged

(* issuance_allocate: decreases go first.  The deployer may still do it.    *)
Allocate ==
  LET rmDelta  == network.rate - network.share - chain.allocation["RM"]
      ramDelta == network.share - chain.allocation["RAM"]
      toRM     == IF rmDelta = 0 THEN <<>> ELSE <<RestToRM>>
      toRAM    == IF ramDelta = 0 THEN <<>> ELSE <<ShareToRAM>>
      calls    == IF rmDelta <= ramDelta THEN toRM \o toRAM ELSE toRAM \o toRM
  IN  /\ script = Idle
      /\ AllocationsValid
      /\ calls # <<>>
      /\ IF "IA" \in chain.deployerGoverns
           THEN Send(calls, "deployer", NoFile) /\ UNCHANGED bundles
           ELSE Govern("gip-0088-issuance-allocate", calls, NoFile)
      /\ Unchanged

(* eligibility_integrate: a RewardsManager without the getter is skipped.   *)
Integrate(sequenced) ==
  LET calls == IF ~network.oracle THEN <<>>
               ELSE IF sequenced THEN <<RMOracle, RAMOracle>>
               ELSE Missing((IF Upgraded THEN <<RMOracle>> ELSE <<>>) \o <<RAMOracle>>)
  IN  /\ script = Idle
      /\ sequenced => MaySequence
      /\ IF calls = <<>>
           THEN /\ bundles' = [bundles EXCEPT !["gip-0088-eligibility-integrate"] = <<>>]
                /\ UNCHANGED script
           ELSE Govern("gip-0088-eligibility-integrate", calls, NoFile)
      /\ Unchanged

(* issuance_close_guard.                                                    *)
GuardClosing ==
  /\ script = Idle
  /\ Upgraded /\ network.closeGuard /\ ~Applied(CloseGuard)
  /\ Govern("gip-0088-issuance-close-guard", <<CloseGuard>>, NoFile)
  /\ Unchanged

(* deploy:execute-governance with the governor's key, for one of the files. *)
Execute(file) ==
  /\ script = Idle
  /\ network.governor = "key"
  /\ bundles[file] # <<>>
  /\ Send(bundles[file], "governor", file)
  /\ UNCHANGED bundles /\ Unchanged

(* A transaction that would revert stops the script.                        *)
SendNext ==
  /\ script.step = "send" /\ script.todo # <<>>
  /\ IF Permitted(chain, Head(script.todo), script.sender)
       THEN /\ chain' = Effect(chain, Head(script.todo))
            /\ script' = [script EXCEPT !.todo = Tail(@)]
       ELSE script' = Idle /\ UNCHANGED chain
  /\ UNCHANGED <<network, bundles, queue, crashes, hasty>>

SaveBundle ==
  /\ script.step = "save"
  /\ bundles' = [bundles EXCEPT ![script.file] = script.todo]
  /\ script' = [script EXCEPT !.step = "send", !.todo = <<>>]
  /\ Unchanged

(* The bundle executed goes to executed/, those gathered to incorporated/.  *)
EndScript ==
  /\ script.step = "send" /\ script.todo = <<>>
  /\ bundles' = [file \in Files |-> IF file = script.moves THEN <<>> ELSE bundles[file]]
  /\ script' = Idle
  /\ Unchanged

Crash ==
  /\ script # Idle
  /\ crashes < MaxCrashes[network.governor]
  /\ crashes' = crashes + 1
  /\ script' = Idle
  /\ UNCHANGED <<network, chain, bundles, queue, hasty>>

(***************************************************************************)
(* The Safe.  A file stays in txs/ and may be proposed again.               *)
(***************************************************************************)
Propose(file) ==
  /\ network.governor = "safe"
  /\ bundles[file] # <<>> /\ bundles[file] \notin ToSet(queue)
  /\ Len(queue) < MaxQueue
  /\ queue' = Append(queue, bundles[file])
  /\ UNCHANGED <<network, chain, bundles, script, crashes, hasty>>

(* All of the transactions of a bundle or, if one reverts, none.            *)
SafeExecutes ==
  LET calls == Head(queue)
      after[i \in 0..Len(calls)] ==
        IF i = 0 THEN [reverts |-> FALSE, state |-> chain]
        ELSE IF after[i-1].reverts \/ ~Permitted(after[i-1].state, calls[i], "governor")
               THEN [reverts |-> TRUE, state |-> chain]
               ELSE [reverts |-> FALSE, state |-> Effect(after[i-1].state, calls[i])]
  IN  /\ queue # <<>>
      /\ chain' = after[Len(calls)].state
      /\ queue' = Tail(queue)
      /\ UNCHANGED <<network, bundles, script, crashes, hasty>>

(***************************************************************************)
(* Specification.                                                           *)
(***************************************************************************)
Init ==
  /\ network \in Networks
  /\ chain = [applied |-> UNION {{Configuration[c][i] : i \in DOMAIN Configuration[c]} :
                                    c \in NewContracts \ network.fresh},
              deployerGoverns |-> network.fresh, deployerOwns |-> network.fresh,
              allocation |-> [RM |-> 0, RAM |-> 0]]
  /\ bundles = [file \in Files |-> <<>>]
  /\ queue = <<>>
  /\ script = Idle
  /\ crashes = 0
  /\ hasty = {}

ScriptStep == UpgradeAll \/ SendNext \/ SaveBundle \/ EndScript

Next ==
  \/ ScriptStep
  \/ \E c \in NewContracts : Configure(c) \/ TransferGovernance(c)
  \/ ConfigureCollector \/ UpgradeComponents \/ Allocate \/ GuardClosing
  \/ \E sequenced \in BOOLEAN : Connect(sequenced) \/ Integrate(sequenced)
  \/ \E file \in Files : Execute(file) \/ Propose(file)
  \/ SafeExecutes
  \/ Crash

Spec == Init /\ [][Next]_vars

(* The next goal.  The allocation is run beside the others: the status      *)
(* cannot tell whether it is done and proposes to run it.                   *)
Goal ==
  IF NextStep # "done" THEN "gip-0088-upgrades"
  ELSE IF ~ConnectComplete THEN "gip-0088-issuance-connect"
  ELSE IF ~OraclesMatch THEN "gip-0088-eligibility-integrate"
  ELSE "gip-0088-issuance-close-guard"

UpgradeStep == UpgradeComponents /\ script'.step = "gather"

(* The status also lists what is left for a transaction of the governor.    *)
ConfigureStep ==
  IF \E c \in chain.deployerGoverns : ConfigurationIssue(c)
    THEN \E c \in NewContracts : ConfigurationIssue(c) /\ Configure(c)
    ELSE UpgradeStep

TransferStep == \E c \in NewContracts : ~Transferred(c) /\ TransferGovernance(c)

RunScript ==
  CASE NextStep = "configure" -> ConfigureStep
    [] NextStep = "transfer"  -> TransferStep
    [] NextStep = "upgrade"   -> UpgradeStep
    [] NextStep = "done"      ->
         CASE Goal = "gip-0088-issuance-connect"      -> Connect(FALSE)
           [] Goal = "gip-0088-eligibility-integrate" -> Integrate(FALSE)
           [] Goal = "gip-0088-issuance-close-guard"  -> GuardClosing

RunBundle(goal) == \E file \in Files : file = goal /\ (Execute(file) \/ Propose(file))

(* A started script goes on, the Safe executes what is queued, and the      *)
(* operators keep running the next script and the allocation, and executing *)
(* their bundles.                                                           *)
LiveSpec ==
  /\ Spec
  /\ WF_vars(ScriptStep) /\ WF_vars(SafeExecutes)
  /\ SF_vars(RunScript) /\ SF_vars(RunBundle(Goal))
  /\ SF_vars(NextStep = "done" /\ Allocate)
  /\ SF_vars(NextStep = "done" /\ RunBundle("gip-0088-issuance-allocate"))

(***************************************************************************)
(* Properties.                                                              *)
(***************************************************************************)
Calls ==
  (UNION {{Configuration[c][i] : i \in DOMAIN Configuration[c]} : c \in NewContracts})
  \union {Revoke(c) : c \in NewContracts} \union {TransferAdmin(c) : c \in NewContracts}
  \union Allocations
  \union {Upgrade, PauseGuardian, ReclaimAddress, RevertSetting, RMOracle, RAMOracle,
          Integration, Minter, DefaultTarget, CloseGuard}

TypeOK ==
  /\ network \in Networks
  /\ chain.applied \subseteq Calls
  /\ chain.deployerGoverns \subseteq network.fresh /\ chain.deployerOwns \subseteq network.fresh
  /\ chain.allocation \in [{"RM", "RAM"} -> 0..network.rate]
  /\ bundles \in [Files -> Seq(Calls)]
  /\ queue \in Seq(Seq(Calls)) /\ Len(queue) <= MaxQueue
  /\ script \in [step: {"idle", "gather", "send", "save"}, todo: Seq(Calls),
                 sender: {"", "deployer", "governor"},
                 file: Files \union {NoFile}, moves: Files \union {NoFile}]
  /\ crashes \in 0..MaxCrashes[network.governor]
  /\ hasty \subseteq NewContracts

Governed(c) == c \in chain.deployerGoverns \/ Applied(<<c, "governor">>)

(* Somebody can always govern a new contract: the deployer gives up its     *)
(* role only where the governor has it, whatever scripts stopped before, as *)
(* long as operators hand over only what the status proposes to hand over.  *)
(* The oracle needs no such care: its script checks the configuration.      *)
GovernanceKept ==
  \A c \in NewContracts : c \in hasty \ {"REO"} \/ Governed(c)

(* Curators and indexers never get less than the configured rest of the     *)
(* issuance, at no point between two transactions of the rollout.           *)
RewardsContinue == AllocatedRate >= network.rate - network.share

(* The displays do not contradict each other: where 09_end has verified the *)
(* end and the status has nothing left to propose, the status of no         *)
(* component shows a problem.  Two are excepted: no gate asks for the pause *)
(* guardian of the collector, and an oracle that is not to be integrated is *)
(* shown as a problem all the same.                                         *)
DisplaysAgree ==
  EndVerified /\ NextStep = "done" =>
    /\ \A c \in DOMAIN ComponentChecks :
         Shows(ComponentChecks[c], "problem") => c = "RC" \/ (c = "REO" /\ ~network.oracle)
    /\ ~Shows(PhaseChecks, "problem")
    /\ \A c \in NewContracts : ~OwnerWarning(c)

(* Every step of the rollout leaves a state its scripts know, that pays     *)
(* curators and indexers, and that is shown as what it is.                  *)
RolloutSafe == TypeOK /\ RewardsContinue /\ DisplaysAgree

(* Once the end of the rollout has been verified, no script that is run     *)
(* again, no bundle that is still around and no stopped script undoes it.   *)
CompletionIsStable == [][EndVerified => EndVerified']_vars

Complete ==
  /\ EndVerified
  /\ Applied(PauseGuardian) /\ Applied(ReclaimAddress)
  /\ network.closeGuard => Applied(CloseGuard)
  /\ NextStep = "done"
  /\ \A c \in DOMAIN ComponentChecks \ {"REO"} : ~Shows(ComponentChecks[c], "problem")

(* Whatever was run in whatever order and stopped where, the operators who  *)
(* go on as the status displays propose complete the rollout, unless a      *)
(* hasty handover left a contract nobody governs.  (The default target may  *)
(* stay unset: issuance_connect does not look at it once the rest is done.) *)
RolloutCompletes == <>(Complete \/ \E c \in NewContracts : ~Governed(c))

=============================================================================
