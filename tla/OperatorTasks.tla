---------------------------- MODULE OperatorTasks ----------------------------
(***************************************************************************)
(* The operators' tasks of packages/deployment/tasks: roles:grant,          *)
(* roles:revoke, reo:enable, reo:disable, reo:retention, reo:remove-expired *)
(* and deploy:execute-governance, on the instances of the eligibility       *)
(* oracle.  A task looks at the chain; when something is to be done, it     *)
(* sends the transaction if the deployer may, and else leaves a bundle in   *)
(* txs/ for the governor.  Tasks run side by side and may stop half way.    *)
(*                                                                          *)
(* The name of a bundle does not tell the contract whose role is granted:   *)
(* the tasks for two instances share it, and the later one replaces the     *)
(* bundle of the earlier one.                                               *)
(***************************************************************************)
EXTENDS EligibilityOracle, FiniteSets, Integers

CONSTANTS
  Instances,
  Deployer, Governor, Reporter,  \* the accounts; the reporter is the off-chain oracle
  Scenarios,  \* what the operators want, and from where they start
  FirstTime, MaxTime,  \* bounds: the time
  MaxSkew,             \* bound: how far a machine's clock is from the chain's
  MaxTasks             \* bound: tasks that run at the same time

NoCall == <<>>

Grant(i, role, account)  == <<i, "grantRole", role, account>>
Revoke(i, role, account) == <<i, "revokeRole", role, account>>
Validation(i, toggle)    == <<i, "setEligibilityValidation", toggle>>
Retention(i, period)     == <<i, "setIndexerRetentionPeriod", period>>
Removal(i, indexer)      == <<i, "removeExpiredIndexer", indexer>>

Calls == UNION {
  {Grant(i, r, a) : i \in Instances, r \in Roles, a \in Accounts},
  {Revoke(i, r, a) : i \in Instances, r \in Roles, a \in Accounts},
  {Validation(i, t) : i \in Instances, t \in {"on", "off"}},
  {Retention(i, p) : i \in Instances, p \in Retentions},
  {Removal(i, x) : i \in Instances, x \in Indexers}}

(* requests: what operators may ask for; goals: what they ask for until it  *)
(* is done; keyed: the deployer's key is configured; time, retention and    *)
(* members: the clock, the retention, and who has which role at the start.  *)
Scenario == [requests: SUBSET Calls, goals: SUBSET Calls, keyed: BOOLEAN,
             time: FirstTime .. MaxTime, retention: Retentions,
             members: [Instances -> [Roles -> SUBSET Accounts]]]

ASSUME TasksAssumption ==
  /\ {Deployer, Governor, Reporter} \subseteq Accounts
  /\ Scenarios \subseteq Scenario /\ \A s \in Scenarios : s.goals \subseteq s.requests
  /\ FirstTime \in Nat \ {0} /\ MaxTime \in Nat /\ MaxTasks \in Nat /\ MaxSkew \in Nat

VARIABLES
  scenario,   \* never changes
  oracles,    \* the contracts
  bundles,    \* the calls in txs/, one per file
  tasks,      \* the running tasks: <<call, what the task decided>>
  executing,  \* the call that deploy:execute-governance has executed
  renewal,    \* history: the last renewal of an indexer, also when it is removed since
  shortest,   \* history: the shortest retention in force since that renewal
  now

vars == <<scenario, oracles, bundles, tasks, executing, renewal, shortest, now>>

TypeOK ==
  /\ scenario \in Scenarios
  /\ oracles \in [Instances -> Oracle]
  /\ bundles \subseteq Calls
  /\ tasks \subseteq Calls \X {"send", "save"}
  /\ executing \in Calls \union {NoCall}
  /\ renewal \in [Instances -> [Indexers -> Nat]]
  /\ shortest \in [Instances -> [Indexers -> Nat]]
  /\ now \in FirstTime .. MaxTime
  /\ \A i \in Instances : oracles[i].tracked = {x \in Indexers : oracles[i].renewed[x] > 0}

Init ==
  /\ scenario \in Scenarios
  /\ oracles = [i \in Instances |->
       [validation |-> FALSE, retention |-> scenario.retention,
        lastUpdate |-> 0, renewed |-> [x \in Indexers |-> 0], tracked |-> {},
        members |-> scenario.members[i]]]
  /\ bundles = {} /\ tasks = {} /\ executing = NoCall
  /\ renewal = [i \in Instances |-> [x \in Indexers |-> 0]]
  /\ shortest = renewal
  /\ now = scenario.time

(***************************************************************************)
(* Transactions.                                                            *)
(***************************************************************************)

(* The role a call needs; removing an expired indexer needs none.           *)
Required(call) ==
  CASE call[2] \in {"grantRole", "revokeRole"} -> AdminOf(call[3])
    [] call[2] \in {"setEligibilityValidation", "setIndexerRetentionPeriod"} -> "OPERATOR"

Permitted(call, sender) ==
  call[2] = "removeExpiredIndexer" \/ HasRole(oracles[call[1]], Required(call), sender)

InEffect(call) ==
  LET oracle == oracles[call[1]] IN
  CASE call[2] = "grantRole"                 -> HasRole(oracle, call[3], call[4])
    [] call[2] = "revokeRole"                -> ~HasRole(oracle, call[3], call[4])
    [] call[2] = "setEligibilityValidation"  -> oracle.validation = (call[3] = "on")
    [] call[2] = "setIndexerRetentionPeriod" -> oracle.retention = call[3]
    [] call[2] = "removeExpiredIndexer"      -> call[3] \notin oracle.tracked

Effect(oracle, call) ==
  CASE call[2] = "grantRole"                 -> [oracle EXCEPT !.members[call[3]] = @ \union {call[4]}]
    [] call[2] = "revokeRole"                -> [oracle EXCEPT !.members[call[3]] = @ \ {call[4]}]
    [] call[2] = "setEligibilityValidation"  -> [oracle EXCEPT !.validation = (call[3] = "on")]
    [] call[2] = "setIndexerRetentionPeriod" -> [oracle EXCEPT !.retention = call[3]]
    [] call[2] = "removeExpiredIndexer"      -> RemoveExpiredIndexer(oracle, call[3], now)

Least(m, n) == IF m < n THEN m ELSE n

(* A transaction that is not permitted reverts.                             *)
Transaction(call, sender) ==
  /\ oracles' = IF Permitted(call, sender) THEN [oracles EXCEPT ![call[1]] = Effect(@, call)]
                ELSE oracles
  /\ shortest' = [i \in Instances |-> [x \in Indexers |->
                    Least(shortest[i][x], oracles'[i].retention)]]

(***************************************************************************)
(* The tasks.                                                               *)
(***************************************************************************)

(* txName: the instance is in the names of reo:* only.                      *)
FileOf(call) ==
  CASE call[2] \in {"grantRole", "revokeRole"} -> <<call[2], call[3], call[4]>>
    [] call[2] = "setEligibilityValidation"    -> call
    [] call[2] = "setIndexerRetentionPeriod"   -> <<call[1], call[2]>>

(* Mutant: a bundle that waits is not replaced.                             *)
SaveBundle_Keeps(call) ==
  bundles' = IF \E other \in bundles : FileOf(other) = FileOf(call) THEN bundles
             ELSE bundles \union {call}

(* claimBundleSlot, and the builder's saveToFile.                           *)
SaveBundle(call) == bundles' = {b \in bundles : FileOf(b) # FileOf(call)} \union {call}

(* resolveDeployer: without a key, tasks can only save bundles.             *)
ResolvedDeployer == IF scenario.keyed THEN {Deployer} ELSE {}

(* hasAdminRole, or accountHasRole, of the deployer.                        *)
CanExecuteDirectly(call) ==
  \E deployer \in ResolvedDeployer : HasRole(oracles[call[1]], Required(call), deployer)

Decide(call, decision) ==
  /\ Cardinality(tasks) < MaxTasks
  /\ \A t \in tasks : t[1] # call
  /\ tasks' = tasks \union {<<call, decision>>}
  /\ UNCHANGED <<scenario, oracles, bundles, executing, renewal, shortest, now>>

(* executeOrSaveGovernance; the transaction or the file comes later.        *)
ExecuteOrSave(call) == Decide(call, IF CanExecuteDirectly(call) THEN "send" ELSE "save")

(* A task ends with "No action needed" when it has nothing to do.           *)
RunGrantTask(call)      == call[2] = "grantRole" /\ ~InEffect(call) /\ ExecuteOrSave(call)
RunRevokeTask(call)     == call[2] = "revokeRole" /\ ~InEffect(call) /\ ExecuteOrSave(call)
RunValidationTask(call) == call[2] = "setEligibilityValidation" /\ ~InEffect(call) /\ ExecuteOrSave(call)
RunRetentionTask(call)  == call[2] = "setIndexerRetentionPeriod" /\ ~InEffect(call) /\ ExecuteOrSave(call)

(* What the clock of an operator's machine may show.                        *)
LocalTimes == (now - MaxSkew) .. (now + MaxSkew)

(* reo:remove-expired needs no role, and a key; it goes by the local clock.  *)
RunRemovalTask(call) ==
  LET oracle == oracles[call[1]] IN
  /\ call[2] = "removeExpiredIndexer"
  /\ oracle.renewed[call[3]] # 0
  /\ \E local \in LocalTimes : local >= oracle.renewed[call[3]] + oracle.retention
  /\ ResolvedDeployer # {}
  /\ Decide(call, "send")

RunTask(call) ==
  \/ RunGrantTask(call) \/ RunRevokeTask(call)
  \/ RunValidationTask(call) \/ RunRetentionTask(call)
  \/ RunRemovalTask(call)

SendTransaction(call) ==
  /\ <<call, "send">> \in tasks
  /\ tasks' = tasks \ {<<call, "send">>}
  /\ Transaction(call, Deployer)
  /\ UNCHANGED <<scenario, bundles, executing, renewal, now>>

SaveForGovernance(call) ==
  /\ <<call, "save">> \in tasks
  /\ tasks' = tasks \ {<<call, "save">>}
  /\ SaveBundle(call)
  /\ UNCHANGED <<scenario, oracles, executing, renewal, shortest, now>>

FinishTask(call) == SendTransaction(call) \/ SaveForGovernance(call)

TaskDies(call) ==
  /\ \E decision \in {"send", "save"} : <<call, decision>> \in tasks
  /\ tasks' = {t \in tasks : t[1] # call}
  /\ UNCHANGED <<scenario, oracles, bundles, executing, renewal, shortest, now>>

(* executeWithEOA: a transaction that would revert is not sent, and its     *)
(* bundle stays in txs/.                                                    *)
ExecuteBundle(call) ==
  /\ executing = NoCall
  /\ call \in bundles /\ Permitted(call, Governor)
  /\ Transaction(call, Governor)
  /\ executing' = call
  /\ UNCHANGED <<scenario, bundles, tasks, renewal, now>>

(* The file moves to txs/executed/, whatever is in it by now.               *)
ArchiveBundle ==
  /\ executing # NoCall
  /\ bundles' = {b \in bundles : FileOf(b) # FileOf(executing)}
  /\ executing' = NoCall
  /\ UNCHANGED <<scenario, oracles, tasks, renewal, shortest, now>>

ExecutionDies ==
  /\ executing # NoCall
  /\ executing' = NoCall
  /\ UNCHANGED <<scenario, oracles, bundles, tasks, renewal, shortest, now>>

(***************************************************************************)
(* The off-chain oracle and the clock.                                      *)
(***************************************************************************)

Renew(i, indexers) ==
  /\ HasRole(oracles[i], "ORACLE", Reporter)
  /\ oracles' = [oracles EXCEPT ![i] = RenewIndexerEligibility(@, indexers, now)]
  /\ renewal' = [renewal EXCEPT ![i] = [x \in Indexers |-> IF x \in indexers THEN now ELSE @[x]]]
  /\ shortest' = [shortest EXCEPT ![i] =
                    [x \in Indexers |-> IF x \in indexers THEN oracles[i].retention ELSE @[x]]]
  /\ UNCHANGED <<scenario, bundles, tasks, executing, now>>

Tick ==
  /\ now < MaxTime
  /\ now' = now + 1
  /\ UNCHANGED <<scenario, oracles, bundles, tasks, executing, renewal, shortest>>

Next ==
  \/ \E call \in scenario.requests :
       RunTask(call) \/ FinishTask(call) \/ TaskDies(call) \/ ExecuteBundle(call)
  \/ ArchiveBundle
  \/ ExecutionDies
  \/ \E i \in Instances, indexers \in SUBSET Indexers : Renew(i, indexers)
  \/ Tick

Spec == Init /\ [][Next]_vars

(* No task runs for ever; operators run a task again until its goal is      *)
(* reached, not every run of it dies, and the governor executes each bundle *)
(* by its name.                                                             *)
Fairness ==
  /\ WF_vars(ArchiveBundle \/ ExecutionDies)
  /\ WF_vars(\E call \in scenario.requests : FinishTask(call) \/ TaskDies(call))
  /\ \A goal \in UNION {s.goals : s \in Scenarios} :
       /\ SF_vars(goal \in scenario.goals /\ RunTask(goal))
       /\ SF_vars(goal \in scenario.goals /\ FinishTask(goal))
       /\ SF_vars(goal \in scenario.goals /\ ExecuteBundle(goal))

LiveSpec == Spec /\ Fairness

(***************************************************************************)
(* Properties.                                                              *)
(***************************************************************************)

(* An indexer is eligible for the whole period after a renewal, unless the  *)
(* retention was shorter meanwhile: whoever removes expired indexers, with  *)
(* whatever clock, and however the retention changes between the check of   *)
(* reo:remove-expired and its transaction.                                  *)
RenewedIsEligible ==
  \A i \in Instances, x \in Indexers :
    /\ renewal[i][x] > 0
    /\ now < renewal[i][x] + Period
    /\ now < renewal[i][x] + shortest[i][x]
    => IsEligible(oracles[i], x, now)

(* Both oracles stay in states their tasks can show, and keep the promise   *)
(* of a renewal.                                                            *)
OraclesSound == TypeOK /\ RenewedIsEligible

(* Mutant: the timeout is over one second early.                            *)
EffectivelyDisabled_Early(i, local) ==
  LET last == oracles[i].lastUpdate
  IN ~oracles[i].validation \/ (last > 0 /\ local >= last + Timeout)

(* What reo:status shows as the effective state, on a machine whose clock   *)
(* is at local.                                                             *)
EffectivelyDisabled(i, local) ==
  LET last == oracles[i].lastUpdate
  IN ~oracles[i].validation \/ (last > 0 /\ local > last + Timeout)

(* reo:status goes by the local clock, the contract by the block's time.    *)
(* What it shows is right up to the clock: by a clock that is not ahead,    *)
(* "DISABLED" says that all indexers are eligible; by one that is not       *)
(* behind, "ACTIVE" says that only those are that were renewed within the   *)
(* period.  Before the first report it shows "ACTIVE" too, but then the     *)
(* contract lets everybody pass.                                            *)
StatusTruthful ==
  \A i \in Instances, x \in Indexers :
    /\ \A local \in LocalTimes :
         /\ EffectivelyDisabled(i, local) /\ local <= now => IsEligible(oracles[i], x, now)
         /\ (/\ ~EffectivelyDisabled(i, local) /\ local >= now
             /\ oracles[i].lastUpdate > 0 /\ IsEligible(oracles[i], x, now))
            => now < renewal[i][x] + Period
    /\ oracles[i].lastUpdate = 0 /\ Timeout < now => IsEligible(oracles[i], x, now)

(* What operators keep asking for happens, though two instances share the   *)
(* name of a bundle, tasks and executions die, and other bundles are        *)
(* archived or can never be executed.                                       *)
RequestsTakeEffect ==
  \A goal \in UNION {s.goals : s \in Scenarios} : goal \in scenario.goals => <>InEffect(goal)
=============================================================================
