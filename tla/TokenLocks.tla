----------------------------- MODULE TokenLocks -----------------------------
(***************************************************************************)
(* The tasks of packages/token-distribution/ops that change something: they *)
(* create token locks from a deploy file, fund the GraphTokenLockManager,   *)
(* authorise the functions and destinations of the wallets, and cancel or   *)
(* accept a lock.  A task looks at the chain, asks for a confirmation, and  *)
(* sends its transactions one by one, or writes them into a batch which the *)
(* Safe executes later, all or nothing.  Tasks run side by side; they die,  *)
(* and their transactions may fail, or be mined without the task knowing.   *)
(*                                                                          *)
(* The contracts are external: what a transaction requires and does.        *)
(***************************************************************************)
EXTENDS Integers, Sequences, Functions

CONSTANTS
  DeployFile,  \* the entries of the deploy file, in its order
  Amount,      \* managedAmount of each entry
  Scenarios,   \* who owns what, and what the operators ask for
  MaxTasks,    \* bound: tasks that run at the same time, also for the same request
  MaxFailures  \* bound: tasks that die and transactions that fail

Entries   == Range(DeployFile)
Deployer  == "deployer"
Safe      == "safe"
Owners    == {Deployer, Safe}
Functions == {"staking", "horizon", "subgraph"}  \* the lists of signatures
Targets   == {"staking", "service"}
NoWallet  == "none"

(* What operators may ask for: a task with its arguments.                   *)
Requests ==
  {<<"create">>, <<"setup-auth">>, <<"update-auth">>,
   <<"batch", "create">>, <<"batch", "update-auth">>}
    \union ({"deposit", "withdraw"} \X Nat) \union ({"transfer"} \X Owners)
    \union ({"cancel", "accept"} \X Entries) \union ({"batch"} \X {"cancel"} \X Entries)

ASSUME LocksAssumption ==
  /\ DeployFile \in Seq(Entries) /\ NoWallet \notin Entries
  /\ Amount \in [Entries -> Nat \ {0}]
  /\ \A s \in Scenarios : /\ {s.owner, s.lockOwner} \subseteq Owners
                          /\ s.purse \in [Owners -> Nat] /\ s.goals \subseteq s.requests
                          /\ s.requests \subseteq Requests
  /\ MaxTasks \in Nat /\ MaxFailures \in Nat

VARIABLES
  scenario,  \* never changes
  chain,     \* the token, the manager, and the wallets
  recorded,  \* the entries of the result file
  batches,   \* the files tx-builder-<time>.json: sequences of transactions
  tasks,     \* the running tasks: what is still to be done, and what was created
  failures

locksVars == <<scenario, chain, recorded, batches, tasks, failures>>

(* getTotalAmount: an entry that is twice in the file counts twice.         *)
Total(entries) == SumFunctionOnSet([i \in DOMAIN entries |-> Amount[entries[i]]], DOMAIN entries)

Supply == scenario.purse[Deployer] + scenario.purse[Safe]

LocksTypeOK ==
  /\ chain \in [owner: Owners, purse: [Owners -> Nat], allowance: [Owners -> Nat],
                balance: Nat, created: SUBSET Entries, accepted: SUBSET Entries,
                held: [Entries -> Nat],
                functions: SUBSET Functions, destinations: SUBSET Targets]
  /\ chain.purse[Deployer] + chain.purse[Safe] + chain.balance
       + SumFunctionOnSet(chain.held, Entries) = Supply
  /\ \A e \in Entries : chain.held[e] \in {0, Amount[e]} /\ (chain.held[e] > 0 => e \in chain.created)
  /\ recorded \subseteq Entries
  /\ \A t \in tasks : t.request \in scenario.requests /\ t.created \in Entries \union {NoWallet}
  /\ failures \in 0 .. MaxFailures

LocksInit ==
  /\ scenario \in Scenarios
  /\ chain = [owner |-> scenario.owner, purse |-> scenario.purse,
              allowance |-> [o \in Owners |-> 0], balance |-> 0,
              created |-> {}, accepted |-> {}, held |-> [e \in Entries |-> 0],
              functions |-> {}, destinations |-> {}]
  /\ recorded = {} /\ batches = {} /\ tasks = {} /\ failures = 0

(***************************************************************************)
(* Transactions.                                                            *)
(***************************************************************************)

(* The wallet of an entry has one address, and cannot be created again.     *)
CanCreate(c, entry) == entry \notin c.created /\ c.balance >= Amount[entry]

(* Mutant: a lock can be cancelled after the beneficiary has accepted it.   *)
CanCancel_Accepted(c, entry, sender) == sender = scenario.lockOwner /\ entry \in c.created

CanCancel(c, entry, sender) ==
  sender = scenario.lockOwner /\ entry \in c.created \ c.accepted

(* What the contracts require.                                              *)
Permitted(c, tx, sender) ==
  /\ tx[1] \in {"create", "withdraw", "authorise", "destination", "transfer"} => sender = c.owner
  /\ tx[1] = "create" => CanCreate(c, tx[2])
  /\ tx[1] \in {"deposit", "withdraw"} => tx[2] > 0
  /\ tx[1] = "deposit" => c.purse[sender] >= tx[2] /\ c.allowance[sender] >= tx[2]
  /\ tx[1] = "withdraw" => c.balance >= tx[2]
  /\ tx[1] = "destination" => tx[2] \notin c.destinations
  /\ tx[1] = "cancel" => CanCancel(c, tx[2], sender)
  /\ tx[1] = "accept" => tx[2] \in c.created

Effect(c, tx, sender) ==
  CASE tx[1] = "create"   -> [c EXCEPT !.created = @ \union {tx[2]}, !.held[tx[2]] = Amount[tx[2]],
                                       !.balance = @ - Amount[tx[2]]]
    [] tx[1] = "approve"  -> [c EXCEPT !.allowance[sender] = tx[2]]
    [] tx[1] = "deposit"  -> [c EXCEPT !.allowance[sender] = @ - tx[2], !.purse[sender] = @ - tx[2],
                                       !.balance = @ + tx[2]]
    [] tx[1] = "withdraw" -> [c EXCEPT !.balance = @ - tx[2], !.purse[sender] = @ + tx[2]]
    [] tx[1] = "accept"   -> [c EXCEPT !.accepted = @ \union {tx[2]}]
    [] tx[1] = "cancel"   -> [c EXCEPT !.held[tx[2]] = 0, !.purse[sender] = @ + c.held[tx[2]]]
    [] tx[1] = "authorise"   -> [c EXCEPT !.functions = @ \union {tx[2]}]
    [] tx[1] = "destination" -> [c EXCEPT !.destinations = @ \union {tx[2]}]
    [] tx[1] = "transfer"    -> [c EXCEPT !.owner = tx[2]]

(***************************************************************************)
(* The tasks.                                                               *)
(***************************************************************************)

(* The entries that the result file does not have.                          *)
Remaining ==
  LET remaining[i \in 0 .. Len(DeployFile)] ==
        IF i = 0 THEN <<>>
        ELSE IF DeployFile[i] \in recorded THEN remaining[i-1]
        ELSE Append(remaining[i-1], DeployFile[i])
  IN  remaining[Len(DeployFile)]

Underfunded == chain.balance < Total(Remaining)

Creations == [i \in DOMAIN Remaining |-> <<"create", Remaining[i]>>]

DepositTxs(amount) == <<<<"approve", amount>>, <<"deposit", amount>>>>

Start(request, todo) ==
  /\ LET free == {run \in 1 .. MaxTasks : \A t \in tasks : t.run # run}
     IN  \E run \in free :
           /\ \A other \in free : run <= other
           /\ tasks' = tasks \union
                {[run |-> run, request |-> request, todo |-> todo, created |-> NoWallet]}
  /\ UNCHANGED <<scenario, chain, recorded, batches, failures>>

(* create-token-locks ends early when there is nothing new, when the        *)
(* deployer does not own the manager, and when the manager is underfunded.  *)
CreateLocks(request) ==
  /\ request = <<"create">>
  /\ Remaining # <<>>
  /\ chain.owner = Deployer
  /\ ~Underfunded
  /\ Start(request, Creations)

(* With --tx-builder, the deposit of what is missing is in the batch.       *)
CreateLocksBatch(request) ==
  /\ request = <<"batch", "create">>
  /\ Remaining # <<>>
  /\ Start(request, <<<<"save",
       (IF Underfunded THEN DepositTxs(Total(Remaining) - chain.balance) ELSE <<>>)
         \o Creations>>>>)

ManagerDeposit(request) ==
  /\ request[1] = "deposit"
  /\ Start(request, DepositTxs(request[2]))

ManagerWithdraw(request) ==
  /\ request[1] = "withdraw"
  /\ Start(request, <<request>>)

ManagerTransferOwnership(request) ==
  /\ request[1] = "transfer"
  /\ chain.owner = Deployer
  /\ Start(request, <<request>>)

ManagerSetupAuth(request) ==
  /\ request = <<"setup-auth">>
  /\ Start(request, <<<<"authorise", "staking">>, <<"destination", "staking">>>>)

(* update-auth-functions-horizon looks at a destination just before it adds *)
(* it, in a batch when the batch is written.                                *)
UpdateAuthFunctions(request) ==
  /\ request = <<"update-auth">>
  /\ chain.owner = Deployer
  /\ Start(request, <<<<"authorise", "horizon">>, <<"authorise", "subgraph">>,
                      <<"check", "staking">>, <<"check", "service">>>>)

AddDestination(target) ==
  IF target \in chain.destinations THEN <<>> ELSE <<<<"destination", target>>>>

UpdateAuthFunctionsBatch(request) ==
  /\ request = <<"batch", "update-auth">>
  /\ Start(request, <<<<"save", <<<<"authorise", "horizon">>, <<"authorise", "subgraph">>>>
                                  \o AddDestination("staking") \o AddDestination("service")>>>>)

CancelTokenLock(request) ==
  /\ request[1] = "cancel"
  /\ request[2] \in chain.created \ chain.accepted
  /\ scenario.lockOwner = Deployer
  /\ Start(request, <<request>>)

CancelTokenLockBatch(request) ==
  /\ request[1] = "batch" /\ request[2] = "cancel"
  /\ request[3] \in chain.created \ chain.accepted
  /\ Start(request, <<<<"save", <<<<"cancel", request[3]>>>>>>>>)

BeneficiaryAcceptLock(request) ==
  /\ request[1] = "accept"
  /\ request[2] \in chain.created \ chain.accepted
  /\ Start(request, <<request>>)

Run(request) ==
  \/ CreateLocks(request) \/ CreateLocksBatch(request)
  \/ ManagerDeposit(request) \/ ManagerWithdraw(request) \/ ManagerTransferOwnership(request)
  \/ ManagerSetupAuth(request)
  \/ UpdateAuthFunctions(request) \/ UpdateAuthFunctionsBatch(request)
  \/ CancelTokenLock(request) \/ CancelTokenLockBatch(request)
  \/ BeneficiaryAcceptLock(request)

(***************************************************************************)
(* The steps of a running task.                                             *)
(***************************************************************************)

(* The task goes on with todo; it ends when that is empty.                  *)
Becomes(task, todo, created) ==
  tasks' = (tasks \ {task}) \union
             (IF todo = <<>> /\ created = NoWallet THEN {}
              ELSE {[task EXCEPT !.todo = todo, !.created = created]})

(* Mutant: the first entry that cannot be created ends the task.            *)
AfterFailure_Ends(task) == <<>>

(* create-token-locks logs the error and takes the next entry; every other  *)
(* task ends.                                                               *)
AfterFailure(task) == IF task.request = <<"create">> THEN Tail(task.todo) ELSE <<>>

(* A transaction and its receipt; one that is not permitted reverts.        *)
Send(task) ==
  LET tx == Head(task.todo) IN
  /\ task.created = NoWallet /\ task.todo # <<>>
  /\ tx[1] \notin {"check", "save"}
  /\ IF Permitted(chain, tx, Deployer)
       THEN /\ chain' = Effect(chain, tx, Deployer)
            /\ Becomes(task, Tail(task.todo), IF tx[1] = "create" THEN tx[2] ELSE NoWallet)
       ELSE Becomes(task, AfterFailure(task), NoWallet) /\ UNCHANGED chain
  /\ UNCHANGED <<scenario, recorded, batches, failures>>

(* Mutant: the entry is saved with the transaction's hash, before it is sent. *)
SaveDeployResult_Early(task) ==
  /\ task.todo # <<>> /\ Head(task.todo)[1] = "create"
  /\ recorded' = recorded \union {Head(task.todo)[2]}
  /\ Becomes(task, task.todo, NoWallet)
  /\ UNCHANGED <<scenario, chain, batches, failures>>

SaveDeployResult(task) ==
  /\ task.created # NoWallet
  /\ recorded' = recorded \union {task.created}
  /\ Becomes(task, task.todo, NoWallet)
  /\ UNCHANGED <<scenario, chain, batches, failures>>

CheckDestination(task) ==
  LET target == Head(task.todo)[2] IN
  /\ task.todo # <<>> /\ Head(task.todo)[1] = "check"
  /\ Becomes(task, AddDestination(target) \o Tail(task.todo), NoWallet)
  /\ UNCHANGED <<scenario, chain, recorded, batches, failures>>

SaveBatch(task) ==
  /\ task.todo # <<>> /\ Head(task.todo)[1] = "save"
  /\ batches' = batches \union {Head(task.todo)[2]}
  /\ Becomes(task, <<>>, NoWallet)
  /\ UNCHANGED <<scenario, chain, recorded, failures>>

Step(task) == Send(task) \/ SaveDeployResult(task) \/ CheckDestination(task) \/ SaveBatch(task)

(* The node does not take the transaction, or takes it and does not give    *)
(* the receipt: then it may be mined, and the task does not know.           *)
SendFails(task) ==
  LET tx == Head(task.todo) IN
  /\ failures < MaxFailures
  /\ task.created = NoWallet /\ task.todo # <<>> /\ tx[1] \notin {"check", "save"}
  /\ \/ UNCHANGED chain
     \/ Permitted(chain, tx, Deployer) /\ chain' = Effect(chain, tx, Deployer)
  /\ Becomes(task, AfterFailure(task), NoWallet)
  /\ failures' = failures + 1
  /\ UNCHANGED <<scenario, recorded, batches>>

TaskDies(task) ==
  /\ failures < MaxFailures
  /\ tasks' = tasks \ {task}
  /\ failures' = failures + 1
  /\ UNCHANGED <<scenario, chain, recorded, batches>>

(* The Safe executes a batch, as often as its owners like: all of its       *)
(* transactions, or none.                                                   *)
ExecuteBatch(batch) ==
  LET after[i \in 0 .. Len(batch)] ==
        IF i = 0 THEN [reverts |-> FALSE, chain |-> chain]
        ELSE IF after[i-1].reverts \/ ~Permitted(after[i-1].chain, batch[i], Safe)
               THEN [reverts |-> TRUE, chain |-> chain]
               ELSE [reverts |-> FALSE, chain |-> Effect(after[i-1].chain, batch[i], Safe)]
  IN  /\ chain' = after[Len(batch)].chain
      /\ UNCHANGED <<scenario, recorded, batches, tasks, failures>>

LocksNext ==
  \/ \E request \in scenario.requests : Run(request)
  \/ \E task \in tasks : Step(task) \/ SendFails(task) \/ TaskDies(task)
  \/ \E batch \in batches : ExecuteBatch(batch)

LocksSpec == LocksInit /\ [][LocksNext]_locksVars

(* What a task is run for.                                                  *)
Reached(goal) ==
  CASE goal \in {<<"create">>, <<"batch", "create">>} -> Entries \subseteq chain.created
    [] goal[1] = "deposit" -> ~Underfunded
    [] goal \in {<<"update-auth">>, <<"batch", "update-auth">>} ->
         {"horizon", "subgraph"} \subseteq chain.functions /\ chain.destinations = Targets

(* Operators run a task again until its goal is reached, with --tx-builder  *)
(* when the Safe owns the manager, and execute the batches that can be      *)
(* executed; a task does not stop for ever.                                 *)
Wanted(goal) == ~Reached(goal) /\ (goal[1] = "batch" => chain.owner = Safe)

LocksFairness ==
  /\ WF_locksVars(\E task \in tasks : Step(task))
  /\ \A goal \in UNION {s.goals : s \in Scenarios} :
       WF_locksVars(\E task \in tasks : task.request = goal /\ Step(task))
  /\ SF_locksVars(\E goal \in scenario.goals : Wanted(goal) /\ Run(goal))
  /\ SF_locksVars(\E batch \in batches : ExecuteBatch(batch))

LocksLiveSpec == LocksSpec /\ LocksFairness

(***************************************************************************)
(* Properties.                                                              *)
(***************************************************************************)

(* An entry of the result file, which every later run leaves out, has its   *)
(* wallet, whatever died or failed between the transaction and the file.    *)
RecordedExists == recorded \subseteq chain.created

(* The manager and the files of the operators stay consistent.              *)
RecordsSound == LocksTypeOK /\ RecordedExists

(* The tokens of a lock that its beneficiary has accepted stay in it: a     *)
(* cancellation that was checked, or put into a batch, before the lock was  *)
(* accepted comes too late.                                                 *)
AcceptedLockKept == [][\A e \in chain.accepted : chain'.held[e] = chain.held[e]]_locksVars

(* What the operators work for comes about: every entry has a wallet, and   *)
(* the functions and destinations of Horizon are authorised, though runs    *)
(* die before they save, entries of the file exist already, and batches go  *)
(* stale.                                                                   *)
GoalsReached ==
  \A goal \in UNION {s.goals : s \in Scenarios} : goal \in scenario.goals => <>[]Reached(goal)
=============================================================================
