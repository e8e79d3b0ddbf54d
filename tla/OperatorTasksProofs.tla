------------------------ MODULE OperatorTasksProofs -------------------------
(***************************************************************************)
(* The eligibility oracle under its operators' tasks, for every choice of  *)
(* the constants: any instances, scenarios, periods and number of tasks.   *)
(*                                                                         *)
(* A task decides on what it reads and acts later, so nothing about the    *)
(* oracle may rest on the task's check, nor on the clock it goes by.  What *)
(* carries the proof is what the contract checks itself: it forgets a      *)
(* renewal only when the retention then in force is over.                  *)
(***************************************************************************)
EXTENDS OperatorTasks, TLAPS

-----------------------------------------------------------------------------
(* The inductive invariant.                                                *)

(* What an instance knows of an indexer is its last renewal, or nothing    *)
(* when the shortest retention since then is over.                         *)
RenewalKept(oracle, indexer, last, least, time) ==
  /\ oracle.renewed[indexer] <= time
  /\ \/ oracle.renewed[indexer] = last
     \/ oracle.renewed[indexer] = 0 /\ time >= last + least

Knows(oracle, last, least, time) ==
  /\ oracle \in Oracle
  /\ oracle.retention \in Retentions
  /\ oracle.tracked = {x \in Indexers : oracle.renewed[x] > 0}
  /\ \A x \in Indexers : RenewalKept(oracle, x, last[x], least[x], time)

SoundOracle(oracle, last, least, time) ==
  /\ Knows(oracle, last, least, time)
  /\ \A x \in Indexers : least[x] <= oracle.retention

IInv ==
  /\ TypeOK
  /\ \A i \in Instances : SoundOracle(oracles[i], renewal[i], shortest[i], now)

-----------------------------------------------------------------------------
(* The operations of the contract.                                         *)

(* The clock runs from a positive time.                                    *)
LEMMA Clock ==
  ASSUME NEW time \in FirstTime .. MaxTime
  PROVE  time \in Nat /\ time > 0 /\ Period \in Nat
BY TasksAssumption, PeriodsAssumption

LEMMA CallTypes ==
  ASSUME NEW call \in Calls
  PROVE  /\ call[1] \in Instances
         /\ call[2] \in {"grantRole", "revokeRole", "setEligibilityValidation",
                         "setIndexerRetentionPeriod", "removeExpiredIndexer"}
         /\ call[2] \in {"grantRole", "revokeRole"} => call[3] \in Roles /\ call[4] \in Accounts
         /\ call[2] = "setIndexerRetentionPeriod" => call[3] \in Retentions
         /\ call[2] = "removeExpiredIndexer" => call[3] \in Indexers
<1>1. CASE \E i \in Instances, r \in Roles, a \in Accounts : call = Grant(i, r, a)
  BY <1>1 DEF Grant
<1>2. CASE \E i \in Instances, r \in Roles, a \in Accounts : call = Revoke(i, r, a)
  BY <1>2 DEF Revoke
<1>3. CASE \E i \in Instances, t \in {"on", "off"} : call = Validation(i, t)
  BY <1>3 DEF Validation
<1>4. CASE \E i \in Instances, p \in Retentions : call = Retention(i, p)
  BY <1>4 DEF Retention
<1>5. CASE \E i \in Instances, x \in Indexers : call = Removal(i, x)
  BY <1>5 DEF Removal
<1> QED
  BY <1>1, <1>2, <1>3, <1>4, <1>5 DEF Calls

LEMMA RenewSound ==
  ASSUME NEW oracle, NEW last \in [Indexers -> Nat], NEW least \in [Indexers -> Nat],
         NEW time \in FirstTime .. MaxTime, SoundOracle(oracle, last, least, time), NEW indexers \in SUBSET Indexers,
         NEW newLast, NEW newLeast,
         newLast = [x \in Indexers |-> IF x \in indexers THEN time ELSE last[x]],
         newLeast = [x \in Indexers |-> IF x \in indexers THEN oracle.retention ELSE least[x]]
  PROVE  SoundOracle(RenewIndexerEligibility(oracle, indexers, time), newLast, newLeast, time)
<1> DEFINE updated == {x \in indexers : oracle.renewed[x] < time}
           renewed == [x \in Indexers |-> IF x \in updated THEN time ELSE oracle.renewed[x]]
           new == RenewIndexerEligibility(oracle, indexers, time)
<1>1. /\ oracle \in Oracle /\ oracle.retention \in Retentions
      /\ oracle.renewed \in [Indexers -> Nat] /\ oracle.tracked \in SUBSET Indexers
      /\ oracle.tracked = {x \in Indexers : oracle.renewed[x] > 0}
  BY DEF SoundOracle, Knows, Oracle
<1>2. time \in Nat /\ time > 0
  BY Clock
<1>3. /\ new.lastUpdate = time /\ new.renewed = renewed
      /\ new.tracked = oracle.tracked \cup updated
      /\ new.retention = oracle.retention
      /\ new \in Oracle
  <2>1. renewed \in [Indexers -> Nat] /\ oracle.tracked \cup updated \in SUBSET Indexers
    BY <1>1, <1>2
  <2>2. new = [oracle EXCEPT !.lastUpdate = time, !.renewed = renewed,
                             !.tracked = oracle.tracked \cup updated]
    BY <1>1 DEF RenewIndexerEligibility, Oracle
  <2> HIDE DEF new, renewed, updated
  <2> QED BY <1>1, <1>2, <2>1, <2>2 DEF Oracle
<1> HIDE DEF new
<1>4. new.tracked = {x \in Indexers : new.renewed[x] > 0}
  BY <1>1, <1>2, <1>3
<1>5. ASSUME NEW x \in Indexers
      PROVE  RenewalKept(new, x, newLast[x], newLeast[x], time)
  <2>1. RenewalKept(oracle, x, last[x], least[x], time) /\ oracle.renewed[x] \in Nat
    BY <1>1 DEF SoundOracle, Knows
  <2>2. oracle.retention \in Nat
    BY <1>1, PeriodsAssumption
  <2> QED BY <1>2, <1>3, <2>1, <2>2 DEF RenewalKept
<1>6. \A x \in Indexers : newLeast[x] <= new.retention
  <2>1. oracle.retention \in Nat /\ \A x \in Indexers : least[x] <= oracle.retention
    BY <1>1, PeriodsAssumption DEF SoundOracle
  <2> QED BY <1>3, <2>1
<1>7. SoundOracle(new, newLast, newLeast, time)
  BY <1>1, <1>3, <1>4, <1>5, <1>6 DEF SoundOracle, Knows
<1> QED
  BY <1>7 DEF new

(* Only a renewal that has expired is removed.                             *)
LEMMA RemoveSound ==
  ASSUME NEW oracle, NEW last \in [Indexers -> Nat], NEW least \in [Indexers -> Nat],
         NEW time \in FirstTime .. MaxTime, SoundOracle(oracle, last, least, time), NEW x \in Indexers
  PROVE  Knows(RemoveExpiredIndexer(oracle, x, time), last, least, time)
<1> DEFINE new == [oracle EXCEPT !.tracked = @ \ {x}, !.renewed[x] = 0]
<1>1. CASE x \notin oracle.tracked \/ time < oracle.renewed[x] + oracle.retention
  BY <1>1 DEF RemoveExpiredIndexer, SoundOracle
<1>2. CASE ~(x \notin oracle.tracked \/ time < oracle.renewed[x] + oracle.retention)
  <2>1. /\ oracle \in Oracle /\ oracle.retention \in Retentions
        /\ oracle.renewed \in [Indexers -> Nat] /\ oracle.tracked \in SUBSET Indexers
        /\ oracle.tracked = {y \in Indexers : oracle.renewed[y] > 0}
    BY DEF SoundOracle, Knows, Oracle
  <2>2. /\ oracle.renewed[x] > 0 /\ oracle.renewed[x] \in Nat
        /\ oracle.retention \in Nat /\ least[x] <= oracle.retention /\ least[x] \in Nat
        /\ time >= oracle.renewed[x] + oracle.retention
        /\ time \in Nat /\ last[x] \in Nat /\ oracle.renewed[x] = last[x]
    <3>1. oracle.renewed[x] > 0 /\ oracle.renewed[x] \in Nat
      BY <1>2, <2>1
    <3>2. oracle.retention \in Nat /\ time \in Nat
      BY <2>1, PeriodsAssumption, Clock
    <3>3. RenewalKept(oracle, x, last[x], least[x], time)
      BY DEF SoundOracle, Knows
    <3> QED BY <1>2, <3>1, <3>2, <3>3 DEF RenewalKept, SoundOracle
  <2>3. /\ new.renewed = [oracle.renewed EXCEPT ![x] = 0]
        /\ new.tracked = oracle.tracked \ {x} /\ new.retention = oracle.retention
        /\ new \in Oracle
    BY <2>1 DEF Oracle
  <2> HIDE DEF new
  <2>4. /\ new.renewed[x] = 0
        /\ \A y \in Indexers \ {x} : new.renewed[y] = oracle.renewed[y]
    BY <2>1, <2>3
  <2>5. new.tracked = {y \in Indexers : new.renewed[y] > 0}
    BY <2>1, <2>3, <2>4
  <2>6. ASSUME NEW y \in Indexers
        PROVE  RenewalKept(new, y, last[y], least[y], time)
    <3>1. RenewalKept(oracle, y, last[y], least[y], time)
      BY DEF SoundOracle, Knows
    <3> QED BY <2>2, <2>4, <3>1 DEF RenewalKept
  <2>7. Knows(new, last, least, time)
    BY <2>1, <2>3, <2>5, <2>6 DEF SoundOracle, Knows
  <2> QED BY <1>2, <2>7 DEF RemoveExpiredIndexer, new
<1> QED
  BY <1>1, <1>2

(* Whatever a transaction does, the instance stays sound.                  *)
LEMMA EffectSound ==
  ASSUME IInv, NEW call \in Calls
  PROVE  Knows(Effect(oracles[call[1]], call), renewal[call[1]], shortest[call[1]], now)
<1> DEFINE oracle == oracles[call[1]]
           last == renewal[call[1]]
           least == shortest[call[1]]
<1>1. /\ SoundOracle(oracle, last, least, now) /\ now \in FirstTime .. MaxTime
      /\ last \in [Indexers -> Nat] /\ least \in [Indexers -> Nat]
  BY CallTypes DEF IInv, TypeOK
<1>2. /\ oracle \in Oracle /\ oracle.members \in [Roles -> SUBSET Accounts]
  BY <1>1 DEF SoundOracle, Knows, Oracle
<1> HIDE DEF oracle, last, least
(* A change of other fields.                                               *)
<1>3. ASSUME NEW new \in Oracle, new.retention \in Retentions,
             new.renewed = oracle.renewed, new.tracked = oracle.tracked
      PROVE  Knows(new, last, least, now)
  BY <1>1, <1>3 DEF SoundOracle, Knows, RenewalKept
<1>4. CASE call[2] = "grantRole"
  <2> DEFINE new == [oracle EXCEPT !.members[call[3]] = @ \union {call[4]}]
  <2>1. call[3] \in Roles /\ call[4] \in Accounts
    BY <1>4, CallTypes
  <2>2. /\ new \in Oracle /\ new.retention = oracle.retention
        /\ new.renewed = oracle.renewed /\ new.tracked = oracle.tracked
    BY <1>2, <2>1 DEF Oracle
  <2> HIDE DEF new
  <2>3. Knows(new, last, least, now)
    BY <1>1, <1>3, <2>2 DEF SoundOracle, Knows
  <2> QED BY <1>4, <2>3 DEF Effect, new, oracle, last, least
<1>5. CASE call[2] = "revokeRole"
  <2> DEFINE new == [oracle EXCEPT !.members[call[3]] = @ \ {call[4]}]
  <2>1. call[3] \in Roles
    BY <1>5, CallTypes
  <2>2. /\ new \in Oracle /\ new.retention = oracle.retention
        /\ new.renewed = oracle.renewed /\ new.tracked = oracle.tracked
    BY <1>2, <2>1 DEF Oracle
  <2> HIDE DEF new
  <2>3. Knows(new, last, least, now)
    BY <1>1, <1>3, <2>2 DEF SoundOracle, Knows
  <2> QED BY <1>5, <2>3 DEF Effect, new, oracle, last, least
<1>6. CASE call[2] = "setEligibilityValidation"
  <2> DEFINE new == [oracle EXCEPT !.validation = (call[3] = "on")]
  <2>1. /\ new \in Oracle /\ new.retention = oracle.retention
        /\ new.renewed = oracle.renewed /\ new.tracked = oracle.tracked
    BY <1>2 DEF Oracle
  <2> HIDE DEF new
  <2>2. Knows(new, last, least, now)
    BY <1>1, <1>3, <2>1 DEF SoundOracle, Knows
  <2> QED BY <1>6, <2>2 DEF Effect, new, oracle, last, least
<1>7. CASE call[2] = "setIndexerRetentionPeriod"
  <2> DEFINE new == [oracle EXCEPT !.retention = call[3]]
  <2>1. call[3] \in Retentions /\ call[3] \in Nat
    BY <1>7, CallTypes, PeriodsAssumption
  <2>2. /\ new \in Oracle /\ new.retention = call[3]
        /\ new.renewed = oracle.renewed /\ new.tracked = oracle.tracked
    BY <1>2, <2>1 DEF Oracle
  <2> HIDE DEF new
  <2>3. Knows(new, last, least, now)
    BY <1>3, <2>1, <2>2
  <2> QED BY <1>7, <2>3 DEF Effect, new, oracle, last, least
<1>8. CASE call[2] = "removeExpiredIndexer"
  <2>1. call[3] \in Indexers
    BY <1>8, CallTypes
  <2>2. Knows(RemoveExpiredIndexer(oracle, call[3], now), last, least, now)
    BY <1>1, <2>1, RemoveSound
  <2> QED BY <1>8, <2>2 DEF Effect, oracle, last, least
<1> QED
  BY <1>4, <1>5, <1>6, <1>7, <1>8, CallTypes

-----------------------------------------------------------------------------
(* The steps.                                                              *)

(* The shortest retention follows what is in force.                        *)
LEMMA Lowered ==
  ASSUME NEW oracle, NEW last \in [Indexers -> Nat], NEW least \in [Indexers -> Nat],
         NEW time \in FirstTime .. MaxTime, Knows(oracle, last, least, time)
  PROVE  SoundOracle(oracle, last,
                     [x \in Indexers |-> Least(least[x], oracle.retention)], time)
<1> DEFINE lowered == [x \in Indexers |-> Least(least[x], oracle.retention)]
<1>1. oracle.retention \in Nat /\ time \in Nat
  BY PeriodsAssumption, Clock DEF Knows
<1>2. ASSUME NEW x \in Indexers
      PROVE  /\ lowered[x] <= oracle.retention
             /\ RenewalKept(oracle, x, last[x], lowered[x], time)
  <2>1. RenewalKept(oracle, x, last[x], least[x], time)
    BY DEF Knows
  <2>2. /\ lowered[x] \in Nat /\ lowered[x] <= oracle.retention /\ lowered[x] <= least[x]
        /\ last[x] \in Nat /\ least[x] \in Nat
    BY <1>1 DEF Least
  <2> HIDE DEF lowered
  <2> QED BY <1>1, <2>1, <2>2 DEF RenewalKept
<1> HIDE DEF lowered
<1>3. SoundOracle(oracle, last, lowered, time)
  BY <1>2 DEF SoundOracle, Knows
<1> QED
  BY <1>3 DEF lowered

(* A transaction is a step of one instance, or nothing when it reverts.    *)
LEMMA TransactionSound ==
  ASSUME IInv, NEW call \in Calls, NEW sender, Transaction(call, sender),
         UNCHANGED <<renewal, now>>
  PROVE  /\ oracles' \in [Instances -> Oracle]
         /\ shortest' \in [Instances -> [Indexers -> Nat]]
         /\ \A i \in Instances : SoundOracle(oracles'[i], renewal'[i], shortest'[i], now')
<1> DEFINE new == Effect(oracles[call[1]], call)
<1>1. /\ Knows(new, renewal[call[1]], shortest[call[1]], now) /\ call[1] \in Instances
      /\ oracles \in [Instances -> Oracle] /\ now \in FirstTime .. MaxTime
      /\ renewal \in [Instances -> [Indexers -> Nat]]
      /\ shortest \in [Instances -> [Indexers -> Nat]]
  BY EffectSound, CallTypes DEF IInv, TypeOK
<1>2. oracles' = [oracles EXCEPT ![call[1]] = new] \/ oracles' = oracles
  BY DEF Transaction
<1>3. ASSUME NEW i \in Instances
      PROVE  shortest'[i] = [x \in Indexers |-> Least(shortest[i][x], oracles'[i].retention)]
  BY DEF Transaction
<1> HIDE DEF new
<1>4. new \in Oracle
  BY <1>1 DEF Knows
<1>5. oracles' \in [Instances -> Oracle]
  BY <1>1, <1>2, <1>4
<1>6. ASSUME NEW i \in Instances
      PROVE  /\ oracles'[i].retention \in Nat
             /\ SoundOracle(oracles'[i], renewal'[i], shortest'[i], now')
  <2>1. Knows(oracles'[i], renewal[i], shortest[i], now)
    BY <1>1, <1>2 DEF IInv, SoundOracle
  <2>2. renewal[i] \in [Indexers -> Nat] /\ shortest[i] \in [Indexers -> Nat]
    BY <1>1
  <2>3. SoundOracle(oracles'[i], renewal[i],
                    [x \in Indexers |-> Least(shortest[i][x], oracles'[i].retention)], now)
    BY <1>1, <2>1, <2>2, Lowered
  <2>4. oracles'[i].retention \in Nat
    BY <2>1, PeriodsAssumption DEF Knows
  <2> QED BY <1>3, <2>3, <2>4
<1>7. shortest' \in [Instances -> [Indexers -> Nat]]
  <2>1. ASSUME NEW i \in Instances
        PROVE  shortest'[i] \in [Indexers -> Nat]
    <3>1. oracles'[i].retention \in Nat /\ shortest[i] \in [Indexers -> Nat]
      BY <1>1, <1>6
    <3>2. \A x \in Indexers : Least(shortest[i][x], oracles'[i].retention) \in Nat
      BY <3>1 DEF Least
    <3> QED BY <1>3, <3>2
  <2>2. shortest' = [i \in Instances |-> shortest'[i]]
    BY DEF Transaction
  <2> QED BY <2>1, <2>2
<1> QED
  BY <1>5, <1>6, <1>7

(* A step that leaves the instances alone.                                 *)
LEMMA OraclesUntouched ==
  ASSUME IInv, UNCHANGED <<scenario, oracles, renewal, shortest, now>>,
         bundles' \subseteq Calls, tasks' \subseteq Calls \X {"send", "save"},
         executing' \in Calls \union {NoCall}
  PROVE  IInv'
BY DEF IInv, TypeOK

LEMMA TaskSteps ==
  ASSUME IInv, NEW call \in Calls,
         RunTask(call) \/ FinishTask(call) \/ TaskDies(call) \/ ExecuteBundle(call)
  PROVE  IInv'
<1>1. /\ bundles \subseteq Calls /\ tasks \subseteq Calls \X {"send", "save"}
      /\ executing \in Calls \union {NoCall}
  BY DEF IInv, TypeOK
<1>2. CASE RunTask(call)
  <2>1. PICK decision \in {"send", "save"} : Decide(call, decision)
    BY <1>2 DEF RunTask, RunGrantTask, RunRevokeTask, RunValidationTask, RunRetentionTask,
                RunRemovalTask, ExecuteOrSave
  <2> QED BY <1>1, <2>1, OraclesUntouched DEF Decide
<1>3. CASE SendTransaction(call)
  <2>1. /\ oracles' \in [Instances -> Oracle]
        /\ shortest' \in [Instances -> [Indexers -> Nat]]
        /\ \A i \in Instances : SoundOracle(oracles'[i], renewal'[i], shortest'[i], now')
    BY <1>3, TransactionSound DEF SendTransaction
  <2>2. tasks' \subseteq tasks /\ UNCHANGED <<scenario, bundles, executing, renewal, now>>
    BY <1>3 DEF SendTransaction
  <2> QED BY <1>1, <2>1, <2>2 DEF IInv, TypeOK, SoundOracle, Knows
<1>4. CASE SaveForGovernance(call)
  BY <1>1, <1>4, OraclesUntouched DEF SaveForGovernance, SaveBundle
<1>5. CASE TaskDies(call)
  BY <1>1, <1>5, OraclesUntouched DEF TaskDies
<1>6. CASE ExecuteBundle(call)
  <2>1. /\ oracles' \in [Instances -> Oracle]
        /\ shortest' \in [Instances -> [Indexers -> Nat]]
        /\ \A i \in Instances : SoundOracle(oracles'[i], renewal'[i], shortest'[i], now')
    BY <1>6, TransactionSound DEF ExecuteBundle
  <2>2. executing' = call /\ UNCHANGED <<scenario, bundles, tasks, renewal, now>>
    BY <1>6 DEF ExecuteBundle
  <2> QED BY <1>1, <2>1, <2>2 DEF IInv, TypeOK, SoundOracle, Knows
<1> QED
  BY <1>2, <1>3, <1>4, <1>5, <1>6 DEF FinishTask

LEMMA RenewStep ==
  ASSUME IInv, NEW i \in Instances, NEW indexers \in SUBSET Indexers, Renew(i, indexers)
  PROVE  IInv'
<1> DEFINE new == RenewIndexerEligibility(oracles[i], indexers, now)
           last == [x \in Indexers |-> IF x \in indexers THEN now ELSE renewal[i][x]]
           least == [x \in Indexers |-> IF x \in indexers THEN oracles[i].retention
                                       ELSE shortest[i][x]]
<1>1. /\ SoundOracle(oracles[i], renewal[i], shortest[i], now) /\ now \in FirstTime .. MaxTime
      /\ renewal \in [Instances -> [Indexers -> Nat]] /\ oracles \in [Instances -> Oracle]
      /\ shortest \in [Instances -> [Indexers -> Nat]] /\ now \in Nat
  BY Clock DEF IInv, TypeOK
<1>2. SoundOracle(new, last, least, now)
  <2>1. /\ last = [x \in Indexers |-> IF x \in indexers THEN now ELSE renewal[i][x]]
        /\ least = [x \in Indexers |-> IF x \in indexers THEN oracles[i].retention
                                      ELSE shortest[i][x]]
        /\ renewal[i] \in [Indexers -> Nat] /\ shortest[i] \in [Indexers -> Nat]
    BY <1>1
  <2> HIDE DEF last, least
  <2> QED BY <1>1, <2>1, RenewSound
<1>3. last \in [Indexers -> Nat] /\ least \in [Indexers -> Nat]
  <2>1. oracles[i].retention \in Nat
    BY <1>1, PeriodsAssumption DEF SoundOracle, Knows
  <2> QED BY <1>1, <2>1
<1>4. /\ oracles' = [oracles EXCEPT ![i] = new]
      /\ renewal' = [renewal EXCEPT ![i] = last]
      /\ shortest' = [shortest EXCEPT ![i] = least]
      /\ UNCHANGED <<scenario, bundles, tasks, executing, now>>
  BY <1>1 DEF Renew
<1> HIDE DEF new, last, least
<1>5. new \in Oracle
  BY <1>2 DEF SoundOracle, Knows
<1>6. /\ oracles' \in [Instances -> Oracle]
      /\ renewal' \in [Instances -> [Indexers -> Nat]]
      /\ shortest' \in [Instances -> [Indexers -> Nat]]
  BY <1>1, <1>3, <1>4, <1>5
<1>7. \A j \in Instances : SoundOracle(oracles'[j], renewal'[j], shortest'[j], now')
  BY <1>1, <1>2, <1>4 DEF IInv
<1> QED
  BY <1>4, <1>6, <1>7 DEF IInv, TypeOK, SoundOracle, Knows

LEMMA TickStep ==
  ASSUME IInv, Tick
  PROVE  IInv'
<1>1. /\ now \in FirstTime .. MaxTime /\ now < MaxTime /\ now' = now + 1
      /\ UNCHANGED <<scenario, oracles, bundles, tasks, executing, renewal, shortest>>
  BY DEF IInv, TypeOK, Tick
<1>2. now \in Nat /\ now' \in FirstTime .. MaxTime
  BY <1>1, Clock, TasksAssumption
<1>3. ASSUME NEW i \in Instances, NEW x \in Indexers
      PROVE  RenewalKept(oracles[i], x, renewal[i][x], shortest[i][x], now')
  <2>1. /\ RenewalKept(oracles[i], x, renewal[i][x], shortest[i][x], now)
        /\ oracles[i].renewed[x] \in Nat /\ renewal[i][x] \in Nat
        /\ shortest[i][x] \in Nat
    BY DEF IInv, TypeOK, SoundOracle, Knows, Oracle
  <2> QED BY <1>1, <1>2, <2>1 DEF RenewalKept
<1> QED
  BY <1>1, <1>2, <1>3 DEF IInv, TypeOK, SoundOracle, Knows

LEMMA StartSound ==
  ASSUME Init
  PROVE  IInv
<1>1. /\ scenario \in Scenario /\ scenario \in Scenarios
      /\ now = scenario.time /\ now \in FirstTime .. MaxTime
      /\ scenario.retention \in Retentions /\ scenario.retention \in Nat
      /\ scenario.members \in [Instances -> [Roles -> SUBSET Accounts]]
  BY TasksAssumption, PeriodsAssumption DEF Init, Scenario
<1>2. now \in Nat
  BY <1>1, Clock
<1>3. ASSUME NEW i \in Instances
      PROVE  /\ SoundOracle(oracles[i], renewal[i], shortest[i], now)
             /\ renewal[i] \in [Indexers -> Nat]
  <2>1. oracles[i] = [validation |-> FALSE, retention |-> scenario.retention,
                      lastUpdate |-> 0, renewed |-> [x \in Indexers |-> 0], tracked |-> {},
                      members |-> scenario.members[i]]
    BY DEF Init
  <2>2. renewal[i] = [x \in Indexers |-> 0] /\ shortest[i] = [x \in Indexers |-> 0]
    BY DEF Init
  <2>3. oracles[i] \in Oracle
    BY <1>1, <2>1 DEF Oracle
  <2>4. \A x \in Indexers : RenewalKept(oracles[i], x, renewal[i][x], shortest[i][x], now)
    BY <1>2, <2>1, <2>2 DEF RenewalKept
  <2>5. /\ oracles[i].retention \in Retentions
        /\ oracles[i].tracked = {x \in Indexers : oracles[i].renewed[x] > 0}
        /\ renewal[i] \in [Indexers -> Nat]
        /\ \A x \in Indexers : shortest[i][x] <= oracles[i].retention
    BY <1>1, <2>1, <2>2
  <2> QED BY <2>3, <2>4, <2>5 DEF SoundOracle, Knows
<1>4. /\ oracles \in [Instances -> Oracle] /\ renewal \in [Instances -> [Indexers -> Nat]]
      /\ shortest = renewal
  <2>1. \A i \in Instances : oracles[i] \in Oracle
    BY <1>3 DEF SoundOracle, Knows
  <2>2. /\ oracles = [i \in Instances |-> oracles[i]]
        /\ renewal = [i \in Instances |-> renewal[i]] /\ shortest = renewal
    BY DEF Init
  <2> QED BY <1>3, <2>1, <2>2
<1> QED
  BY <1>1, <1>3, <1>4 DEF IInv, TypeOK, Init, SoundOracle, Knows

LEMMA StepSound ==
  ASSUME IInv, [Next]_vars
  PROVE  IInv'
<1>1. CASE \E call \in scenario.requests :
             RunTask(call) \/ FinishTask(call) \/ TaskDies(call) \/ ExecuteBundle(call)
  <2>1. scenario.requests \subseteq Calls
    BY TasksAssumption DEF IInv, TypeOK, Scenario
  <2> QED BY <1>1, <2>1, TaskSteps
<1>2. CASE ArchiveBundle
  BY <1>2, OraclesUntouched DEF ArchiveBundle, IInv, TypeOK
<1>3. CASE ExecutionDies
  BY <1>3, OraclesUntouched DEF ExecutionDies, IInv, TypeOK
<1>4. CASE \E i \in Instances, indexers \in SUBSET Indexers : Renew(i, indexers)
  BY <1>4, RenewStep
<1>5. CASE Tick
  BY <1>5, TickStep
<1>6. CASE UNCHANGED vars
  BY <1>6, OraclesUntouched DEF vars, IInv, TypeOK
<1> QED
  BY <1>1, <1>2, <1>3, <1>4, <1>5, <1>6 DEF Next

-----------------------------------------------------------------------------
(* What follows for every behaviour.                                       *)

(* The invariant holds in every reachable state.                           *)
THEOREM TasksInvariance == Spec => []IInv
<1>1. Init => IInv
  BY StartSound
<1>2. IInv /\ [Next]_vars => IInv'
  BY StepSound
<1> QED
  BY <1>1, <1>2, PTL DEF Spec

(* OraclesSound for every instance, period and retention: an indexer is    *)
(* eligible for the whole period after a renewal, or as long as the        *)
(* shortest retention since, whatever tasks run, die or act on old checks. *)
THEOREM OraclesSoundAlways == Spec => []OraclesSound
<1>1. ASSUME IInv, NEW i \in Instances, NEW x \in Indexers,
             renewal[i][x] > 0, now < renewal[i][x] + Period,
             now < renewal[i][x] + shortest[i][x]
      PROVE  IsEligible(oracles[i], x, now)
  <2>1. /\ RenewalKept(oracles[i], x, renewal[i][x], shortest[i][x], now)
        /\ oracles[i].renewed[x] \in Nat /\ renewal[i][x] \in Nat /\ now \in Nat
        /\ Period \in Nat /\ shortest[i][x] \in Nat
    BY <1>1, Clock DEF IInv, TypeOK, SoundOracle, Knows, Oracle
  <2> QED BY <1>1, <2>1 DEF RenewalKept, IsEligible
<1>2. IInv => OraclesSound
  BY <1>1 DEF IInv, OraclesSound, RenewedIsEligible
<1> QED
  BY <1>2, TasksInvariance, PTL

(* StatusTruthful for every instance, period, timeout and skew of the      *)
(* clocks: what reo:status shows is what the contract answers, up to the   *)
(* clock it goes by.                                                       *)
THEOREM StatusTruthfulAlways == Spec => []StatusTruthful
<1>1. ASSUME IInv, NEW i \in Instances, NEW x \in Indexers
      PROVE  /\ RenewalKept(oracles[i], x, renewal[i][x], shortest[i][x], now)
             /\ oracles[i].renewed[x] \in Nat /\ renewal[i][x] \in Nat
             /\ oracles[i].lastUpdate \in Nat /\ oracles[i].validation \in BOOLEAN
             /\ now \in Nat /\ Period \in Nat /\ Timeout \in Nat
  BY <1>1, Clock, PeriodsAssumption DEF IInv, TypeOK, SoundOracle, Knows, Oracle
<1>2. ASSUME IInv, NEW i \in Instances, NEW x \in Indexers, NEW local \in LocalTimes
      PROVE  /\ EffectivelyDisabled(i, local) /\ local <= now => IsEligible(oracles[i], x, now)
             /\ (/\ ~EffectivelyDisabled(i, local) /\ local >= now
                 /\ oracles[i].lastUpdate > 0 /\ IsEligible(oracles[i], x, now))
                => now < renewal[i][x] + Period
  <2>1. local \in Int
    BY <1>1, <1>2, TasksAssumption DEF LocalTimes
  <2>2. /\ RenewalKept(oracles[i], x, renewal[i][x], shortest[i][x], now)
        /\ oracles[i].renewed[x] \in Nat /\ renewal[i][x] \in Nat
        /\ oracles[i].lastUpdate \in Nat /\ oracles[i].validation \in BOOLEAN
        /\ now \in Nat /\ Period \in Nat /\ Timeout \in Nat
    BY <1>1, <1>2
  <2>3. ASSUME EffectivelyDisabled(i, local), local <= now
        PROVE  IsEligible(oracles[i], x, now)
    BY <2>1, <2>2, <2>3 DEF EffectivelyDisabled, IsEligible
  <2>4. ASSUME ~EffectivelyDisabled(i, local), local >= now, oracles[i].lastUpdate > 0,
               IsEligible(oracles[i], x, now)
        PROVE  now < renewal[i][x] + Period
    <3>1. now < oracles[i].renewed[x] + Period
      BY <2>1, <2>2, <2>4 DEF EffectivelyDisabled, IsEligible
    <3> QED BY <2>2, <3>1 DEF RenewalKept
  <2> QED BY <2>3, <2>4
<1>3. ASSUME IInv, NEW i \in Instances, NEW x \in Indexers,
             oracles[i].lastUpdate = 0, Timeout < now
      PROVE  IsEligible(oracles[i], x, now)
  BY <1>1, <1>3 DEF IsEligible
<1>4. IInv => StatusTruthful
  BY <1>2, <1>3 DEF StatusTruthful
<1> QED
  BY <1>4, TasksInvariance, PTL
=============================================================================
