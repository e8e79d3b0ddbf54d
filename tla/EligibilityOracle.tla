-------------------------- MODULE EligibilityOracle --------------------------
(***************************************************************************)
(* RewardsEligibilityOracle.sol: which indexers earn rewards.  An oracle    *)
(* renews the eligibility of an indexer, which then lasts for a period;     *)
(* when no oracle reports any more, everybody is eligible.  The state of an *)
(* instance is a record, and an operation is an operator on it.             *)
(***************************************************************************)
EXTENDS Naturals

CONSTANTS
  Accounts, Indexers,
  Period,         \* eligibilityPeriod
  Timeout,        \* oracleUpdateTimeout
  Retentions      \* the values of indexerRetentionPeriod

(* The contract takes any period in any order, and so does reo:retention.   *)
ASSUME PeriodsAssumption == Period \in Nat /\ Timeout \in Nat /\ Retentions \subseteq Nat

Roles == {"GOVERNOR", "OPERATOR", "ORACLE"}
AdminOf(role) == IF role = "ORACLE" THEN "OPERATOR" ELSE "GOVERNOR"

(* renewed: the time of the last renewal, 0 if there is none.               *)
Oracle == [validation: BOOLEAN, retention: Nat, lastUpdate: Nat,
           renewed: [Indexers -> Nat], tracked: SUBSET Indexers,
           members: [Roles -> SUBSET Accounts]]

HasRole(oracle, role, account) == account \in oracle.members[role]

IsEligible(oracle, indexer, now) ==
  \/ ~oracle.validation
  \/ oracle.lastUpdate + Timeout < now
  \/ now < oracle.renewed[indexer] + Period

RenewIndexerEligibility(oracle, indexers, now) ==
  LET updated == {i \in indexers : oracle.renewed[i] < now}
  IN [oracle EXCEPT !.lastUpdate = now,
                    !.renewed = [i \in Indexers |-> IF i \in updated THEN now ELSE @[i]],
                    !.tracked = @ \union updated]

(* Mutant: whoever is not renewed in this block may be removed.             *)
RemoveExpiredIndexer_NotRenewed(oracle, indexer, now) ==
  IF indexer \notin oracle.tracked \/ now <= oracle.renewed[indexer]
  THEN oracle
  ELSE [oracle EXCEPT !.tracked = @ \ {indexer}, !.renewed[indexer] = 0]

RemoveExpiredIndexer(oracle, indexer, now) ==
  IF indexer \notin oracle.tracked \/ now < oracle.renewed[indexer] + oracle.retention
  THEN oracle
  ELSE [oracle EXCEPT !.tracked = @ \ {indexer}, !.renewed[indexer] = 0]
=============================================================================
