--------------------------- MODULE MCOperatorTasks ---------------------------
(* OperatorTasks for TLC, in two scenarios.                                *)
EXTENDS OperatorTasks

(* The governor operates instance A, and is to operate B; on both a new     *)
(* account is to be an oracle.  The deployer has no key.                    *)
MCGoals == {Grant("A", "ORACLE", "new"), Grant("B", "ORACLE", "new"),
            Grant("B", "OPERATOR", Governor)}

MCRoles ==
  [requests |-> MCGoals \union {Grant("A", "GOVERNOR", "new"), Revoke("A", "GOVERNOR", "new")},
   goals |-> MCGoals, time |-> MaxTime, retention |-> 3, keyed |-> FALSE,
   members |-> [A |-> [GOVERNOR |-> {Governor}, OPERATOR |-> {Governor}, ORACLE |-> {}],
                B |-> [GOVERNOR |-> {Governor}, OPERATOR |-> {}, ORACLE |-> {}]]]

(* The reporter works, and the settings of A change.                        *)
MCSettings ==
  [requests |-> {Grant("A", "OPERATOR", Deployer),
                 Validation("A", "on"), Validation("A", "off"), Retention("A", 1),
                 Removal("A", "indexer")},
   goals |-> {}, time |-> FirstTime, retention |-> 3, keyed |-> TRUE,
   members |-> [A |-> [GOVERNOR |-> {Governor}, OPERATOR |-> {Governor}, ORACLE |-> {Reporter}],
                B |-> [GOVERNOR |-> {Governor}, OPERATOR |-> {}, ORACLE |-> {}]]]

MCScenarios == {MCRoles, MCSettings}
=============================================================================
