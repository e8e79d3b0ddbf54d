---------------------------- MODULE MCTokenLocks ----------------------------
(* TokenLocks for TLC, in five scenarios.                                   *)
EXTENDS TokenLocks

MCDeployFile == <<"e1", "e2">>
MCAmount == [e \in {"e1", "e2"} |-> 1]

Purse(d, s) == [deployer |-> d, safe |-> s]

(* The deployer owns the manager, funds it and creates the locks.           *)
MCDirect ==
  [owner |-> Deployer, lockOwner |-> Safe, purse |-> Purse(4, 0),
   requests |-> {<<"create">>, <<"deposit", 1>>, <<"accept", "e1">>,
                 <<"batch", "cancel", "e1">>},
   goals |-> {<<"create">>, <<"deposit", 1>>}]

(* The Safe owns it; the deployer may deposit.                              *)
MCBatch ==
  [owner |-> Safe, lockOwner |-> Deployer, purse |-> Purse(1, 3),
   requests |-> {<<"batch", "create">>, <<"deposit", 1>>, <<"accept", "e1">>, <<"cancel", "e1">>},
   goals |-> {<<"batch", "create">>}]

(* The functions and destinations, before and after the Safe takes over.    *)
MCAuth ==
  [owner |-> Deployer, lockOwner |-> Safe, purse |-> Purse(0, 0),
   requests |-> {<<"setup-auth">>, <<"update-auth">>, <<"batch", "update-auth">>,
                 <<"transfer", Safe>>},
   goals |-> {<<"update-auth">>, <<"batch", "update-auth">>}]

(* The manager changes hands while locks are created from its funds.        *)
MCHandover ==
  [owner |-> Deployer, lockOwner |-> Deployer, purse |-> Purse(2, 0),
   requests |-> {<<"create">>, <<"batch", "create">>, <<"deposit", 2>>, <<"transfer", Safe>>},
   goals |-> {}]

(* Its funds are withdrawn too.                                             *)
MCWithdrawal ==
  [MCHandover EXCEPT !.requests = (@ \ {<<"batch", "create">>}) \union {<<"withdraw", 1>>}]

MCScenarios == {MCDirect, MCBatch, MCAuth, MCHandover, MCWithdrawal}
=============================================================================
