-------------------------- MODULE MCGip0088Rollout --------------------------
(* Gip0088Rollout for TLC: less than half of the rate is shared, so that    *)
(* issuance_allocate puts the share before the rest.                        *)
EXTENDS Gip0088Rollout

MCNetworks ==
  {[governor |-> "sign", fresh |-> {"IA", "RAM", "REO"}, rate |-> 3, share |-> 1,
    oracle |-> FALSE, closeGuard |-> FALSE],
   [governor |-> "sign", fresh |-> {"IA"}, rate |-> 3, share |-> 1,
    oracle |-> TRUE, closeGuard |-> TRUE],
   [governor |-> "key", fresh |-> {"IA"}, rate |-> 3, share |-> 1,
    oracle |-> FALSE, closeGuard |-> FALSE],
   [governor |-> "safe", fresh |-> {}, rate |-> 3, share |-> 1,
    oracle |-> FALSE, closeGuard |-> FALSE]}

(* A network whose RewardsManager issues nothing yet.                      *)
MCNoIssuance ==
  {[governor |-> "key", fresh |-> {"IA", "RAM"}, rate |-> 0, share |-> 0,
    oracle |-> FALSE, closeGuard |-> FALSE]}

MCMaxCrashes == [sign |-> 1, key |-> 1, safe |-> 0]
=============================================================================
