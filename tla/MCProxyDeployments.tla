------------------------- MODULE MCProxyDeployments -------------------------
(* ProxyDeployments for TLC: one operator, to whom everything happens, or   *)
(* two with different checkouts, of a contract that was recorded in full,   *)
(* as it was where a Safe governs.  Alone with a Safe, the operator finds a *)
(* GraphProxy behind the checkout, as a transparent proxy would be, or a    *)
(* shared implementation up to date, until the checkout changes.            *)
(* The versions of the code, and the operators, are the same to every       *)
(* definition: the first comes first.                                       *)
EXTENDS ProxyDeployments

First(set) == CHOOSE x \in set : TRUE
MCBound == <<1, 0>>

MCUnderSafe ==
  /\ EntryExists(book)
  /\ \/ proxyType = "graph" /\ First(Artifacts) # code[1]
     \/ proxyType = "shared" /\ First(Artifacts) = code[1]

MCInit ==
  /\ Init
  /\ First(Operators) \in Team /\ artifact[First(Operators)] = First(Artifacts)
  /\ \A operator \in Team \ {First(Operators)} :
       /\ artifact[operator] # First(Artifacts)
       /\ GetDeploymentMetadata(ArtifactEntry).block > 0
  /\ governorIsSafe /\ EntryExists(book) => GetDeploymentMetadata(ArtifactEntry).block > 0
  /\ governorIsSafe /\ Alone => MCUnderSafe

MCSpec == MCInit /\ [][Next]_vars /\ Fairness
=============================================================================
