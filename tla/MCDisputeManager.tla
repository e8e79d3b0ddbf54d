-------------------------- MODULE MCDisputeManager --------------------------
(* DisputeManager for TLC: one fisherman holds conflicting attestations of *)
(* an indexer, which is also disputed for an allocation and an agreement.  *)
EXTENDS DisputeManager, TLC

CONSTANTS f1, i1, q1, q2, x1, y1

MCIndexerOf    == [id \in {q1, q2, x1, y1} |-> i1]
MCFishermanOf  == [id \in {q1, q2} |-> f1]
MCRequestOf    == [id \in {q1, q2} |-> "request"]
MCResponseOf   == (q1 :> "one") @@ (q2 :> "another")
=============================================================================
