------------------------ MODULE MCIssuanceAllocator -------------------------
(* IssuanceAllocator for TLC: targets may be permuted.                     *)
EXTENDS IssuanceAllocator, TLC

TargetSymmetry == Permutations(Targets)
=============================================================================
