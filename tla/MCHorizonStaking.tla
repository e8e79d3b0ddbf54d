-------------------------- MODULE MCHorizonStaking --------------------------
(* HorizonStaking for TLC: the roles of the addresses may be permuted.     *)
EXTENDS HorizonStaking, TLC

VerifierSymmetry  == Permutations(Verifiers)
DelegatorSymmetry == Permutations(Delegators)
=============================================================================
