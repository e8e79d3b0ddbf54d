---------------------------- MODULE MCLinkedList ----------------------------
(* LinkedList for TLC: lists may be permuted.                              *)
EXTENDS LinkedList, TLC

ListSymmetry == Permutations(Lists)
=============================================================================
