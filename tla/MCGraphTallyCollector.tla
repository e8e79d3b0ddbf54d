----------------------- MODULE MCGraphTallyCollector ------------------------
(* GraphTallyCollector for TLC, with the RAVs of the runs.                 *)
EXTENDS GraphTallyCollector, TLC

CONSTANTS p1, p2, r1, s1, k1, c1, c2

Voucher(payer, collection, value) ==
  [collectionId |-> collection, payer |-> payer, serviceProvider |-> r1,
   dataService |-> s1, valueAggregate |-> value, signer |-> k1]

(* One key has signed for two payers of one receiver; one of them owes for *)
(* two collections out of one account, for one of them by two vouchers.    *)
TwoPayers ==
  {Voucher(p1, c1, 2), Voucher(p1, c1, 1), Voucher(p1, c2, 1), Voucher(p2, c1, 2)}
=============================================================================
