------------------------------ MODULE ItemQueue -----------------------------
(***************************************************************************)
(* What the contracts rely on when they keep thaw requests or stake claims *)
(* in a LinkedList: every list is a queue of items.  New items go to the   *)
(* end; a traversal takes items off the front, in order, until it reaches  *)
(* one that is not ready, or the number of items it was asked for.         *)
(***************************************************************************)
EXTENDS Naturals, Sequences

CONSTANTS Lists, MaxItems, MaxNonce

VARIABLE queue

Init == queue = [l \in Lists |-> <<>>]

(* The ids of a list are numbered, and no two items have the same one.     *)
AddItem(l, id) ==
  /\ Len(queue[l]) < MaxItems
  /\ \A m \in Lists : \A i \in 1 .. Len(queue[m]) : queue[m][i] # id
  /\ queue' = [queue EXCEPT ![l] = Append(@, id)]

(* How many items a traversal takes off.                                   *)
ItemsReady(q, limit, notReady) ==
  CHOOSE k \in 0 .. limit : /\ \A i \in 1 .. k : q[i] \notin notReady
                            /\ k < limit => q[k + 1] \in notReady

TraverseItems(l, iterations, notReady) ==
  LET limit == IF iterations = 0 THEN Len(queue[l]) ELSE iterations
      k     == ItemsReady(queue[l], limit, notReady)
  IN  /\ iterations <= Len(queue[l])
      /\ queue' = [queue EXCEPT ![l] = SubSeq(@, k + 1, Len(@))]

Next ==
  \E l \in Lists :
    \/ \E id \in {l} \X (0 .. MaxNonce - 1) : AddItem(l, id)
    \/ \E iterations \in 0 .. MaxItems,
          notReady \in SUBSET {queue[l][i] : i \in 1 .. Len(queue[l])} :
         TraverseItems(l, iterations, notReady)

Spec == Init /\ [][Next]_queue
=============================================================================
