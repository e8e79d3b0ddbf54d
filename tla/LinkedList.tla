----------------------------- MODULE LinkedList -----------------------------
(***************************************************************************)
(* The LinkedList library with the callers' part of adding an item, as it  *)
(* lies in storage: each list has a head, a tail, a count and a nonce; the *)
(* items of all lists are in one mapping and point to the next item.       *)
(*                                                                         *)
(* The id of an item is the hash of its list and of the list's nonce, so   *)
(* it is that pair here.  Of an item only its link is kept; deleting it    *)
(* clears the link.                                                        *)
(***************************************************************************)
EXTENDS Integers, Sequences, FiniteSets

CONSTANTS
  Lists,                  \* e.g. one list per owner of thaw requests
  MaxItems,               \* MAX_ITEMS
  MaxNonce,               \* bound on the items ever added to one list
  NoItem                  \* bytes32(0)

Ids == Lists \X (0 .. MaxNonce - 1)

ASSUME ListAssumption == MaxItems \in Nat \ {0} /\ MaxNonce \in Nat /\ NoItem \notin Ids

VARIABLES
  lists,                  \* the metadata of every list
  nextItem,               \* the link of every item; NoItem too if it is not stored
  stored                  \* the items that are stored

listVars == <<lists, nextItem, stored>>

ListInit ==
  /\ lists = [l \in Lists |-> [head |-> NoItem, tail |-> NoItem, nonce |-> 0, count |-> 0]]
  /\ nextItem = [id \in Ids |-> NoItem]
  /\ stored = {}

(* Mutant: the head is set by the very first item only.                    *)
AddTail_FirstEver(list, id) ==
  [list EXCEPT !.tail = id, !.nonce = @ + 1, !.count = @ + 1,
               !.head = IF list.nonce = 0 THEN id ELSE @]

AddTail(list, id) ==
  [list EXCEPT !.tail = id, !.nonce = @ + 1, !.count = @ + 1,
               !.head = IF list.count = 0 THEN id ELSE @]

(* A caller stores an item, links the old tail to it and adds it.          *)
AddItem(l) ==
  LET list == lists[l]
      id   == <<l, list.nonce>>
  IN  /\ list.nonce < MaxNonce
      /\ list.count < MaxItems
      /\ stored' = stored \cup {id}
      /\ nextItem' = [i \in Ids |-> IF i = id THEN NoItem
                                    ELSE IF i = list.tail /\ list.count # 0 THEN id
                                    ELSE nextItem[i]]
      /\ lists' = [lists EXCEPT ![l] = AddTail(list, id)]

(* Mutant: the item is deleted before its link is read.                    *)
RemoveHead_DeletesFirst(s) ==
  [list   |-> [s.list EXCEPT !.head = NoItem, !.count = @ - 1,
                             !.tail = IF s.list.count = 1 THEN NoItem ELSE @],
   next   |-> [s.next EXCEPT ![s.list.head] = NoItem],
   stored |-> s.stored \ {s.list.head}]

(* The list, the links and the stored items after the head is removed.     *)
RemoveHead(s) ==
  [list   |-> [s.list EXCEPT !.head = s.next[s.list.head], !.count = @ - 1,
                             !.tail = IF s.list.count = 1 THEN NoItem ELSE @],
   next   |-> [s.next EXCEPT ![s.list.head] = NoItem],
   stored |-> s.stored \ {s.list.head}]

(* The loop of traverse, which stops at the end of the list, or at an item *)
(* that processItem does not accept.                                       *)
Traversed(l, limit, notReady) ==
  LET after[i \in 0 .. limit] ==
        IF i = 0 THEN [list |-> lists[l], next |-> nextItem, stored |-> stored]
        ELSE IF after[i - 1].list.head \in notReady \cup {NoItem} THEN after[i - 1]
        ELSE RemoveHead(after[i - 1])
  IN  after[limit]

Traverse(l, iterations, notReady) ==
  LET result == Traversed(l, IF iterations = 0 THEN lists[l].count ELSE iterations, notReady)
  IN  /\ iterations <= lists[l].count
      /\ lists' = [lists EXCEPT ![l] = result.list]
      /\ nextItem' = result.next
      /\ stored' = result.stored

ListNext ==
  \E l \in Lists :
    \/ AddItem(l)
    \/ \E iterations \in 0 .. MaxItems, notReady \in SUBSET stored :
         Traverse(l, iterations, notReady)

ListSpec == ListInit /\ [][ListNext]_listVars

-----------------------------------------------------------------------------
(* The items of a list, found by following the links from its head.        *)
Items(l) ==
  LET item[i \in 1 .. lists[l].count] ==
        IF i = 1 THEN lists[l].head ELSE nextItem[item[i - 1]]
  IN  item

ItemsOf(l) == {Items(l)[i] : i \in 1 .. lists[l].count}

(* Head, tail, count and links agree: as many links as the list counts lead*)
(* from its head to its tail and end there.  The lists do not share items, *)
(* although they share the mapping, and no item is stored outside a list.  *)
WellLinked ==
  /\ \A l \in Lists :
       IF lists[l].count = 0 THEN lists[l].head = NoItem /\ lists[l].tail = NoItem
       ELSE /\ ItemsOf(l) \subseteq {l} \X (0 .. lists[l].nonce - 1)
            /\ Cardinality(ItemsOf(l)) = lists[l].count
            /\ Items(l)[lists[l].count] = lists[l].tail
            /\ nextItem[lists[l].tail] = NoItem
  /\ stored = UNION {ItemsOf(l) : l \in Lists}

-----------------------------------------------------------------------------
(* The lists implement the queues that the contracts take them for.        *)
Queues == INSTANCE ItemQueue WITH queue <- [l \in Lists |-> Items(l)]

ImplementsQueues == Queues!Spec
=============================================================================
