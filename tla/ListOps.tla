-------------------------------- MODULE ListOps --------------------------------
(***************************************************************************)
(* The doubly linked circular lists of lib/list.c, at the level of their   *)
(* pointers.  A memory m holds the two pointers of every node; a list is a *)
(* head node whose ring leads through its elements.  Each operator is a C  *)
(* function, with its assignments in order: aliases among the nodes matter *)
(* (PktList shows what they can do).                                       *)
(***************************************************************************)
EXTENDS Integers, Sequences

CONSTANTS Heads, Elems      \* struct list objects: list heads, embedded nodes

Nodes == Heads \cup Elems

Memories == [next : [Nodes -> Nodes], prev : [Nodes -> Nodes]]

ListInit(m, l) ==
  [next |-> [m.next EXCEPT ![l] = l], prev |-> [m.prev EXCEPT ![l] = l]]

ListInsert(m, before, elem) ==
  LET prev1 == [m.prev EXCEPT ![elem] = m.prev[before]]
      next1 == [m.next EXCEPT ![elem] = before]
  IN [next |-> [next1 EXCEPT ![prev1[before]] = elem],
      prev |-> [prev1 EXCEPT ![before] = elem]]

ListPushFront(m, l, elem) == ListInsert(m, m.next[l], elem)

ListPushBack(m, l, elem) == ListInsert(m, l, elem)

\* Mutation of ListRemove: only the forward pointers skip the element.
ListRemoveOneWay(m, elem) ==
  [m EXCEPT !.next[m.prev[elem]] = m.next[elem]]

ListRemove(m, elem) ==
  LET next1 == [m.next EXCEPT ![m.prev[elem]] = m.next[elem]]
  IN [next |-> next1, prev |-> [m.prev EXCEPT ![next1[elem]] = m.prev[elem]]]

ListFront(m, l) == m.next[l]

ListBack(m, l) == m.prev[l]

ListIsEmpty(m, l) == m.next[l] = l

=============================================================================
