--------------------------------- MODULE List ---------------------------------
(***************************************************************************)
(* lib/list.c as its callers use it: an element is inserted when it is in  *)
(* no list and removed when it is in one, and pops are of lists that are   *)
(* not empty.  owner is what the callers know: the list of each element.   *)
(***************************************************************************)
EXTENDS ListOps, FiniteSets

CONSTANT Nowhere            \* the owner of an element that is in no list

ASSUME NodesAssumption ==
  Heads \cap Elems = {} /\ Nowhere \notin Heads /\ IsFiniteSet(Elems)

VARIABLES m, owner, call

listVars == <<m, owner, call>>

Linked == {e \in Elems : owner[e] # Nowhere}

ListOf(n) == IF n \in Heads THEN n ELSE owner[n]

\* list_init of the heads; the pointers of elements are not initialised.
ListStart ==
  /\ m = [next |-> [n \in Nodes |-> n], prev |-> [n \in Nodes |-> n]]
  /\ owner = [e \in Elems |-> Nowhere]
  /\ call = <<>>

Links(e, l) == owner[e] = Nowhere /\ owner' = [owner EXCEPT ![e] = l]

Unlinks(e) == owner' = [owner EXCEPT ![e] = Nowhere]

Insert(before, e) ==
  /\ Links(e, ListOf(before))
  /\ m' = ListInsert(m, before, e)
  /\ call' = <<"insert", before, e>>

PushFront(l, e) ==
  /\ Links(e, l)
  /\ m' = ListPushFront(m, l, e)
  /\ call' = <<"push_front", l, e>>

PushBack(l, e) ==
  /\ Links(e, l)
  /\ m' = ListPushBack(m, l, e)
  /\ call' = <<"push_back", l, e>>

Remove(e) ==
  /\ e \in Linked
  /\ Unlinks(e)
  /\ m' = ListRemove(m, e)
  /\ call' = <<"remove", e, m.next[e]>>

\* Mutation of PopFront: the node is taken at the wrong end.
PopFrontBack(l) ==
  /\ ~ListIsEmpty(m, l)
  /\ Unlinks(ListBack(m, l))
  /\ m' = ListRemove(m, ListBack(m, l))
  /\ call' = <<"pop_front", l, ListBack(m, l)>>

PopFront(l) ==
  /\ ~ListIsEmpty(m, l)
  /\ Unlinks(ListFront(m, l))
  /\ m' = ListRemove(m, ListFront(m, l))
  /\ call' = <<"pop_front", l, ListFront(m, l)>>

PopBack(l) ==
  /\ ~ListIsEmpty(m, l)
  /\ Unlinks(ListBack(m, l))
  /\ m' = ListRemove(m, ListBack(m, l))
  /\ call' = <<"pop_back", l, ListBack(m, l)>>

ListNext ==
  \/ \E before \in Heads \cup Linked, e \in Elems : Insert(before, e)
  \/ \E l \in Heads, e \in Elems : PushFront(l, e) \/ PushBack(l, e)
  \/ \E e \in Elems : Remove(e)
  \/ \E l \in Heads : PopFront(l) \/ PopBack(l)

ListSpec == ListStart /\ [][ListNext]_listVars

-----------------------------------------------------------------------------
\* From a head or an element that is in a list both pointers lead to one of
\* the same list and back: list_remove never follows a pointer that a removed
\* (and freed) node left behind, and pops of one list leave the others alone.
Ring ==
  \A n \in Heads \cup Linked :
    /\ m.next[n] \in Heads \cup Linked /\ ListOf(m.next[n]) = ListOf(n)
    /\ m.prev[n] \in Heads \cup Linked /\ ListOf(m.prev[n]) = ListOf(n)
    /\ m.prev[m.next[n]] = n /\ m.next[m.prev[n]] = n

\* What a walk from l meets before it is back (list_size counts it; in an empty
\* list it does not start).
Contents(l) ==
  LET walk[i \in 0..Cardinality(Elems)] ==
        IF i = 0 THEN <<>>
        ELSE LET met == walk[i - 1]
                 node == m.next[IF met = <<>> THEN l ELSE met[Len(met)]]
             IN IF node = l THEN met ELSE Append(met, node)
  IN IF ListIsEmpty(m, l) THEN <<>> ELSE walk[Cardinality(Elems)]

Seqs == INSTANCE Deques WITH q <- [l \in Heads |-> Contents(l)]

\* Walked from its head, each list is the sequence that its insertions and
\* removals make; the others are not touched, and each call returns what its
\* comment in list.c says.
ImplementsDeques == Seqs!Spec

=============================================================================
