-------------------------------- MODULE Deques --------------------------------
(***************************************************************************)
(* What lib/list.c promises: sequences, in which an element is at most     *)
(* once, with insertion and removal at both ends and in the middle.  call  *)
(* is the last call: function, arguments and result.                       *)
(***************************************************************************)
EXTENDS Sequences, SequencesExt

CONSTANTS Heads, Elems

VARIABLES q, call

vars == <<q, call>>

Members == UNION {ToSet(q[l]) : l \in Heads}

Init == q = [l \in Heads |-> <<>>] /\ call = <<>>

PushFront(l, e) ==
  /\ e \notin Members
  /\ q' = [q EXCEPT ![l] = <<e>> \o @]
  /\ call' = <<"push_front", l, e>>

PushBack(l, e) ==
  /\ e \notin Members
  /\ q' = [q EXCEPT ![l] = Append(@, e)]
  /\ call' = <<"push_back", l, e>>

\* Before the i-th element of l, or before the head of l: at its end.
Insert(l, i, e) ==
  /\ e \notin Members
  /\ q' = [q EXCEPT ![l] = InsertAt(@, i, e)]
  /\ call' = <<"insert", IF i > Len(q[l]) THEN l ELSE q[l][i], e>>

\* The node that followed is returned, which is the head at the end.
RemoveNth(l, i) ==
  /\ q' = [q EXCEPT ![l] = RemoveAt(@, i)]
  /\ call' = <<"remove", q[l][i], IF i = Len(q[l]) THEN l ELSE q[l][i + 1]>>

PopFront(l) ==
  /\ q[l] # <<>>
  /\ q' = [q EXCEPT ![l] = Tail(@)]
  /\ call' = <<"pop_front", l, Head(q[l])>>

PopBack(l) ==
  /\ q[l] # <<>>
  /\ q' = [q EXCEPT ![l] = Front(@)]
  /\ call' = <<"pop_back", l, Last(q[l])>>

Next ==
  \E l \in Heads :
    \/ \E e \in Elems : PushFront(l, e) \/ PushBack(l, e)
    \/ \E e \in Elems, i \in 1..(Len(q[l]) + 1) : Insert(l, i, e)
    \/ \E i \in DOMAIN q[l] : RemoveNth(l, i)
    \/ PopFront(l) \/ PopBack(l)

Spec == Init /\ [][Next]_vars

=============================================================================
