-------------------------------- MODULE IdFifo --------------------------------
(***************************************************************************)
(* What the id pool promises: an id is handed out to one holder at a time, *)
(* none is lost, and a released id is handed out again only after all that *)
(* were free before it (so that a number is reused as late as possible).   *)
(***************************************************************************)
EXTENDS Naturals, Sequences, FiniteSets

CONSTANT NumIds

Ids == 0..(NumIds - 1)

VARIABLES
  free,                     \* the free ids, in the order they will be given
  held                      \* the ids that are with a holder

Init ==
  /\ free = [i \in 1..NumIds |-> i - 1]
  /\ held = {}

Get ==
  /\ free # <<>>
  /\ free' = Tail(free)
  /\ held' = held \cup {Head(free)}

\* The orders in which the ids of a set can be given back.
Orders(S) == {s \in [1..Cardinality(S) -> S] : \A i \in S : \E j \in DOMAIN s : s[j] = i}

\* One or more holders give their ids back.
Release ==
  \E S \in SUBSET held : \E s \in Orders(S) :
    /\ free' = free \o s
    /\ held' = held \ S

Next == Get \/ Release

Spec == Init /\ [][Next]_<<free, held>>
=============================================================================
