------------------------------ MODULE MCLibrary ------------------------------
(***************************************************************************)
(* The light lock and the data structures of lib/ for TLC.  They share no  *)
(* state: each behaviour exercises one of them, and the others stay as     *)
(* they were initialised.                                                  *)
(***************************************************************************)
EXTENDS LightLock, IdPool, List, Hmap, PollEvent, PktList

VARIABLE which              \* the structure exercised

\* Two nodes of one hash value, and values that fall into one bucket of four
\* and into two of eight.
EightHashes == [x \in 1..8 |-> IF x < 3 THEN 5 ELSE IF x = 3 THEN 1 ELSE x - 3]

Init ==
  /\ which \in {"lock", "pool", "list", "hmap", "poll", "packets"}
  /\ LockInit /\ PoolInit /\ ListStart /\ TableInit /\ PollInit /\ PktInit

Next ==
  \/ /\ which = "lock" /\ LockNext
     /\ UNCHANGED <<which, poolVars, listVars, tableVars, pollVars, pktVars>>
  \/ /\ which = "pool" /\ PoolNext
     /\ UNCHANGED <<which, lockVars, listVars, tableVars, pollVars, pktVars>>
  \/ /\ which = "list" /\ ListNext
     /\ UNCHANGED <<which, lockVars, poolVars, tableVars, pollVars, pktVars>>
  \/ /\ which = "hmap" /\ TableNext
     /\ UNCHANGED <<which, lockVars, poolVars, listVars, pollVars, pktVars>>
  \/ /\ which = "poll" /\ PollNext
     /\ UNCHANGED <<which, lockVars, poolVars, listVars, tableVars, pktVars>>
  \/ /\ which = "packets" /\ PktNext
     /\ UNCHANGED <<which, lockVars, poolVars, listVars, tableVars, pollVars>>

\* The lock is fair in its initial state, where nothing is to be done.
Fairness ==
  /\ LockFairness
  /\ WF_pollVars(which = "poll" /\ Returns)
  /\ WF_pollVars(which = "poll" /\ Tick)

Spec == Init /\ [][Next]_<<which, lockVars, poolVars, listVars, tableVars, pollVars, pktVars>>
             /\ Fairness

=============================================================================
