-------------------------------- MODULE Mutex --------------------------------
(***************************************************************************)
(* What a lock promises the threads that use it: at most one is inside,    *)
(* and while some thread tries to enter and none is inside, one gets in.   *)
(***************************************************************************)
CONSTANT Threads

VARIABLE status               \* per thread: "out", "trying" or "in"

Init == status = [t \in Threads |-> "out"]

Free == \A t \in Threads : status[t] # "in"

Try(t) ==
  /\ status[t] = "out"
  /\ status' = [status EXCEPT ![t] = "trying"]

\* Of a thread that tries, or of one that finds the lock free at once.
Enter(t) ==
  /\ Free
  /\ status' = [status EXCEPT ![t] = "in"]

Leave(t) ==
  /\ status[t] = "in"
  /\ status' = [status EXCEPT ![t] = "out"]

Next == \E t \in Threads : Try(t) \/ Enter(t) \/ Leave(t)

\* Whenever threads try and nobody is inside for long enough, one enters.
Admit == \E t \in Threads : status[t] = "trying" /\ Enter(t)

SafeSpec == Init /\ [][Next]_status

Spec == SafeSpec /\ WF_status(Admit)
=============================================================================
