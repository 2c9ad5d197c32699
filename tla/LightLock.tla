------------------------------ MODULE LightLock ------------------------------
(***************************************************************************)
(* The light lock (include/atomic.h), which guards every list and session: *)
(* an atomic count of the threads inside or waiting, and a semaphore that  *)
(* is only touched under contention.  A thread that raises the count from  *)
(* zero is in; any other waits on the semaphore; a thread that leaves and  *)
(* still counts others posts it.  Between the atomic step and the          *)
(* semaphore call a thread can be preempted, so they are separate actions. *)
(***************************************************************************)
EXTENDS Integers, FiniteSets

CONSTANT Threads

ASSUME ThreadsAssumption == IsFiniteSet(Threads)

VARIABLES
  cnt,      \* light_lock_t.cnt (unsigned; never near 2^32 threads)
  sem,      \* value of the POSIX semaphore light_lock_t.sem
  pc        \* where each thread is

lockVars == <<cnt, sem, pc>>

\* _lock_init
LockInit ==
  /\ cnt = 0 /\ sem = 0
  /\ pc = [t \in Threads |-> "idle"]

\* _lock, up to the semaphore: __atomic_fetch_add returns the old count
Acquire(t) ==
  /\ pc[t] = "idle"
  /\ cnt' = cnt + 1
  /\ pc' = [pc EXCEPT ![t] = IF cnt > 0 THEN "wait" ELSE "crit"]
  /\ UNCHANGED sem

\* _lock: sem_wait returns
SemWait(t) ==
  /\ pc[t] = "wait"
  /\ sem > 0
  /\ sem' = sem - 1
  /\ pc' = [pc EXCEPT ![t] = "crit"]
  /\ UNCHANGED cnt

\* Mutation of Release: the old count is tested (fetch_sub for sub_fetch).
ReleaseOldCount(t) ==
  /\ pc[t] = "crit"
  /\ cnt' = cnt - 1
  /\ pc' = [pc EXCEPT ![t] = IF cnt > 0 THEN "post" ELSE "idle"]
  /\ UNCHANGED sem

\* _unlock, up to the semaphore: __atomic_sub_fetch returns the new count
Release(t) ==
  /\ pc[t] = "crit"
  /\ cnt' = cnt - 1
  /\ pc' = [pc EXCEPT ![t] = IF cnt' > 0 THEN "post" ELSE "idle"]
  /\ UNCHANGED sem

\* _unlock: sem_post
SemPost(t) ==
  /\ pc[t] = "post"
  /\ sem' = sem + 1
  /\ pc' = [pc EXCEPT ![t] = "idle"]
  /\ UNCHANGED cnt

LockNext == \E t \in Threads : Acquire(t) \/ SemWait(t) \/ Release(t) \/ SemPost(t)

LockSpec == LockInit /\ [][LockNext]_lockVars

\* Critical sections end, a thread inside _unlock goes on, and a positive
\* semaphore wakes some waiter (POSIX does not say which).
LockFairness ==
  /\ \A t \in Threads : WF_lockVars(Release(t)) /\ WF_lockVars(SemPost(t))
  /\ WF_lockVars(\E t \in Threads : SemWait(t))

FairLockSpec == LockSpec /\ LockFairness

-----------------------------------------------------------------------------
\* Type invariant.
LockTypeOK ==
  /\ cnt \in Nat
  /\ sem \in Nat
  /\ pc \in [Threads -> {"idle", "wait", "crit", "post"}]

\* Between _lock and _unlock a thread is alone, however the atomic and the
\* semaphore steps of the others fall between its own.
MutualExclusion ==
  \A t, u \in Threads : pc[t] = "crit" /\ pc[u] = "crit" => t = u

\* What the users of the lock see of a thread.
StatusOf == [idle |-> "out", wait |-> "trying", crit |-> "in", post |-> "out"]

LockStatus == [t \in Threads |-> StatusOf[pc[t]]]

\* The lock implements a mutex, and no wakeup is lost: with the lock free a
\* waiter gets in, though the post it needs may still be on its way.
MutexOf == INSTANCE Mutex WITH status <- LockStatus

ImplementsMutex == MutexOf!Spec

\* A semaphore post is never saved up for nobody: a post or a pending one means
\* that a thread waits for it.
NoStrayPost ==
  sem > 0 \/ (\E t \in Threads : pc[t] = "post") => \E t \in Threads : pc[t] = "wait"
=============================================================================
