---------------------------- MODULE LibraryProofs ----------------------------
(***************************************************************************)
(* Proofs about the light lock, the id pool, the linked list, the packet   *)
(* list of recv_tun, poll_block and the hash table, for any finite set of  *)
(* threads, any size of the pool, any lists and nodes, any descriptors and *)
(* times, any hash function.  They share no state.                         *)
(***************************************************************************)
EXTENDS LightLock, IdPool, List, Hmap, PollEvent, PktList, FiniteSetTheorems,
        SequenceTheorems, WellFoundedInduction, TLAPS

-----------------------------------------------------------------------------
(* Induction over the naturals, for sets, and the recursive functions that  *)
(* it makes: the theorems of the library take operators.                    *)

LEMMA LeastNat ==
  ASSUME NEW T \in SUBSET Nat, T # {}
  PROVE  \E x \in T : \A y \in T : x <= y
<1>1. IsWellFoundedOn(OpToRel(<, Nat), Nat)
  BY NatLessThanWellFounded
<1>2. PICK x \in T : \A y \in T : ~(<<y, x>> \in OpToRel(<, Nat))
  BY <1>1, WFMin
<1>3. \A y \in T : ~(y < x)
  BY <1>2 DEF OpToRel
<1>4. x \in T
  BY <1>2
<1> HIDE DEF OpToRel
<1>5. \A y \in T : x <= y
  BY <1>3, <1>4
<1> QED
  BY <1>4, <1>5

LEMMA SetInduction ==
  ASSUME NEW S \in SUBSET Nat, 0 \in S, \A x \in S : x + 1 \in S
  PROVE  S = Nat
<1> SUFFICES ASSUME NEW z \in Nat, z \notin S
             PROVE  FALSE
  OBVIOUS
<1> DEFINE T == Nat \ S
<1>1. PICK x \in T : \A y \in T : x <= y
  <2>1. T \in SUBSET Nat /\ T # {}
    OBVIOUS
  <2> HIDE DEF T
  <2> QED
    BY <2>1, LeastNat
<1>2. x # 0 /\ x - 1 \in Nat /\ x - 1 \notin T
  BY <1>1
<1>3. x - 1 + 1 \in S
  BY <1>2
<1> QED
  BY <1>1, <1>3

\* A function that is defined by its value before exists.
Follows(step, base, f, n) ==
  f = [i \in 0..n |-> IF i = 0 THEN base ELSE step[f[i - 1]]]

LEMMA FunctionExists ==
  ASSUME NEW S, NEW base \in S, NEW step \in [S -> S], NEW n \in Nat
  PROVE  \E f \in [0..n -> S] : Follows(step, base, f, n)
<1> DEFINE K == {k \in Nat : \E f \in [0..k -> S] : Follows(step, base, f, k)}
<1>1. 0 \in K
  <2> DEFINE f == [i \in 0..0 |-> base]
  <2>1. f \in [0..0 -> S] /\ Follows(step, base, f, 0)
    BY DEF Follows
  <2> QED
    BY <2>1
<1>2. \A k \in K : k + 1 \in K
  <2> SUFFICES ASSUME NEW k \in Nat, NEW f \in [0..k -> S], Follows(step, base, f, k)
               PROVE  \E g \in [0..(k + 1) -> S] : Follows(step, base, g, k + 1)
    OBVIOUS
  <2> DEFINE g == [i \in 0..(k + 1) |-> IF i = k + 1 THEN step[f[k]] ELSE f[i]]
  <2>1. \A i \in 0..k : f[i] = IF i = 0 THEN base ELSE step[f[i - 1]]
    BY DEF Follows
  <2>2. f[k] \in S /\ step[f[k]] \in S
    OBVIOUS
  <2>3. ASSUME NEW i \in 0..(k + 1)
        PROVE  g[i] = (IF i = 0 THEN base ELSE step[g[i - 1]]) /\ g[i] \in S
    <3>1. CASE i = k + 1
      BY <2>2, <3>1
    <3>2. CASE i # k + 1
      <4>1. i \in 0..k /\ g[i] = f[i] /\ (i # 0 => g[i - 1] = f[i - 1]) /\ f[i] \in S
        BY <3>2
      <4> QED
        BY <2>1, <4>1, Zenon
    <3> QED
      BY <3>1, <3>2
  <2>4. g = [i \in 0..(k + 1) |-> g[i]]
    OBVIOUS
  <2> HIDE DEF g
  <2>5. Follows(step, base, g, k + 1) /\ g \in [0..(k + 1) -> S]
    <3>1. g = [i \in 0..(k + 1) |-> IF i = 0 THEN base ELSE step[g[i - 1]]]
      BY <2>3, <2>4, Zenon
    <3>2. g \in [0..(k + 1) -> S]
      BY <2>3, <2>4
    <3> QED
      BY <3>1, <3>2, Zenon DEF Follows
  <2> QED
    BY <2>5
<1> HIDE DEF K
<1>3. K = Nat
  <2>1. K \in SUBSET Nat
    BY DEF K
  <2> QED
    BY <1>1, <1>2, <2>1, SetInduction
<1> QED
  BY <1>3 DEF K

-----------------------------------------------------------------------------
(* LightLock: mutual exclusion, that no semaphore post is stray, and that  *)
(* each step is a step of a mutex or a stutter.                            *)

\* The threads that cnt counts, and the thread that has the lock or is about
\* to hand it over.
Users == {t \in Threads : pc[t] \in {"wait", "crit"}}

Holds(t) == pc[t] \in {"crit", "post"}

\* There is one token: it is held by a thread, lies in the semaphore, or, with
\* nobody using the lock, does not exist.
OneToken ==
  /\ \A t, u \in Threads : Holds(t) /\ Holds(u) => t = u
  /\ sem \in {0, 1}
  /\ sem = 1 => \A t \in Threads : ~Holds(t)
  /\ cnt > 0 => sem = 1 \/ \E t \in Threads : Holds(t)
  /\ sem = 1 \/ (\E t \in Threads : pc[t] = "post") => cnt > 0

LockInv == LockTypeOK /\ cnt = Cardinality(Users) /\ OneToken

\* The count of the users, when one comes or goes.
LEMMA UserComes ==
  ASSUME cnt = Cardinality(Users), NEW t \in Threads, t \notin Users,
         Users' = Users \cup {t}, cnt' = cnt + 1
  PROVE  cnt' = Cardinality(Users')
<1>1. IsFiniteSet(Users)
  BY ThreadsAssumption, FS_Subset DEF Users
<1> QED BY <1>1, FS_AddElement

LEMMA UserGoes ==
  ASSUME cnt = Cardinality(Users), NEW t \in Threads, t \in Users,
         Users' = Users \ {t}, cnt' = cnt - 1
  PROVE  cnt' = Cardinality(Users') /\ cnt' \in Nat
<1>1. IsFiniteSet(Users)
  BY ThreadsAssumption, FS_Subset DEF Users
<1>2. Cardinality(Users') = Cardinality(Users) - 1
  BY <1>1, FS_RemoveElement
<1>3. IsFiniteSet(Users')
  BY <1>1, FS_Subset
<1> QED BY <1>2, <1>3, FS_CardinalityType

\* A lock that counts nobody has no users.
LEMMA NobodyCounted ==
  ASSUME cnt = Cardinality(Users), cnt = 0
  PROVE  Users = {}
<1>1. IsFiniteSet(Users)
  BY ThreadsAssumption, FS_Subset DEF Users
<1> QED BY <1>1, FS_EmptySet

\* A thread that uses the lock is counted.
LEMMA UserCounted ==
  ASSUME LockInv, NEW t \in Users
  PROVE  cnt > 0
<1>1. IsFiniteSet(Users)
  BY ThreadsAssumption, FS_Subset DEF Users
<1>2. Cardinality(Users) \in Nat /\ Cardinality(Users) # 0
  BY <1>1, FS_CardinalityType, FS_EmptySet
<1> QED BY <1>2 DEF LockInv

LEMMA LockInitInv == LockInit => LockInv
<1> SUFFICES ASSUME LockInit PROVE LockInv
  OBVIOUS
<1>1. LockTypeOK
  BY DEF LockInit, LockTypeOK
<1>2. Users = {}
  BY DEF LockInit, Users
<1>3. cnt = Cardinality(Users)
  BY <1>2, FS_EmptySet DEF LockInit
<1>4. OneToken
  BY DEF LockInit, OneToken, Holds
<1> QED BY <1>1, <1>3, <1>4 DEF LockInv

LEMMA AcquireInv ==
  ASSUME LockInv, NEW t \in Threads, Acquire(t)
  PROVE  LockInv'
<1>1. LockTypeOK'
  BY DEF LockInv, LockTypeOK, Acquire
<1>2. t \notin Users /\ Users' = Users \cup {t}
  BY DEF LockInv, LockTypeOK, Acquire, Users
<1>3. cnt' = Cardinality(Users')
  BY <1>2, UserComes DEF LockInv, Acquire
<1>4. CASE cnt = 0
  <2>1. \A u \in Threads : ~Holds(u) /\ u \notin Users
    BY <1>4, NobodyCounted DEF LockInv, OneToken, Holds, Users
  <2>2. sem = 0 /\ pc' = [pc EXCEPT ![t] = "crit"] /\ cnt' = 1 /\ sem' = 0
    BY <1>4 DEF LockInv, OneToken, Acquire
  <2> QED BY <1>1, <1>3, <2>1, <2>2 DEF LockInv, LockTypeOK, OneToken, Holds
<1>5. CASE cnt > 0
  <2>1. pc' = [pc EXCEPT ![t] = "wait"] /\ cnt' = cnt + 1 /\ sem' = sem
        /\ pc[t] = "idle"
    BY <1>5 DEF Acquire
  <2>2. \A u \in Threads : /\ Holds(u)' <=> Holds(u)
                           /\ pc'[u] = "post" <=> pc[u] = "post"
    BY <2>1 DEF LockInv, LockTypeOK, Holds
  <2>3. OneToken'
    BY <1>5, <2>1, <2>2 DEF LockInv, LockTypeOK, OneToken
  <2> QED BY <1>1, <1>3, <2>3 DEF LockInv
<1> QED BY <1>4, <1>5 DEF LockInv, LockTypeOK

LEMMA SemWaitInv ==
  ASSUME LockInv, NEW t \in Threads, SemWait(t)
  PROVE  LockInv'
<1>1. pc[t] = "wait" /\ sem = 1 /\ sem' = 0 /\ cnt' = cnt
      /\ pc' = [pc EXCEPT ![t] = "crit"]
  BY DEF LockInv, OneToken, SemWait
<1>2. LockTypeOK'
  BY <1>1 DEF LockInv, LockTypeOK
<1>3. Users' = Users
  BY <1>1 DEF LockInv, LockTypeOK, Users
<1>4. \A u \in Threads : ~Holds(u)
  BY <1>1 DEF LockInv, OneToken
<1>5. OneToken'
  BY <1>1, <1>4 DEF LockInv, LockTypeOK, OneToken, Holds
<1> QED BY <1>1, <1>2, <1>3, <1>5 DEF LockInv

LEMMA ReleaseInv ==
  ASSUME LockInv, NEW t \in Threads, Release(t)
  PROVE  LockInv'
<1>1. /\ pc[t] = "crit" /\ cnt' = cnt - 1 /\ sem' = sem
      /\ pc' = [pc EXCEPT ![t] = IF cnt' > 0 THEN "post" ELSE "idle"]
  BY DEF Release
<1>2. t \in Users /\ Users' = Users \ {t}
  BY <1>1 DEF LockInv, LockTypeOK, Users
<1>3. cnt' = Cardinality(Users') /\ cnt' \in Nat
  BY <1>1, <1>2, UserGoes DEF LockInv
<1>4. LockTypeOK'
  BY <1>1, <1>3 DEF LockInv, LockTypeOK
<1>5. Holds(t) /\ sem = 0 /\ \A u \in Threads : u # t => ~Holds(u)
  BY <1>1 DEF LockInv, OneToken, Holds
<1>6. CASE cnt' > 0
  <2>1. \A u \in Threads : Holds(u)' <=> u = t
    BY <1>1, <1>5, <1>6 DEF LockInv, LockTypeOK, Holds
  <2>2. OneToken'
    BY <1>1, <1>5, <1>6, <2>1 DEF OneToken
  <2> QED BY <1>3, <1>4, <2>2 DEF LockInv
<1>7. CASE ~(cnt' > 0)
  <2>1. \A u \in Threads : ~Holds(u)'
    BY <1>1, <1>5, <1>7 DEF LockInv, LockTypeOK, Holds
  <2>2. OneToken'
    BY <1>1, <1>5, <1>7, <2>1 DEF OneToken, Holds
  <2> QED BY <1>3, <1>4, <2>2 DEF LockInv
<1> QED BY <1>6, <1>7

LEMMA SemPostInv ==
  ASSUME LockInv, NEW t \in Threads, SemPost(t)
  PROVE  LockInv'
<1>1. pc[t] = "post" /\ sem' = sem + 1 /\ cnt' = cnt
      /\ pc' = [pc EXCEPT ![t] = "idle"]
  BY DEF SemPost
<1>2. Holds(t) /\ sem = 0 /\ cnt > 0 /\ \A u \in Threads : u # t => ~Holds(u)
  BY <1>1 DEF LockInv, OneToken, Holds
<1>3. LockTypeOK'
  BY <1>1 DEF LockInv, LockTypeOK
<1>4. Users' = Users
  BY <1>1 DEF LockInv, LockTypeOK, Users
<1>5. \A u \in Threads : ~Holds(u)'
  BY <1>1, <1>2 DEF LockInv, LockTypeOK, Holds
<1>6. OneToken'
  BY <1>1, <1>2, <1>5 DEF OneToken, Holds
<1> QED BY <1>1, <1>3, <1>4, <1>6 DEF LockInv

LEMMA LockNextInv == LockInv /\ [LockNext]_lockVars => LockInv'
<1> SUFFICES ASSUME LockInv, [LockNext]_lockVars PROVE LockInv'
  OBVIOUS
<1>1. CASE UNCHANGED lockVars
  BY <1>1 DEF lockVars, LockInv, LockTypeOK, Users, OneToken, Holds
<1> QED BY <1>1, AcquireInv, SemWaitInv, ReleaseInv, SemPostInv DEF LockNext

THEOREM LockInductive == LockSpec => []LockInv
BY LockInitInv, LockNextInv, PTL DEF LockSpec

\* The variables keep their types: above all, the semaphore never goes below
\* zero and the count never below the threads that use the lock.
THEOREM LockTypeCorrect == LockSpec => []LockTypeOK
BY LockInductive, PTL DEF LockInv

\* Between _lock and _unlock every thread is alone.
THEOREM Exclusive == LockSpec => []MutualExclusion
<1>1. LockInv => MutualExclusion
  BY DEF LockInv, OneToken, Holds, MutualExclusion
<1> QED BY <1>1, LockInductive, PTL

\* A post is only made, or left in the semaphore, for a thread that waits.
THEOREM NothingStray == LockSpec => []NoStrayPost
<1>1. LockInv => NoStrayPost
  <2> SUFFICES ASSUME LockInv,
                      sem > 0 \/ (\E t \in Threads : pc[t] = "post")
               PROVE  \E t \in Threads : pc[t] = "wait"
    BY DEF NoStrayPost
  <2>1. cnt > 0
    BY DEF LockInv, OneToken
  <2>2. PICK u \in Users : TRUE
    BY <2>1, FS_EmptySet DEF LockInv
  <2>3. u \in Threads /\ pc[u] \in {"wait", "crit"}
    BY <2>2 DEF Users
  <2>4. pc[u] # "crit"
    BY <2>3 DEF LockInv, OneToken, Holds
  <2> QED BY <2>3, <2>4
<1> QED BY <1>1, LockInductive, PTL

-----------------------------------------------------------------------------
(* Every step is a step of the mutex or leaves its state alone. *)

LEMMA InitMutex == LockInit => MutexOf!Init
BY DEF LockInit, MutexOf!Init, LockStatus, StatusOf

\* A step of thread t that takes it from one state to another.
LEMMA StatusStep ==
  ASSUME LockInv, NEW t \in Threads, NEW q,
         q \in {"idle", "wait", "crit", "post"}, pc' = [pc EXCEPT ![t] = q]
  PROVE  LockStatus' = [LockStatus EXCEPT ![t] = StatusOf[q]]
<1>1. \A u \in Threads : u # t => pc'[u] = pc[u]
  BY DEF LockInv, LockTypeOK
<1>2. pc'[t] = q
  BY DEF LockInv, LockTypeOK
<1>3. /\ \A u \in Threads : LockStatus'[u] = IF u = t THEN StatusOf[q]
                                                     ELSE LockStatus[u]
      /\ LockStatus' = [u \in Threads |-> LockStatus'[u]]
  BY <1>1, <1>2 DEF LockStatus
<1>4. [LockStatus EXCEPT ![t] = StatusOf[q]]
        = [u \in Threads |-> IF u = t THEN StatusOf[q] ELSE LockStatus[u]]
  BY DEF LockStatus
<1> QED BY <1>3, <1>4

LEMMA AcquireMutex ==
  ASSUME LockInv, NEW t \in Threads, Acquire(t)
  PROVE  MutexOf!Next
<1>1. LockStatus[t] = "out"
  BY DEF Acquire, LockStatus, StatusOf
<1>2. CASE cnt = 0
  <2>1. \A u \in Threads : LockStatus[u] # "in"
    BY <1>2, NobodyCounted DEF LockInv, Users, LockTypeOK, LockStatus, StatusOf
  <2>2. pc' = [pc EXCEPT ![t] = "crit"]
    BY <1>2 DEF Acquire
  <2>3. LockStatus' = [LockStatus EXCEPT ![t] = "in"]
    BY <2>2, StatusStep DEF StatusOf
  <2> QED BY <2>1, <2>3 DEF MutexOf!Next, MutexOf!Enter, MutexOf!Free
<1>3. CASE cnt > 0
  <2>1. LockStatus' = [LockStatus EXCEPT ![t] = "trying"]
    BY <1>3, StatusStep DEF Acquire, StatusOf
  <2> QED BY <1>1, <2>1 DEF MutexOf!Next, MutexOf!Try
<1> QED BY <1>2, <1>3 DEF LockInv, LockTypeOK

LEMMA SemWaitMutex ==
  ASSUME LockInv, NEW t \in Threads, SemWait(t)
  PROVE  MutexOf!Next
<1>1. \A u \in Threads : LockStatus[u] # "in"
  BY DEF LockInv, OneToken, Holds, SemWait, LockTypeOK, LockStatus, StatusOf
<1>2. LockStatus' = [LockStatus EXCEPT ![t] = "in"]
  BY StatusStep DEF SemWait, StatusOf
<1> QED BY <1>1, <1>2 DEF MutexOf!Next, MutexOf!Enter, MutexOf!Free

LEMMA ReleaseMutex ==
  ASSUME LockInv, NEW t \in Threads, Release(t)
  PROVE  MutexOf!Next
<1>1. LockStatus[t] = "in"
  BY DEF Release, LockStatus, StatusOf
<1>2. LockStatus' = [LockStatus EXCEPT ![t] = "out"]
  <2>1. CASE cnt' > 0
    BY <2>1, StatusStep DEF Release, StatusOf
  <2>2. CASE ~(cnt' > 0)
    BY <2>2, StatusStep DEF Release, StatusOf
  <2> QED BY <2>1, <2>2
<1> QED BY <1>1, <1>2 DEF MutexOf!Next, MutexOf!Leave

LEMMA SemPostMutex ==
  ASSUME LockInv, NEW t \in Threads, SemPost(t)
  PROVE  LockStatus' = LockStatus
<1>1. LockStatus' = [LockStatus EXCEPT ![t] = "out"]
  BY StatusStep DEF SemPost, StatusOf
<1>2. LockStatus[t] = "out"
  BY DEF SemPost, LockStatus, StatusOf
<1> QED BY <1>1, <1>2 DEF LockStatus, StatusOf

LEMMA StepMutex == LockInv /\ [LockNext]_lockVars => [MutexOf!Next]_LockStatus
<1> SUFFICES ASSUME LockInv, [LockNext]_lockVars PROVE [MutexOf!Next]_LockStatus
  OBVIOUS
<1>1. CASE UNCHANGED lockVars
  BY <1>1 DEF lockVars, LockStatus, StatusOf
<1> QED BY <1>1, AcquireMutex, SemWaitMutex, ReleaseMutex, SemPostMutex DEF LockNext

\* The steps of the lock are those of a mutex: a thread enters only while
\* nobody is inside, though the fast path and the semaphore path are apart.
THEOREM MutexSteps == LockSpec => MutexOf!SafeSpec
BY InitMutex, StepMutex, LockInductive, PTL DEF LockSpec, MutexOf!SafeSpec

-----------------------------------------------------------------------------
(* IdPool: no id is lost or doubled, and the ring is a queue. *)

\* An empty ring has its indices where the next release needs them.
EmptyMeets == empty => head = After(tail)

PoolInv == PoolTypeOK /\ EachIdOnce /\ EmptyMeets

\* The successor of a place of the ring, without the modulus.
LEMMA AfterIs ==
  ASSUME NEW i \in Ids
  PROVE  After(i) = IF i = NumIds - 1 THEN 0 ELSE i + 1
<1>1. NumIds \in Nat /\ NumIds > 0 /\ i \in Nat /\ i + 1 <= NumIds
  BY NumIdsAssumption DEF Ids
<1>2. CASE i + 1 = NumIds
  BY <1>1, <1>2 DEF After
<1>3. CASE i + 1 < NumIds
  BY <1>1, <1>3 DEF After
<1> QED BY <1>1, <1>2, <1>3

LEMMA AfterType ==
  ASSUME NEW i \in Ids
  PROVE  After(i) \in Ids
BY AfterIs, NumIdsAssumption DEF Ids

LEMMA OccupiedType ==
  ASSUME PoolTypeOK
  PROVE  Occupied \subseteq Ids
BY NumIdsAssumption DEF PoolTypeOK, Occupied, Ids

\* Taking the head's id leaves the other places.
LEMMA OccupiedGet ==
  ASSUME PoolTypeOK, ~empty, head' = After(head), tail' = tail,
         empty' = (head = tail)
  PROVE  Occupied' = Occupied \ {head}
<1>1. head' = IF head = NumIds - 1 THEN 0 ELSE head + 1
  BY AfterIs DEF PoolTypeOK
<1>2. ASSUME NEW p \in Ids
      PROVE  p \in Occupied' <=> p \in Occupied \ {head}
  <2>1. CASE head = tail
    <3>1. empty'
      BY <2>1
    <3>2. p \notin Occupied'
      BY <3>1 DEF Occupied
    <3>3. p \in Occupied => p = head
      BY <2>1 DEF Occupied, PoolTypeOK, Ids
    <3> QED BY <3>2, <3>3
  <2>2. CASE head # tail
    BY <1>1, <2>2, NumIdsAssumption DEF Occupied, PoolTypeOK, Ids
  <2> QED BY <2>1, <2>2
<1> QED BY <1>2 DEF Occupied

\* A release adds the place behind the tail, which was not occupied.
LEMMA OccupiedRelease ==
  ASSUME PoolTypeOK, EmptyMeets, ~IsFull, tail' = After(tail), head' = head,
         empty' = FALSE
  PROVE  Occupied' = Occupied \cup {tail'} /\ tail' \notin Occupied
<1>1. tail' = (IF tail = NumIds - 1 THEN 0 ELSE tail + 1) /\ tail' \in Ids
  BY AfterIs, AfterType DEF PoolTypeOK
<1>2. empty \/ tail' # head
  BY DEF IsFull
<1>3. empty => tail' = head
  BY DEF EmptyMeets
<1>4. ASSUME NEW p \in Ids
      PROVE  p \in Occupied' <=> p \in Occupied \cup {tail'}
  <2>1. CASE empty
    BY <1>1, <1>3, <2>1, NumIdsAssumption DEF Occupied, PoolTypeOK, Ids
  <2>2. CASE ~empty
    BY <1>1, <1>2, <2>2, NumIdsAssumption DEF Occupied, PoolTypeOK, Ids
  <2> QED BY <2>1, <2>2
<1>5. tail' \notin Occupied
  BY <1>1, <1>2, NumIdsAssumption DEF Occupied, PoolTypeOK, Ids
<1> QED BY <1>1, <1>4, <1>5 DEF Occupied

\* A full ring occupies every place.
LEMMA OccupiedFull ==
  ASSUME PoolTypeOK, IsFull
  PROVE  Occupied = Ids
<1>1. head = IF tail = NumIds - 1 THEN 0 ELSE tail + 1
  BY AfterIs DEF PoolTypeOK, IsFull
<1>2. ASSUME NEW p \in Ids
      PROVE  p \in Occupied
  BY <1>1, NumIdsAssumption DEF Occupied, PoolTypeOK, Ids, IsFull
<1> QED BY <1>2 DEF Occupied

\* A full ring holds every id, so that nobody can have one to give back.
LEMMA FullNoHolder ==
  ASSUME PoolInv, IsFull
  PROVE  held = {}
<1>1. Occupied = Ids
  BY OccupiedFull DEF PoolInv
<1>2. pool \in Injection(Ids, Ids)
  BY <1>1 DEF PoolInv, PoolTypeOK, EachIdOnce, Injection, IsInjective
<1>3. pool \in Surjection(Ids, Ids)
  <2>1. IsFiniteSet(Ids)
    BY FS_Interval, NumIdsAssumption DEF Ids
  <2> QED BY <1>2, <2>1, FS_Injection
<1>4. \A i \in Ids : \E p \in Ids : pool[p] = i
  BY <1>3 DEF Surjection
<1> QED BY <1>1, <1>4 DEF PoolInv, PoolTypeOK, EachIdOnce

LEMMA PoolInitInv == PoolInit => PoolInv
<1> SUFFICES ASSUME PoolInit PROVE PoolInv
  OBVIOUS
<1>1. NumIds - 1 \in Ids /\ 0 \in Ids
  BY NumIdsAssumption DEF Ids
<1>2. PoolTypeOK
  BY <1>1 DEF PoolInit, PoolTypeOK
<1>3. Occupied = Ids
  BY NumIdsAssumption DEF PoolInit, Occupied, Ids
<1>4. EachIdOnce
  BY <1>3 DEF PoolInit, EachIdOnce
<1> QED BY <1>2, <1>4 DEF PoolInit, PoolInv, EmptyMeets

LEMMA GetIdInv ==
  ASSUME PoolInv, GetId
  PROVE  PoolInv'
<1>1. CASE empty
  BY <1>1 DEF GetId, PoolInv, PoolTypeOK, EachIdOnce, EmptyMeets, Occupied
<1>2. CASE ~empty
  <2>1. /\ id' = pool[head] /\ held' = held \cup {pool[head]}
        /\ head' = After(head) /\ empty' = (head = tail)
        /\ pool' = pool /\ tail' = tail
    BY <1>2 DEF GetId
  <2>2. PoolTypeOK'
    BY <2>1, AfterType DEF PoolInv, PoolTypeOK
  <2>3. Occupied' = Occupied \ {head}
    BY <1>2, <2>1, OccupiedGet DEF PoolInv
  <2>4. head \in Occupied
    BY <1>2, NumIdsAssumption DEF PoolInv, PoolTypeOK, Occupied, Ids
  <2>5. EachIdOnce'
    BY <2>1, <2>3, <2>4 DEF PoolInv, PoolTypeOK, EachIdOnce
  <2>6. EmptyMeets'
    BY <2>1 DEF EmptyMeets
  <2> QED BY <2>2, <2>5, <2>6 DEF PoolInv
<1> QED BY <1>1, <1>2

LEMMA ReleaseIdInv ==
  ASSUME PoolInv, NEW i \in Ids, ReleaseId(i)
  PROVE  PoolInv'
<1>1. ~IsFull
  BY FullNoHolder DEF ReleaseId
<1>2. /\ i \in held /\ held' = held \ {i} /\ tail' = After(tail)
      /\ pool' = [pool EXCEPT ![tail'] = i] /\ empty' = FALSE
      /\ head' = head /\ id' = id
  BY <1>1 DEF ReleaseId
<1>3. PoolTypeOK'
  BY <1>2, AfterType DEF PoolInv, PoolTypeOK
<1>4. Occupied' = Occupied \cup {tail'} /\ tail' \notin Occupied
  BY <1>1, <1>2, OccupiedRelease DEF PoolInv
<1>5. Occupied \subseteq Ids /\ tail' \in Ids
  BY <1>3, OccupiedType DEF PoolInv, PoolTypeOK
<1>6. pool'[tail'] = i /\ \A p \in Occupied : pool'[p] = pool[p]
  BY <1>2, <1>4, <1>5 DEF PoolInv, PoolTypeOK
<1>7. \A p \in Occupied : pool[p] # i
  BY <1>2 DEF PoolInv, EachIdOnce
<1>8. EachIdOnce'
  BY <1>2, <1>4, <1>6, <1>7 DEF PoolInv, EachIdOnce
<1> QED BY <1>2, <1>3, <1>8 DEF PoolInv, EmptyMeets

LEMMA PoolNextInv == PoolInv /\ [PoolNext]_poolVars => PoolInv'
<1> SUFFICES ASSUME PoolInv, [PoolNext]_poolVars PROVE PoolInv'
  OBVIOUS
<1>1. CASE UNCHANGED poolVars
  BY <1>1 DEF poolVars, PoolInv, PoolTypeOK, EachIdOnce, EmptyMeets, Occupied, After
<1> QED BY <1>1, GetIdInv, ReleaseIdInv DEF PoolNext

THEOREM PoolInductive == PoolSpec => []PoolInv
BY PoolInitInv, PoolNextInv, PTL DEF PoolSpec

\* The indices stay in the ring and its entries stay ids.
THEOREM PoolTypeCorrect == PoolSpec => []PoolTypeOK
BY PoolInductive, PTL DEF PoolInv

\* No id is lost or doubled, for every size of the pool.
THEOREM NoneLostOrDoubled == PoolSpec => []EachIdOnce
BY PoolInductive, PTL DEF PoolInv

\* get_id gives an id that nobody has, and fails only when none is left.
THEOREM GivesFresh == PoolSpec => FreshOrExhausted
<1>1. ASSUME PoolInv, GetId
      PROVE  IF id' = NoId THEN held = Ids ELSE id' \notin held
  <2>1. CASE empty
    BY <1>1, <2>1 DEF GetId, PoolInv, PoolTypeOK, EachIdOnce, Occupied
  <2>2. CASE ~empty
    <3>1. head \in Occupied
      BY <1>1, <2>2, NumIdsAssumption DEF PoolInv, PoolTypeOK, Occupied, Ids
    <3>2. id' = pool[head] /\ pool[head] \in Ids /\ pool[head] # NoId
      BY <1>1, <2>2 DEF GetId, PoolInv, PoolTypeOK, Ids, NoId
    <3> QED BY <1>1, <3>1, <3>2 DEF PoolInv, EachIdOnce
  <2> QED BY <2>1, <2>2
<1>2. PoolInv /\ [PoolNext]_poolVars
        => [GetId => IF id' = NoId THEN held = Ids ELSE id' \notin held]_poolVars
  BY <1>1
<1> QED BY <1>2, PoolInductive, PTL DEF PoolSpec, FreshOrExhausted

-----------------------------------------------------------------------------
(* The ring implements the queue of IdFifo. *)

\* How many ids are free, from the indices, and where the k-th of them lies.
Count ==
  IF empty THEN 0
  ELSE IF head <= tail THEN tail - head + 1 ELSE tail - head + 1 + NumIds

Place(h, k) == (h + k - 1) % NumIds

Queue == [k \in 1..Count |-> pool[Place(head, k)]]

LEMMA Modulus ==
  ASSUME NEW n \in Nat \ {0}, NEW x \in Nat, x < n + n
  PROVE  x % n = IF x < n THEN x ELSE x - n
<1>1. CASE x < n
  BY <1>1
<1>2. CASE n <= x
  BY <1>2
<1> QED BY <1>1, <1>2

LEMMA PlaceIs ==
  ASSUME NEW h \in Ids, NEW k \in 1..NumIds
  PROVE  /\ Place(h, k) = IF h + k - 1 < NumIds THEN h + k - 1 ELSE h + k - 1 - NumIds
         /\ Place(h, k) \in Ids
<1>1. /\ NumIds \in Nat \ {0} /\ h \in Nat /\ k \in Nat /\ h + k - 1 \in Nat
      /\ h + k - 1 < NumIds + NumIds
  BY NumIdsAssumption DEF Ids
<1>2. Place(h, k) = IF h + k - 1 < NumIds THEN h + k - 1 ELSE h + k - 1 - NumIds
  <2> DEFINE x == h + k - 1
  <2>1. x \in Nat /\ x < NumIds + NumIds /\ Place(h, k) = x % NumIds
    BY <1>1 DEF Place
  <2> HIDE DEF x
  <2>2. Place(h, k) = IF x < NumIds THEN x ELSE x - NumIds
    BY <1>1, <2>1, Modulus
  <2> QED BY <1>1, <2>2 DEF x
<1>3. h <= NumIds - 1 /\ k >= 1 /\ k <= NumIds
  BY <1>1 DEF Ids
<1> QED BY <1>1, <1>2, <1>3 DEF Ids

LEMMA CountType ==
  ASSUME PoolTypeOK
  PROVE  Count \in 0..NumIds /\ (Count = 0 <=> empty)
BY NumIdsAssumption DEF PoolTypeOK, Count, Ids

\* The indices count the places that are occupied.
LEMMA CountIs ==
  ASSUME PoolTypeOK
  PROVE  Cardinality(Occupied) = Count
<1>1. /\ NumIds \in Nat \ {0} /\ head \in Nat /\ tail \in Nat
      /\ head < NumIds /\ tail < NumIds
  BY NumIdsAssumption DEF PoolTypeOK, Ids
<1>2. CASE empty
  <2>1. Occupied = {}
    BY <1>2 DEF Occupied
  <2> QED BY <1>2, <2>1, FS_EmptySet DEF Count
<1>3. CASE ~empty /\ head <= tail
  <2>1. Occupied = head..tail
    BY <1>1, <1>3 DEF Occupied, Ids
  <2> QED BY <1>1, <1>3, <2>1, FS_Interval DEF Count
<1>4. CASE ~empty /\ head > tail
  <2> DEFINE A == head..(NumIds - 1)
             B == 0..tail
  <2>1. Occupied = A \cup B /\ A \cap B = {}
    BY <1>1, <1>4 DEF Occupied, Ids
  <2>2. IsFiniteSet(A) /\ Cardinality(A) = NumIds - head
    BY <1>1, FS_Interval
  <2>3. IsFiniteSet(B) /\ Cardinality(B) = tail + 1
    BY <1>1, FS_Interval
  <2> HIDE DEF A, B
  <2>4. Cardinality(A \cup B) = Cardinality(A) + Cardinality(B) - Cardinality(A \cap B)
    BY <2>2, <2>3, FS_Union
  <2> QED BY <1>1, <1>4, <2>1, <2>2, <2>3, <2>4, FS_EmptySet DEF Count
<1> QED BY <1>1, <1>2, <1>3, <1>4

\* Every place that is counted is occupied, and the next one is behind the tail.
LEMMA PlacesOccupied ==
  ASSUME PoolTypeOK
  PROVE  /\ \A k \in 1..Count : Place(head, k) \in Occupied
         /\ EmptyMeets /\ Count < NumIds => Place(head, Count + 1) = After(tail)
<1>1. /\ NumIds \in Nat \ {0} /\ head \in Ids /\ tail \in Ids
      /\ Count \in 0..NumIds
  BY NumIdsAssumption, CountType DEF PoolTypeOK
<1>2. ASSUME NEW k \in 1..Count PROVE Place(head, k) \in Occupied
  <2>1. k \in 1..NumIds
    BY <1>1
  <2>2. /\ Place(head, k) = IF head + k - 1 < NumIds THEN head + k - 1
                            ELSE head + k - 1 - NumIds
        /\ Place(head, k) \in Ids
    BY <1>1, <2>1, PlaceIs
  <2> QED BY <1>1, <2>1, <2>2 DEF Occupied, Count, Ids
<1>3. ASSUME EmptyMeets, Count < NumIds PROVE Place(head, Count + 1) = After(tail)
  <2>1. Count + 1 \in 1..NumIds
    BY <1>1, <1>3
  <2>2. Place(head, Count + 1) = IF head + Count < NumIds THEN head + Count
                                 ELSE head + Count - NumIds
    BY <1>1, <2>1, PlaceIs
  <2>3. After(tail) = IF tail = NumIds - 1 THEN 0 ELSE tail + 1
    BY <1>1, AfterIs
  <2>4. CASE empty
    BY <1>1, <1>3, <2>2, <2>3, <2>4 DEF EmptyMeets, Count, Ids
  <2>5. CASE ~empty
    BY <1>1, <1>3, <2>2, <2>3, <2>5 DEF Count, Ids
  <2> QED BY <2>4, <2>5
<1> QED BY <1>2, <1>3

LEMMA QueueType ==
  ASSUME PoolTypeOK
  PROVE  /\ Queue \in Seq(Ids) /\ Len(Queue) = Count
         /\ \A k \in 1..Count : Queue[k] = pool[Place(head, k)]
<1>1. Count \in Nat /\ \A k \in 1..Count : Place(head, k) \in Ids
  BY CountType, PlacesOccupied, OccupiedType, NumIdsAssumption
<1>2. Queue \in [1..Count -> Ids]
  BY <1>1 DEF Queue, PoolTypeOK
<1>3. Queue \in Seq(Ids)
  BY <1>1, <1>2, SeqDef
<1> QED BY <1>1, <1>2, <1>3, LenProperties DEF Queue

LEMMA InitQueue ==
  ASSUME PoolInit
  PROVE  Queue = [k \in 1..NumIds |-> k - 1]
<1>1. NumIds \in Nat \ {0} /\ 0 \in Ids
  BY NumIdsAssumption DEF Ids
<1>2. Count = NumIds
  BY <1>1 DEF PoolInit, Count
<1>3. ASSUME NEW k \in 1..NumIds PROVE pool[Place(head, k)] = k - 1
  <2>1. Place(head, k) = k - 1 /\ Place(head, k) \in Ids
    BY <1>1, PlaceIs DEF PoolInit
  <2> QED BY <2>1 DEF PoolInit
<1> QED BY <1>2, <1>3 DEF Queue

\* get_id takes the front of the queue.
LEMMA GetIsTail ==
  ASSUME PoolInv, GetId, ~empty
  PROVE  Queue # <<>> /\ Queue' = Tail(Queue) /\ pool[head] = Head(Queue)
<1>1. /\ head' = After(head) /\ empty' = (head = tail)
      /\ pool' = pool /\ tail' = tail
  BY DEF GetId
<1>2. /\ NumIds \in Nat \ {0} /\ head \in Ids /\ tail \in Ids /\ head' \in Ids
      /\ head' = IF head = NumIds - 1 THEN 0 ELSE head + 1
      /\ Count \in 1..NumIds
  BY <1>1, NumIdsAssumption, AfterIs, AfterType, CountType DEF PoolInv, PoolTypeOK
<1>3. Count' = Count - 1
  <2>1. CASE head = tail
    <3>1. empty' = TRUE
      BY <1>1, <2>1
    <3> QED BY <1>2, <2>1, <3>1 DEF Count, Ids
  <2>2. CASE head # tail
    <3>1. empty' = FALSE
      BY <1>1, <2>2
    <3> QED BY <1>1, <1>2, <2>2, <3>1 DEF Count, Ids
  <2> QED BY <2>1, <2>2
<1>4. /\ Queue \in Seq(Ids) /\ Len(Queue) = Count
      /\ \A k \in 1..Count : Queue[k] = pool[Place(head, k)]
  BY QueueType DEF PoolInv
<1>5. Queue # <<>>
  BY <1>2, <1>4, EmptySeq
<1>6. Place(head, 1) = head
  BY <1>2, PlaceIs DEF Ids
<1>7. Head(Queue) = pool[head]
  BY <1>2, <1>4, <1>5, <1>6
<1>8. ASSUME NEW k \in 1..(Count - 1)
      PROVE  Place(head', k) = Place(head, k + 1)
  <2>1. k \in 1..NumIds /\ k + 1 \in 1..NumIds
    BY <1>2
  <2>2. Place(head', k) = IF head' + k - 1 < NumIds THEN head' + k - 1
                          ELSE head' + k - 1 - NumIds
    BY <1>2, <2>1, PlaceIs
  <2>3. Place(head, k + 1) = IF head + k < NumIds THEN head + k ELSE head + k - NumIds
    BY <1>2, <2>1, PlaceIs
  <2> QED BY <1>2, <2>1, <2>2, <2>3 DEF Ids
<1>9. Queue' = [k \in 1..(Count - 1) |-> pool[Place(head', k)]]
  BY <1>1, <1>3 DEF Queue, Place
<1>10. Tail(Queue) = [k \in 1..(Count - 1) |-> Queue[k + 1]]
  <2>1. /\ Tail(Queue) \in Seq(Ids) /\ Len(Tail(Queue)) = Count - 1
        /\ \A k \in 1..(Count - 1) : Tail(Queue)[k] = Queue[k + 1]
    BY <1>4, <1>5, HeadTailProperties
  <2> QED BY <2>1, LenProperties
<1>11. \A k \in 1..(Count - 1) : k + 1 \in 1..Count
  BY <1>2
<1> QED BY <1>4, <1>5, <1>7, <1>8, <1>9, <1>10, <1>11

\* release_id appends to it.
LEMMA ReleaseIsAppend ==
  ASSUME PoolInv, NEW i \in Ids, ReleaseId(i)
  PROVE  Queue' = Queue \o <<i>>
<1>1. ~IsFull
  BY FullNoHolder DEF ReleaseId
<1>2. /\ i \in held /\ held' = held \ {i} /\ tail' = After(tail)
      /\ pool' = [pool EXCEPT ![tail'] = i] /\ empty' = FALSE
      /\ head' = head /\ id' = id
  BY <1>1 DEF ReleaseId
<1>3. /\ NumIds \in Nat \ {0} /\ head \in Ids /\ tail \in Ids /\ tail' \in Ids
      /\ tail' = IF tail = NumIds - 1 THEN 0 ELSE tail + 1
      /\ Count \in 0..NumIds /\ pool \in [Ids -> Ids]
  BY <1>2, NumIdsAssumption, AfterIs, AfterType, CountType DEF PoolInv, PoolTypeOK
<1>4. empty \/ tail' # head
  BY <1>1, <1>2 DEF IsFull
<1>5. empty => tail' = head
  BY <1>2 DEF PoolInv, EmptyMeets
<1>6. Count' = Count + 1 /\ Count < NumIds
  BY <1>2, <1>3, <1>4, <1>5 DEF Count, Ids
<1>7. /\ Queue \in Seq(Ids) /\ Len(Queue) = Count
      /\ \A k \in 1..Count : Queue[k] = pool[Place(head, k)]
  BY QueueType DEF PoolInv
<1>8. Place(head, Count + 1) = tail'
  BY <1>2, <1>6, PlacesOccupied DEF PoolInv
<1>9. tail' \notin Occupied
  BY <1>1, <1>2, OccupiedRelease DEF PoolInv
<1>10. ASSUME NEW k \in 1..Count PROVE pool'[Place(head, k)] = Queue[k]
  <2>1. Place(head, k) \in Occupied /\ Place(head, k) \in Ids
    BY PlacesOccupied, OccupiedType DEF PoolInv
  <2> QED BY <1>2, <1>3, <1>7, <1>9, <2>1
<1>11. Queue' = [k \in 1..(Count + 1) |-> pool'[Place(head, k)]]
  BY <1>2, <1>6 DEF Queue, Place
<1>12. pool'[Place(head, Count + 1)] = i
  BY <1>2, <1>3, <1>8
<1>13. Queue \o <<i>> = [k \in 1..(Count + 1) |-> IF k <= Count THEN Queue[k] ELSE i]
  <2>1. <<i>> \in Seq(Ids) /\ Len(<<i>>) = 1 /\ <<i>>[1] = i
    OBVIOUS
  <2>2. /\ Queue \o <<i>> \in Seq(Ids) /\ Len(Queue \o <<i>>) = Count + 1
        /\ \A k \in 1..(Count + 1) :
             (Queue \o <<i>>)[k] = IF k <= Count THEN Queue[k] ELSE <<i>>[k - Count]
    BY <1>7, <2>1, ConcatProperties
  <2>3. \A k \in 1..(Count + 1) : ~(k <= Count) => k - Count = 1
    BY <1>3
  <2> QED BY <2>1, <2>2, <2>3, LenProperties
<1>14. \A k \in 1..(Count + 1) : IF k <= Count THEN k \in 1..Count ELSE k = Count + 1
  BY <1>3
<1> QED BY <1>10, <1>11, <1>12, <1>13, <1>14


\* The queue as the instance of IdFifo has it.
QueueShown == FreeIds = Queue

LEMMA QueueIs == PoolTypeOK => QueueShown
BY CountIs DEF QueueShown, FreeIds, Queue, Place

\* Each call of get_id and release_id is a step of the abstract pool, or none:
\* the ring with its flag is the queue in which ids come back in turn.
THEOREM RefinesFifo == PoolSpec => ImplementsFifo
<1>0. /\ PoolTypeOK => QueueShown
      /\ PoolTypeOK' => QueueShown'
  BY QueueIs, PTL
<1>1. PoolInit => Fifo!Init
  <2> SUFFICES ASSUME PoolInit PROVE Fifo!Init
    OBVIOUS
  <2>1. FreeIds = [k \in 1..NumIds |-> k - 1]
    BY PoolInitInv, InitQueue, QueueIs DEF PoolInv, QueueShown
  <2> QED BY <2>1 DEF PoolInit, Fifo!Init
<1>2. ASSUME PoolInv, PoolInv', GetId
      PROVE  Fifo!Get \/ UNCHANGED <<FreeIds, held>>
  <2>1. FreeIds = Queue /\ FreeIds' = Queue'
    BY <1>0, <1>2 DEF PoolInv, QueueShown
  <2>2. CASE empty
    <3>1. UNCHANGED <<pool, head, tail, empty, held>>
      BY <1>2, <2>2 DEF GetId
    <3> QED BY <3>1 DEF FreeIds, Occupied
  <2>3. CASE ~empty
    <3>1. Queue # <<>> /\ Queue' = Tail(Queue) /\ pool[head] = Head(Queue)
      BY <1>2, <2>3, GetIsTail
    <3>2. held' = held \cup {pool[head]}
      BY <1>2, <2>3 DEF GetId
    <3> QED BY <2>1, <3>1, <3>2 DEF Fifo!Get
  <2> QED BY <2>2, <2>3
<1>3. ASSUME PoolInv, PoolInv', NEW i \in Ids, ReleaseId(i)
      PROVE  Fifo!Release
  <2>1. FreeIds = Queue /\ FreeIds' = Queue'
    BY <1>0, <1>3 DEF PoolInv, QueueShown
  <2>2. Queue' = Queue \o <<i>>
    BY <1>3, ReleaseIsAppend
  <2>3. i \in held /\ held' = held \ {i}
    BY <1>3 DEF ReleaseId
  <2>4. <<i>> \in Fifo!Orders({i})
    <3>1. Cardinality({i}) = 1
      BY FS_Singleton
    <3>2. <<i>> \in [1..1 -> {i}] /\ DOMAIN <<i>> = 1..1 /\ <<i>>[1] = i
      OBVIOUS
    <3>3. Fifo!Cardinality({i}) = 1
      BY <3>1 DEF Fifo!Cardinality, Cardinality
    <3>4. \A x \in {i} : \E j \in DOMAIN <<i>> : <<i>>[j] = x
      BY <3>2
    <3> QED BY <3>2, <3>3, <3>4 DEF Fifo!Orders
  <2>5. {i} \in SUBSET held
    BY <2>3
  <2>6. FreeIds' = FreeIds \o <<i>>
    BY <2>1, <2>2
  <2> QED BY <2>3, <2>4, <2>5, <2>6 DEF Fifo!Release
<1>4. PoolInv /\ PoolInv' /\ [PoolNext]_poolVars => [Fifo!Next]_<<FreeIds, held>>
  <2> SUFFICES ASSUME PoolInv, PoolInv', [PoolNext]_poolVars
               PROVE  Fifo!Next \/ UNCHANGED <<FreeIds, held>>
    OBVIOUS
  <2>1. CASE UNCHANGED poolVars
    BY <2>1 DEF poolVars, FreeIds, Occupied
  <2> QED BY <1>2, <1>3, <2>1 DEF PoolNext, Fifo!Next
<1> QED BY <1>1, <1>4, PoolInductive, PTL DEF PoolSpec, ImplementsFifo, Fifo!Spec

-----------------------------------------------------------------------------
(* List: the pointers stay a ring.  The lemmas on list_insert and          *)
(* list_remove are about any set S of nodes whose pointers are inverse;    *)
(* nothing is assumed of the other nodes.                                  *)

\* Within S the two pointers of memory a are inverse to each other.
RingOn(a, S) ==
  \A n \in S :
    /\ a.next[n] \in S /\ a.prev[n] \in S
    /\ a.prev[a.next[n]] = n /\ a.next[a.prev[n]] = n

\* The pointers after list_insert, whatever they were.
LEMMA InsertValues ==
  ASSUME NEW a \in Memories, NEW b \in Nodes, NEW e \in Nodes
  PROVE  /\ ListInsert(a, b, e) \in Memories
         /\ \A n \in Nodes : ListInsert(a, b, e).next[n] =
              IF n = a.prev[b] THEN e ELSE IF n = e THEN b ELSE a.next[n]
         /\ \A n \in Nodes : ListInsert(a, b, e).prev[n] =
              IF n = b THEN e ELSE IF n = e THEN a.prev[b] ELSE a.prev[n]
<1> DEFINE r == ListInsert(a, b, e)
           prev1 == [a.prev EXCEPT ![e] = a.prev[b]]
<1>1. a.next \in [Nodes -> Nodes] /\ a.prev \in [Nodes -> Nodes] /\ a.prev[b] \in Nodes
  BY DEF Memories
<1>2. prev1 \in [Nodes -> Nodes] /\ prev1[b] = a.prev[b]
  BY <1>1
<1>3. /\ r.next = [[a.next EXCEPT ![e] = b] EXCEPT ![a.prev[b]] = e]
      /\ r.prev = [prev1 EXCEPT ![b] = e]
      /\ r = [next |-> r.next, prev |-> r.prev]
  BY <1>2 DEF ListInsert
<1> HIDE DEF r
<1>4. r.next \in [Nodes -> Nodes] /\ r.prev \in [Nodes -> Nodes]
  BY <1>1, <1>2, <1>3
<1>5. r \in Memories
  BY <1>3, <1>4 DEF Memories
<1>6. \A n \in Nodes : r.next[n] = IF n = a.prev[b] THEN e ELSE IF n = e THEN b ELSE a.next[n]
  BY <1>1, <1>3
<1>7. \A n \in Nodes : r.prev[n] = IF n = b THEN e ELSE IF n = e THEN a.prev[b] ELSE a.prev[n]
  BY <1>1, <1>3
<1> QED BY <1>5, <1>6, <1>7 DEF r

\* list_insert adds the node to the ring.
LEMMA InsertRing ==
  ASSUME NEW a \in Memories, NEW S, S \subseteq Nodes, RingOn(a, S),
         NEW before \in S, NEW e \in Nodes, e \notin S
  PROVE  /\ ListInsert(a, before, e) \in Memories
         /\ RingOn(ListInsert(a, before, e), S \cup {e})
<1> DEFINE b == ListInsert(a, before, e)
<1>1. /\ b \in Memories
      /\ \A n \in Nodes : b.next[n] = IF n = a.prev[before] THEN e
                                      ELSE IF n = e THEN before ELSE a.next[n]
      /\ \A n \in Nodes : b.prev[n] = IF n = before THEN e
                                      ELSE IF n = e THEN a.prev[before] ELSE a.prev[n]
  BY InsertValues
<1> HIDE DEF b
<1>2. RingOn(b, S \cup {e})
  BY <1>1 DEF RingOn
<1> QED BY <1>1, <1>2 DEF b

\* The pointers after list_remove.
LEMMA RemoveValues ==
  ASSUME NEW a \in Memories, NEW S, S \subseteq Nodes, RingOn(a, S), NEW e \in S
  PROVE  /\ ListRemove(a, e) \in Memories
         /\ \A n \in Nodes : ListRemove(a, e).next[n] =
              IF n = a.prev[e] THEN a.next[e] ELSE a.next[n]
         /\ \A n \in Nodes : ListRemove(a, e).prev[n] =
              IF n = a.next[e] THEN a.prev[e] ELSE a.prev[n]
<1> DEFINE b == ListRemove(a, e)
<1>1. a.prev[e] \in S /\ a.next[e] \in S /\ (a.prev[e] = e => a.next[e] = e)
  BY DEF RingOn
<1>2. b.next = [a.next EXCEPT ![a.prev[e]] = a.next[e]]
  BY DEF ListRemove
<1>3. b.next[e] = a.next[e]
  BY <1>1, <1>2 DEF Memories
<1>4. b.prev = [a.prev EXCEPT ![a.next[e]] = a.prev[e]]
  BY <1>2, <1>3 DEF ListRemove
<1>5. b.next \in [Nodes -> Nodes] /\ b.prev \in [Nodes -> Nodes]
  BY <1>1, <1>2, <1>4 DEF Memories
<1>6. b = [next |-> b.next, prev |-> b.prev]
  BY DEF ListRemove
<1>7. \A n \in Nodes : b.next[n] = IF n = a.prev[e] THEN a.next[e] ELSE a.next[n]
  BY <1>1, <1>2 DEF Memories
<1>8. \A n \in Nodes : b.prev[n] = IF n = a.next[e] THEN a.prev[e] ELSE a.prev[n]
  BY <1>1, <1>4 DEF Memories
<1> HIDE DEF b
<1>9. b \in Memories
  BY <1>5, <1>6 DEF Memories
<1> QED BY <1>7, <1>8, <1>9 DEF b

\* list_remove leaves the others of the ring a ring.
LEMMA RemoveRing ==
  ASSUME NEW a \in Memories, NEW S, S \subseteq Nodes, RingOn(a, S), NEW e \in S
  PROVE  /\ ListRemove(a, e) \in Memories
         /\ RingOn(ListRemove(a, e), S \ {e})
<1> DEFINE b == ListRemove(a, e)
<1>1. /\ b \in Memories
      /\ \A n \in Nodes : b.next[n] = IF n = a.prev[e] THEN a.next[e] ELSE a.next[n]
      /\ \A n \in Nodes : b.prev[n] = IF n = a.next[e] THEN a.prev[e] ELSE a.prev[n]
  BY RemoveValues
<1> HIDE DEF b
<1>2. RingOn(b, S \ {e})
  BY <1>1 DEF RingOn
<1> QED BY <1>1, <1>2 DEF b

-----------------------------------------------------------------------------
TypeInv == m \in Memories /\ owner \in [Elems -> Heads \cup {Nowhere}]

ListInv == TypeInv /\ Ring

LEMMA RingIs ==
  Ring <=> /\ RingOn(m, Heads \cup Linked)
           /\ \A n \in Heads \cup Linked :
                ListOf(m.next[n]) = ListOf(n) /\ ListOf(m.prev[n]) = ListOf(n)
BY DEF Ring, RingOn

LEMMA ListInitInv == ListStart => ListInv
<1> SUFFICES ASSUME ListStart PROVE ListInv
  OBVIOUS
<1>1. Linked = {}
  BY DEF ListStart, Linked
<1> QED BY <1>1 DEF ListStart, ListInv, TypeInv, Ring, Memories, Nodes

\* An element is linked before a node that is in a list.
LEMMA LinkInv ==
  ASSUME ListInv, NEW e \in Elems, NEW before \in Heads \cup Linked,
         Links(e, ListOf(before)), m' = ListInsert(m, before, e)
  PROVE  ListInv'
<1> DEFINE S == Heads \cup Linked
<1>1. m \in Memories /\ S \subseteq Nodes /\ e \in Nodes /\ e \notin S
  BY NodesAssumption DEF ListInv, TypeInv, Nodes, Links, Linked
<1>2. RingOn(m, S) /\ \A n \in S : ListOf(m.next[n]) = ListOf(n)
                                /\ ListOf(m.prev[n]) = ListOf(n)
  BY RingIs DEF ListInv
<1>3. m' \in Memories /\ RingOn(m', S \cup {e})
  BY <1>1, <1>2, InsertRing
<1>4. ListOf(before) \in Heads
  BY DEF ListInv, TypeInv, ListOf, Linked
<1>5. owner' \in [Elems -> Heads \cup {Nowhere}] /\ Heads \cup Linked' = S \cup {e}
  BY <1>4, NodesAssumption DEF Links, Linked, ListInv, TypeInv
<1>6. \A n \in S \cup {e} : ListOf(n)' = IF n = e THEN ListOf(before) ELSE ListOf(n)
  BY <1>1, <1>4 DEF Links, ListOf, ListInv, TypeInv, Linked
<1>7. /\ \A n \in Nodes : m'.next[n] = IF n = m.prev[before] THEN e
                                       ELSE IF n = e THEN before ELSE m.next[n]
      /\ \A n \in Nodes : m'.prev[n] = IF n = before THEN e
                                       ELSE IF n = e THEN m.prev[before] ELSE m.prev[n]
  BY <1>1, <1>2, InsertValues
<1>8. ASSUME NEW n \in S \cup {e}
      PROVE  ListOf(m.next[n])' = ListOf(n)' /\ ListOf(m.prev[n])' = ListOf(n)'
  <2>1. m'.next[n] \in S \cup {e} /\ m'.prev[n] \in S \cup {e} /\ n \in Nodes
    BY <1>1, <1>3 DEF RingOn
  <2> QED BY <1>1, <1>2, <1>6, <1>7, <2>1 DEF RingOn
<1>9. Ring'
  BY <1>3, <1>5, <1>8 DEF Ring, RingOn
<1> QED BY <1>3, <1>5, <1>9 DEF ListInv, TypeInv

\* An element that is in a list is removed.
LEMMA UnlinkInv ==
  ASSUME ListInv, NEW e \in Linked, Unlinks(e), m' = ListRemove(m, e)
  PROVE  ListInv'
<1> DEFINE S == Heads \cup Linked
<1>1. m \in Memories /\ S \subseteq Nodes /\ e \in S /\ e \notin Heads
  BY NodesAssumption DEF ListInv, TypeInv, Nodes, Linked
<1>2. RingOn(m, S) /\ \A n \in S : ListOf(m.next[n]) = ListOf(n)
                                /\ ListOf(m.prev[n]) = ListOf(n)
  BY RingIs DEF ListInv
<1>3. m' \in Memories /\ RingOn(m', S \ {e})
  BY <1>1, <1>2, RemoveRing
<1>5. owner' \in [Elems -> Heads \cup {Nowhere}] /\ Heads \cup Linked' = S \ {e}
  BY <1>1, NodesAssumption DEF Unlinks, Linked, ListInv, TypeInv
<1>6. \A n \in S \ {e} : ListOf(n)' = ListOf(n)
  BY <1>1 DEF Unlinks, ListOf, ListInv, TypeInv, Linked
<1>7. /\ \A n \in Nodes : m'.next[n] = IF n = m.prev[e] THEN m.next[e] ELSE m.next[n]
      /\ \A n \in Nodes : m'.prev[n] = IF n = m.next[e] THEN m.prev[e] ELSE m.prev[n]
  BY <1>1, <1>2, RemoveValues
<1>8. ASSUME NEW n \in S \ {e}
      PROVE  ListOf(m.next[n])' = ListOf(n)' /\ ListOf(m.prev[n])' = ListOf(n)'
  <2>1. m'.next[n] \in S \ {e} /\ m'.prev[n] \in S \ {e} /\ n \in Nodes
    BY <1>1, <1>3 DEF RingOn
  <2> QED BY <1>1, <1>2, <1>6, <1>7, <2>1 DEF RingOn
<1>9. Ring'
  BY <1>3, <1>5, <1>8 DEF Ring, RingOn
<1> QED BY <1>3, <1>5, <1>9 DEF ListInv, TypeInv

\* The ends of a list that is not empty are elements of it.
LEMMA EndsLinked ==
  ASSUME ListInv, NEW l \in Heads
  PROVE  /\ ListFront(m, l) \in Heads \cup Linked
         /\ ~ListIsEmpty(m, l) => ListFront(m, l) \in Linked /\ ListBack(m, l) \in Linked
<1>1. /\ m.next[l] \in Heads \cup Linked /\ ListOf(m.next[l]) = l
      /\ m.prev[l] \in Heads \cup Linked /\ ListOf(m.prev[l]) = l
      /\ m.next[m.prev[l]] = l
  BY DEF ListInv, Ring, ListOf
<1>2. m.next[l] # l => m.next[l] \in Linked /\ m.prev[l] \in Linked
  BY <1>1 DEF ListOf
<1> QED BY <1>1, <1>2 DEF ListFront, ListBack, ListIsEmpty

LEMMA ListNextInv == ListInv /\ [ListNext]_listVars => ListInv'
<1> SUFFICES ASSUME ListInv, [ListNext]_listVars PROVE ListInv'
  OBVIOUS
<1>1. ASSUME NEW before \in Heads \cup Linked, NEW e \in Elems, Insert(before, e)
      PROVE  ListInv'
  BY <1>1, LinkInv DEF Insert
<1>2. ASSUME NEW l \in Heads, NEW e \in Elems, PushFront(l, e)
      PROVE  ListInv'
  <2>1. ListFront(m, l) \in Heads \cup Linked /\ ListOf(m.next[l]) = l
    BY EndsLinked DEF ListInv, Ring, ListOf
  <2> QED BY <1>2, <2>1, LinkInv DEF PushFront, ListPushFront, ListFront
<1>3. ASSUME NEW l \in Heads, NEW e \in Elems, PushBack(l, e)
      PROVE  ListInv'
  <2>1. ListOf(l) = l
    BY DEF ListOf
  <2> QED BY <1>3, <2>1, LinkInv DEF PushBack, ListPushBack
<1>4. ASSUME NEW e \in Elems, Remove(e)
      PROVE  ListInv'
  BY <1>4, UnlinkInv DEF Remove
<1>5. ASSUME NEW l \in Heads, PopFront(l)
      PROVE  ListInv'
  BY <1>5, EndsLinked, UnlinkInv DEF PopFront
<1>6. ASSUME NEW l \in Heads, PopBack(l)
      PROVE  ListInv'
  BY <1>6, EndsLinked, UnlinkInv DEF PopBack
<1>7. CASE UNCHANGED listVars
  BY <1>7 DEF listVars, ListInv, TypeInv, Ring, Linked, ListOf
<1> QED BY <1>1, <1>2, <1>3, <1>4, <1>5, <1>6, <1>7 DEF ListNext

\* Whatever the callers insert and remove, for any number of lists and nodes,
\* the pointers of each list are a ring of its own.
THEOREM RingsKept == ListSpec => []Ring
<1>1. ListStart => ListInv
  BY ListInitInv
<1>2. ListInv /\ [ListNext]_listVars => ListInv'
  BY ListNextInv
<1>3. ListInv => Ring
  BY DEF ListInv
<1> QED BY <1>1, <1>2, <1>3, PTL DEF ListSpec
-----------------------------------------------------------------------------
(* PktList: what is left of a turn's packets hangs from the list in order,  *)
(* and it is what is allocated.                                            *)

\* The list holds the sequence s of one or two packets, or none.
Hangs(a, s) ==
  LET H == PktListHead
  IN \/ s = <<>> /\ a.next[H] = H /\ a.prev[H] = H
     \/ \E e \in Elems :
          /\ s = <<e>>
          /\ a.next[H] = e /\ a.next[e] = H /\ a.prev[H] = e /\ a.prev[e] = H
     \/ \E c, e \in Elems :
          /\ s = <<c, e>> /\ c # e
          /\ a.next[H] = c /\ a.next[c] = e /\ a.next[e] = H
          /\ a.prev[H] = e /\ a.prev[e] = c /\ a.prev[c] = H

\* What is still to be sent.
Left(s) ==
  /\ s \in Seq(Elems) /\ built = sent \o s
  /\ Hangs(heap, s) /\ alloc = {s[i] : i \in DOMAIN s}
  /\ pkt \in (IF s = <<>> THEN {PktListHead, Null} ELSE {s[1]})

\* A fragment hangs from the list twice: its node leads to itself.
Looped ==
  \E e \in Elems :
    /\ pkt = e /\ alloc \subseteq {e}
    /\ heap.next[e] = e /\ heap.prev[e] = e

PktInv ==
  /\ heap \in Memories /\ turn \in {"one", "request", "fragment"}
  /\ sent \in Seq(Elems)
  /\ IF turn = "fragment" THEN Looped ELSE \E s \in Seq(Elems) : Left(s)

\* A head is not among the elements, and NULL is no node.
LEMMA HeadIs == PktListHead \in Heads /\ PktListHead \in Nodes /\ PktListHead \notin Elems
                /\ Null \notin Nodes /\ Elems \subseteq Nodes
BY HeapAssumption DEF PktListHead, Nodes

\* list_init.
LEMMA EmptyHangs == heap \in Memories => Empty \in Memories /\ Hangs(Empty, <<>>)
<1> SUFFICES ASSUME heap \in Memories PROVE Empty \in Memories /\ Hangs(Empty, <<>>)
  OBVIOUS
<1>1. heap.next \in [Nodes -> Nodes] /\ heap.prev \in [Nodes -> Nodes]
  BY DEF Memories
<1>2. /\ Empty.next = [heap.next EXCEPT ![PktListHead] = PktListHead]
      /\ Empty.prev = [heap.prev EXCEPT ![PktListHead] = PktListHead]
      /\ Empty = [next |-> Empty.next, prev |-> Empty.prev]
  BY DEF Empty, ListInit
<1> HIDE DEF Empty
<1>3. Empty.next \in [Nodes -> Nodes] /\ Empty.prev \in [Nodes -> Nodes]
  BY <1>1, <1>2, HeadIs
<1>4. Empty \in Memories
  BY <1>2, <1>3 DEF Memories
<1> QED BY <1>1, <1>2, <1>4, HeadIs DEF Hangs

\* list_push_back: one packet, another, and the same one again.
LEMMA PushHangs ==
  ASSUME NEW a \in Memories, NEW e \in Elems
  PROVE  /\ Push(a, e) \in Memories
         /\ Hangs(a, <<>>) => Hangs(Push(a, e), <<e>>)
         /\ \A c \in Elems \ {e} : Hangs(a, <<c>>) => Hangs(Push(a, e), <<c, e>>)
         /\ Hangs(a, <<e>>) =>
              LET b == Push(a, e)
              IN b.next[PktListHead] = e /\ b.next[e] = e /\ b.prev[e] = e
<1> DEFINE b == Push(a, e)
           H == PktListHead
<1>1. /\ b \in Memories
      /\ \A n \in Nodes : b.next[n] =
           IF n = a.prev[H] THEN e ELSE IF n = e THEN H ELSE a.next[n]
      /\ \A n \in Nodes : b.prev[n] =
           IF n = H THEN e ELSE IF n = e THEN a.prev[H] ELSE a.prev[n]
  BY HeadIs, InsertValues DEF Push, ListPushBack
<1> HIDE DEF b
<1>2. e \in Nodes /\ H \in Nodes /\ e # H
  BY HeadIs
<1>3. ASSUME Hangs(a, <<>>) PROVE Hangs(b, <<e>>)
  <2>1. a.prev[H] = H
    BY <1>3 DEF Hangs
  <2> QED BY <1>1, <1>2, <2>1 DEF Hangs
<1>4. ASSUME NEW c \in Elems \ {e}, Hangs(a, <<c>>) PROVE Hangs(b, <<c, e>>)
  <2>1. a.next[H] = c /\ a.next[c] = H /\ a.prev[H] = c /\ a.prev[c] = H
    BY <1>4 DEF Hangs
  <2>2. c \in Nodes /\ c # H
    BY HeadIs
  <2>3. /\ b.next[H] = c /\ b.next[c] = e /\ b.next[e] = H
        /\ b.prev[H] = e /\ b.prev[e] = c /\ b.prev[c] = H
    BY <1>1, <1>2, <2>1, <2>2
  <2> QED BY <2>3 DEF Hangs
<1>5. ASSUME Hangs(a, <<e>>) PROVE b.next[H] = e /\ b.next[e] = e /\ b.prev[e] = e
  <2>1. a.next[H] = e /\ a.next[e] = H /\ a.prev[H] = e /\ a.prev[e] = H
    BY <1>5 DEF Hangs
  <2> QED BY <1>1, <1>2, <2>1
<1> QED BY <1>1, <1>3, <1>4, <1>5 DEF b

\* list_remove of the first packet.
LEMMA RemoveHangs ==
  ASSUME NEW a \in Memories, NEW s \in Seq(Elems), Hangs(a, s), s # <<>>
  PROVE  /\ s[1] \in Elems
         /\ a.next[s[1]] = IF Tail(s) = <<>> THEN PktListHead ELSE Tail(s)[1]
         /\ ListRemove(a, s[1]) \in Memories /\ Hangs(ListRemove(a, s[1]), Tail(s))
         /\ {Tail(s)[i] : i \in DOMAIN Tail(s)} = {s[i] : i \in DOMAIN s} \ {s[1]}
<1> DEFINE H == PktListHead
<1>1. CASE \E e \in Elems :
          /\ s = <<e>>
          /\ a.next[H] = e /\ a.next[e] = H /\ a.prev[H] = e /\ a.prev[e] = H
  <2>1. PICK e \in Elems :
          /\ s = <<e>>
          /\ a.next[H] = e /\ a.next[e] = H /\ a.prev[H] = e /\ a.prev[e] = H
    BY <1>1
  <2>2. RingOn(a, {H, e}) /\ {H, e} \subseteq Nodes /\ e # H
    BY <2>1, HeadIs DEF RingOn
  <2>3. s[1] = e /\ Tail(s) = <<>> /\ DOMAIN s = {1} /\ DOMAIN Tail(s) = {}
    BY <2>1
  <2> DEFINE b == ListRemove(a, e)
  <2>4. /\ b \in Memories
        /\ \A n \in Nodes : b.next[n] = IF n = a.prev[e] THEN a.next[e] ELSE a.next[n]
        /\ \A n \in Nodes : b.prev[n] = IF n = a.next[e] THEN a.prev[e] ELSE a.prev[n]
    BY <2>2, RemoveValues
  <2> HIDE DEF b
  <2>5. Hangs(b, <<>>)
    BY <2>1, <2>4, HeadIs DEF Hangs
  <2> QED BY <2>1, <2>3, <2>4, <2>5 DEF b
<1>2. CASE \E c, e \in Elems :
          /\ s = <<c, e>> /\ c # e
          /\ a.next[H] = c /\ a.next[c] = e /\ a.next[e] = H
          /\ a.prev[H] = e /\ a.prev[e] = c /\ a.prev[c] = H
  <2>1. PICK c, e \in Elems :
          /\ s = <<c, e>> /\ c # e
          /\ a.next[H] = c /\ a.next[c] = e /\ a.next[e] = H
          /\ a.prev[H] = e /\ a.prev[e] = c /\ a.prev[c] = H
    BY <1>2
  <2>2. RingOn(a, {H, c, e}) /\ {H, c, e} \subseteq Nodes /\ e # H /\ c # H
    BY <2>1, HeadIs DEF RingOn
  <2>3. s[1] = c /\ Tail(s) = <<e>> /\ DOMAIN s = {1, 2} /\ DOMAIN Tail(s) = {1} /\ s[2] = e
        /\ Tail(s)[1] = e
    BY <2>1
  <2> DEFINE b == ListRemove(a, c)
  <2>4. /\ b \in Memories
        /\ \A n \in Nodes : b.next[n] = IF n = a.prev[c] THEN a.next[c] ELSE a.next[n]
        /\ \A n \in Nodes : b.prev[n] = IF n = a.next[c] THEN a.prev[c] ELSE a.prev[n]
    BY <2>2, RemoveValues
  <2> HIDE DEF b
  <2>5. b.next[H] = e /\ b.next[e] = H /\ b.prev[H] = e /\ b.prev[e] = H
    BY <2>1, <2>2, <2>4
  <2>6. Hangs(b, <<e>>)
    BY <2>5 DEF Hangs
  <2>7. Tail(s) # <<>>
    BY <2>3
  <2> QED BY <2>1, <2>3, <2>4, <2>6, <2>7 DEF b
<1> QED BY <1>1, <1>2 DEF Hangs

\* Between two turns nothing is left.
LEMMA BetweenTurns ==
  ASSUME PktInv, pkt = Null
  PROVE  turn # "fragment" /\ Left(<<>>) /\ alloc = {}
<1>1. Null \notin Elems /\ Null # PktListHead
  BY HeadIs
<1>2. turn # "fragment"
  BY <1>1 DEF PktInv, Looped
<1>3. PICK s \in Seq(Elems) : Left(s)
  BY <1>2 DEF PktInv
<1>4. s = <<>>
  <2> SUFFICES ASSUME s # <<>> PROVE FALSE
    OBVIOUS
  <2>1. s[1] \in Elems
    BY <1>3, RemoveHangs DEF Left, PktInv
  <2> QED BY <1>1, <1>3, <2>1 DEF Left
<1>5. alloc = {}
  BY <1>3, <1>4 DEF Left
<1> QED BY <1>2, <1>3, <1>4, <1>5

\* xmit_compress returns with what it built.
LEMMA HandInv ==
  ASSUME PktInv, pkt = Null, NEW a \in Memories, NEW s \in Seq(Elems),
         NEW kind \in {"one", "request"}, Hangs(a, s), Hand(a, s, kind)
  PROVE  PktInv'
<1>1. /\ heap' = a /\ alloc' = {s[i] : i \in DOMAIN s}
      /\ built' = s /\ sent' = <<>> /\ turn' = kind /\ pkt' = a.next[PktListHead]
  BY BetweenTurns DEF Hand, ListFront
<1>2. built' = sent' \o s /\ sent' \in Seq(Elems)
  BY <1>1
<1>3. a.next[PktListHead] = IF s = <<>> THEN PktListHead ELSE s[1]
  <2>1. CASE s = <<>>
    BY <2>1 DEF Hangs
  <2>2. CASE s # <<>>
    <3>1. a.next[PktListHead] = s[1]
      BY <2>2 DEF Hangs
    <3> QED BY <2>2, <3>1
  <2> QED BY <2>1, <2>2
<1>4. Left(s)'
  BY <1>1, <1>2, <1>3 DEF Left
<1> QED BY <1>1, <1>2, <1>4 DEF PktInv

LEMMA XmitInv ==
  ASSUME PktInv, XmitCompress
  PROVE  PktInv'
<1>1. /\ pkt = Null
      /\ \/ XmitNothing
         \/ \E e \in Elems : XmitOne(e) \/ XmitFragment(e)
         \/ \E c, e \in Elems : c # e /\ XmitRequest(c, e)
  BY DEF XmitCompress
<1>2. Empty \in Memories /\ Hangs(Empty, <<>>)
  BY EmptyHangs DEF PktInv
<1>3. CASE XmitNothing
  <2>1. <<>> \in Seq(Elems) /\ "one" \in {"one", "request"}
    OBVIOUS
  <2>2. Hand(Empty, <<>>, "one")
    BY <1>3 DEF XmitNothing
  <2> QED BY <1>1, <1>2, <2>1, <2>2, HandInv
<1>4. ASSUME NEW e \in Elems, XmitOne(e) PROVE PktInv'
  <2>1. <<e>> \in Seq(Elems) /\ "one" \in {"one", "request"}
    OBVIOUS
  <2>2. Push(Empty, e) \in Memories /\ Hangs(Push(Empty, e), <<e>>)
    BY <1>2, PushHangs
  <2>3. Hand(Push(Empty, e), <<e>>, "one")
    BY <1>4 DEF XmitOne
  <2> QED BY <1>1, <2>1, <2>2, <2>3, HandInv
<1>5. ASSUME NEW c \in Elems, NEW e \in Elems, c # e, XmitRequest(c, e) PROVE PktInv'
  <2>1. Push(Empty, c) \in Memories /\ Hangs(Push(Empty, c), <<c>>)
    BY <1>2, PushHangs
  <2>2. Push(Push(Empty, c), e) \in Memories /\ Hangs(Push(Push(Empty, c), e), <<c, e>>)
    BY <1>5, <2>1, PushHangs
  <2>3. <<c, e>> \in Seq(Elems) /\ "request" \in {"one", "request"}
    OBVIOUS
  <2>4. Hand(Push(Push(Empty, c), e), <<c, e>>, "request")
    BY <1>5 DEF XmitRequest
  <2> QED BY <1>1, <2>2, <2>3, <2>4, HandInv
<1>6. ASSUME NEW e \in Elems, XmitFragment(e) PROVE PktInv'
  <2> DEFINE b == Push(Push(Empty, e), e)
  <2>1. Push(Empty, e) \in Memories /\ Hangs(Push(Empty, e), <<e>>)
    BY <1>2, PushHangs
  <2>2. b \in Memories /\ b.next[PktListHead] = e /\ b.next[e] = e /\ b.prev[e] = e
    BY <2>1, PushHangs
  <2> HIDE DEF b
  <2>3. Hand(b, <<e>>, "fragment")
    BY <1>6 DEF XmitFragment, b
  <2>4. /\ heap' = b /\ alloc' = {<<e>>[i] : i \in DOMAIN <<e>>} /\ sent' = <<>>
        /\ turn' = "fragment" /\ pkt' = e
    BY <1>1, <2>2, <2>3, BetweenTurns DEF Hand, ListFront
  <2>5. alloc' \subseteq {e}
    BY <2>4
  <2>6. Looped'
    BY <2>2, <2>4, <2>5 DEF Looped
  <2> QED BY <2>2, <2>4, <2>6 DEF PktInv
<1> QED BY <1>1, <1>3, <1>4, <1>5, <1>6

LEMMA BodyInv ==
  ASSUME PktInv, LoopBody
  PROVE  PktInv'
<1>1. /\ pkt \in alloc /\ sent' = Append(sent, pkt) /\ heap' = ListRemove(heap, pkt)
      /\ alloc' = alloc \ {pkt} /\ pkt' = heap.next[pkt] /\ UNCHANGED <<turn, built>>
  BY DEF LoopBody
<1>2. CASE turn = "fragment"
  <2>1. PICK e \in Elems :
          pkt = e /\ alloc \subseteq {e} /\ heap.next[e] = e /\ heap.prev[e] = e
    BY <1>2 DEF PktInv, Looped
  <2>2. RingOn(heap, {e}) /\ {e} \subseteq Nodes /\ heap \in Memories
    BY <2>1, HeadIs DEF RingOn, PktInv
  <2> DEFINE b == ListRemove(heap, e)
  <2>3. /\ b \in Memories
        /\ \A n \in Nodes : b.next[n] = IF n = heap.prev[e] THEN heap.next[e] ELSE heap.next[n]
        /\ \A n \in Nodes : b.prev[n] = IF n = heap.next[e] THEN heap.prev[e] ELSE heap.prev[n]
    BY <2>2, RemoveValues
  <2> HIDE DEF b
  <2>4. heap' = b /\ pkt' = e /\ alloc' \subseteq {e}
    BY <1>1, <2>1 DEF b
  <2>5. Looped'
    BY <2>1, <2>2, <2>3, <2>4 DEF Looped
  <2>6. sent' \in Seq(Elems)
    BY <1>1, <2>1 DEF PktInv
  <2> QED BY <1>1, <1>2, <2>3, <2>4, <2>5, <2>6 DEF PktInv
<1>3. CASE turn # "fragment"
  <2>1. PICK s \in Seq(Elems) : Left(s)
    BY <1>3 DEF PktInv
  <2>2. s # <<>>
    BY <1>1, <2>1 DEF Left
  <2>3. heap \in Memories /\ Hangs(heap, s) /\ pkt = s[1] /\ sent \in Seq(Elems)
    BY <2>1, <2>2 DEF Left, PktInv
  <2>4. /\ s[1] \in Elems
        /\ heap.next[s[1]] = IF Tail(s) = <<>> THEN PktListHead ELSE Tail(s)[1]
        /\ ListRemove(heap, s[1]) \in Memories /\ Hangs(ListRemove(heap, s[1]), Tail(s))
        /\ {Tail(s)[i] : i \in DOMAIN Tail(s)} = {s[i] : i \in DOMAIN s} \ {s[1]}
    BY <2>2, <2>3, RemoveHangs
  <2>5. Tail(s) \in Seq(Elems) /\ sent' \in Seq(Elems) /\ built' = sent' \o Tail(s)
    <3>1. built = sent \o s
      BY <2>1 DEF Left
    <3>2. Append(sent, s[1]) \o Tail(s) = sent \o s
      BY <2>2, <2>3, <2>4
    <3> QED BY <1>1, <2>2, <2>3, <2>4, <3>1, <3>2
  <2>6. alloc' = {Tail(s)[i] : i \in DOMAIN Tail(s)}
    BY <1>1, <2>1, <2>3, <2>4 DEF Left
  <2>7. Left(Tail(s))'
    BY <1>1, <2>3, <2>4, <2>5, <2>6 DEF Left
  <2> QED BY <1>1, <1>3, <2>3, <2>4, <2>5, <2>7 DEF PktInv
<1> QED BY <1>2, <1>3

LEMMA EndInv ==
  ASSUME PktInv, LoopEnd
  PROVE  PktInv'
<1>1. pkt = PktListHead /\ pkt' = Null /\ UNCHANGED <<heap, alloc, turn, built, sent>>
  BY DEF LoopEnd
<1>2. turn # "fragment"
  BY <1>1, HeadIs DEF PktInv, Looped
<1>3. PICK s \in Seq(Elems) : Left(s)
  BY <1>2 DEF PktInv
<1>4. s = <<>>
  <2> SUFFICES ASSUME s # <<>> PROVE FALSE
    OBVIOUS
  <2>1. s[1] \in Elems
    BY <1>3, RemoveHangs DEF Left, PktInv
  <2> QED BY <1>1, <1>3, <2>1, HeadIs DEF Left
<1>5. Left(<<>>)'
  BY <1>1, <1>3, <1>4 DEF Left
<1>6. <<>> \in Seq(Elems)
  OBVIOUS
<1> QED BY <1>1, <1>2, <1>5, <1>6 DEF PktInv

LEMMA PktInitInv == PktInit => PktInv
<1> SUFFICES ASSUME PktInit PROVE PktInv
  OBVIOUS
<1>1. /\ heap = [next |-> [n \in Nodes |-> n], prev |-> [n \in Nodes |-> n]]
      /\ alloc = {} /\ built = <<>> /\ sent = <<>> /\ turn = "one" /\ pkt = Null
  BY DEF PktInit
<1>2. heap \in Memories /\ Hangs(heap, <<>>)
  BY <1>1, HeadIs DEF Memories, Hangs
<1>3. Left(<<>>)
  BY <1>1, <1>2 DEF Left
<1>4. <<>> \in Seq(Elems)
  OBVIOUS
<1> QED BY <1>1, <1>2, <1>3, <1>4 DEF PktInv

LEMMA PktNextInv == PktInv /\ [PktNext]_pktVars => PktInv'
<1>1. ASSUME PktInv, UNCHANGED pktVars PROVE PktInv'
  BY <1>1 DEF pktVars, PktInv, Looped, Left
<1> QED BY <1>1, XmitInv, BodyInv, EndInv DEF PktNext, UseAfterFree

\* Whatever xmit_compress builds, the loop of recv_tun sends each packet once
\* and in order and frees it, and stays on nodes that are allocated, but for a
\* fragment.
THEOREM PacketsSentOnce == PktSpec => []PacketsSafe
<1>1. PktInv => PacketsSafe
  <2> SUFFICES ASSUME PktInv PROVE PacketsSafe
    OBVIOUS
  <2>1. TurnComplete
    <3> SUFFICES ASSUME pkt = Null
                 PROVE  sent = built /\ alloc = {} /\ ListIsEmpty(heap, PktListHead)
      BY DEF TurnComplete
    <3>1. Left(<<>>) /\ alloc = {}
      BY BetweenTurns
    <3>2. sent \o <<>> = sent
      BY DEF PktInv
    <3> QED BY <3>1, <3>2 DEF Left, Hangs, ListIsEmpty
  <2>2. OthersSafe
    <3> SUFFICES ASSUME turn # "fragment", pkt \in Elems PROVE pkt \in alloc
      BY DEF OthersSafe
    <3>1. PICK s \in Seq(Elems) : Left(s)
      BY DEF PktInv
    <3>2. s # <<>>
      BY <3>1, HeadIs DEF Left
    <3>3. 1 \in DOMAIN s
      BY <3>2
    <3> QED BY <3>1, <3>2, <3>3 DEF Left
  <2> QED BY <2>1, <2>2 DEF PacketsSafe
<1> QED BY <1>1, PktInitInv, PktNextInv, PTL DEF PktSpec

-----------------------------------------------------------------------------
(* PollEvent: the deadline that poll_block waits for is the first of those  *)
(* registered, and poll gives up no earlier than that or INT_MAX.           *)

PollInv ==
  /\ PollTypeOK
  /\ IF polling = "returned" \/ deadlines = {} THEN timeout_when = Never
     ELSE Earliest(timeout_when)
  /\ polling = "poll" => /\ start <= now
                         /\ until >= timeout_when \/ until - start >= IntMax
  /\ NotEarly

\* What poll is called with.
LEMMA TimeLeftIs ==
  ASSUME PollTypeOK
  PROVE  /\ now + TimeLeft \in 0..(MaxTime + IntMax) /\ TimeLeft \in Nat
         /\ now + TimeLeft >= timeout_when \/ TimeLeft >= IntMax
BY TimeAssumption DEF PollTypeOK, TimeLeft, Least, Never, AtOnce

\* poll_timer_wait keeps the first deadline.
LEMMA TimerWaitInv ==
  ASSUME PollInv, NEW msec \in Delays, PollTimerWait(msec)
  PROVE  PollInv'
<1> DEFINE when == IF msec <= 0 THEN AtOnce ELSE now + msec
<1>1. /\ polling = "idle" /\ when <= MaxTime
      /\ timeout_when' = EarlierOf(when) /\ deadlines' = deadlines \cup {when}
      /\ UNCHANGED <<now, waiters, ready, polling, start, until, retval>>
  BY DEF PollTimerWait
<1>2. msec \in Int /\ IntMax \in Nat /\ MaxTime \in Nat
  BY TimeAssumption
<1>3. now \in Nat /\ timeout_when \in AtOnce..Never /\ deadlines \subseteq AtOnce..MaxTime
  BY <1>2 DEF PollInv, PollTypeOK
<1>4. when \in AtOnce..MaxTime
  BY <1>1, <1>2, <1>3 DEF AtOnce
<1> HIDE DEF when
<1>5. timeout_when' = IF when <= timeout_when THEN when ELSE timeout_when
  BY <1>1 DEF EarlierOf, Least
<1>6. PollTypeOK'
  BY <1>1, <1>2, <1>3, <1>4, <1>5 DEF PollInv, PollTypeOK, Never, AtOnce
<1>7. Earliest(timeout_when)'
  <2>1. \A d \in deadlines : timeout_when <= d
    BY <1>1 DEF PollInv, Earliest
  <2>2. timeout_when' \in deadlines'
    <3>1. CASE deadlines = {}
      BY <1>1, <1>2, <1>4, <1>5, <3>1 DEF PollInv, Never, AtOnce
    <3>2. CASE deadlines # {}
      BY <1>1, <1>5, <3>2 DEF PollInv, Earliest
    <3> QED BY <3>1, <3>2
  <2>3. \A d \in deadlines' : timeout_when' <= d
    BY <1>1, <1>2, <1>3, <1>4, <1>5, <2>1 DEF AtOnce, Never
  <2> QED BY <2>2, <2>3 DEF Earliest
<1>8. deadlines' # {} /\ NotEarly'
  BY <1>1 DEF NotEarly
<1> QED BY <1>1, <1>6, <1>7, <1>8 DEF PollInv

\* poll_block returns for an event or when its time is up.
LEMMA ReturnsInv ==
  ASSUME PollInv, Returns
  PROVE  PollInv'
<1>1. /\ polling = "poll" /\ (ready \cap waiters # {} \/ now >= until)
      /\ retval' = Cardinality(ready \cap waiters) /\ waiters' = {} /\ timeout_when' = Never
      /\ polling' = "returned" /\ UNCHANGED <<now, ready, start, until, deadlines>>
  BY DEF Returns, Forget
<1>2. ready \cap waiters \in SUBSET Fds /\ IsFiniteSet(Fds) /\ IsFiniteSet(ready \cap waiters)
  BY TimeAssumption, FS_Subset DEF PollInv, PollTypeOK
<1>3. retval' \in 0..Cardinality(Fds)
  BY <1>1, <1>2, FS_Subset, FS_CardinalityType
<1>4. PollTypeOK'
  BY <1>1, <1>3, TimeAssumption DEF PollInv, PollTypeOK, Never, AtOnce, Failed
<1>5. NotEarly'
  <2> SUFFICES ASSUME retval' = 0
               PROVE  \/ \E d \in deadlines : Earliest(d) /\ now >= d
                      \/ now - start >= IntMax
    BY <1>1 DEF NotEarly, Earliest
  <2>1. ready \cap waiters = {}
    BY <1>1, <1>2, FS_EmptySet
  <2>2. now >= until /\ (until >= timeout_when \/ until - start >= IntMax)
    BY <1>1, <2>1 DEF PollInv
  <2>3. /\ now \in 0..MaxTime /\ start \in 0..MaxTime /\ until \in Nat /\ IntMax \in Nat
        /\ MaxTime \in Nat /\ timeout_when \in AtOnce..Never
    BY TimeAssumption DEF PollInv, PollTypeOK
  <2>4. CASE until - start >= IntMax
    BY <2>2, <2>3, <2>4
  <2>5. CASE until >= timeout_when
    <3>1. now >= timeout_when /\ timeout_when # Never
      BY <2>2, <2>3, <2>5 DEF Never, AtOnce
    <3>2. Earliest(timeout_when)
      BY <1>1, <3>1 DEF PollInv
    <3> QED BY <3>1, <3>2 DEF Earliest
  <2> QED BY <2>2, <2>4, <2>5
<1> QED BY <1>1, <1>4, <1>5 DEF PollInv

LEMMA FailsInv ==
  ASSUME PollInv, Fails
  PROVE  PollInv'
<1>1. /\ retval' = -1 /\ waiters' = {} /\ timeout_when' = Never
      /\ polling' = "returned" /\ UNCHANGED <<now, ready, start, until, deadlines>>
  BY DEF Fails, Forget, Failed
<1>2. Cardinality(Fds) \in Nat
  BY TimeAssumption, FS_CardinalityType
<1>3. PollTypeOK'
  BY <1>1, <1>2, TimeAssumption DEF PollInv, PollTypeOK, Never, AtOnce, Failed
<1> QED BY <1>1, <1>3 DEF PollInv, NotEarly

LEMMA PollInitInv == PollInit => PollInv
<1> SUFFICES ASSUME PollInit PROVE PollInv
  OBVIOUS
<1>1. Cardinality(Fds) \in Nat
  BY TimeAssumption, FS_CardinalityType
<1> QED BY <1>1, TimeAssumption DEF PollInit, PollInv, PollTypeOK, NotEarly, Never, AtOnce, Failed

LEMMA PollNextInv == PollInv /\ [PollNext]_pollVars => PollInv'
<1> SUFFICES ASSUME PollInv, [PollNext]_pollVars PROVE PollInv'
  OBVIOUS
<1> USE TimeAssumption
<1>1. ASSUME NEW fd \in Fds, PollFdWait(fd) \/ PollCancel(fd) \/ EventOn(fd) PROVE PollInv'
  <2>1. /\ UNCHANGED <<now, timeout_when, polling, start, until, retval, deadlines>>
        /\ waiters' \subseteq Fds /\ ready' \subseteq Fds
    BY <1>1 DEF PollFdWait, PollCancel, EventOn, PollInv, PollTypeOK
  <2> QED BY <2>1 DEF PollInv, PollTypeOK, Earliest, NotEarly
<1>2. CASE PollBlock
  <2>1. /\ polling' = "poll" /\ start' = now /\ until' = now + TimeLeft /\ polling = "idle"
        /\ UNCHANGED <<now, waiters, timeout_when, ready, retval, deadlines>>
    BY <1>2 DEF PollBlock
  <2>2. PollTypeOK' /\ start' <= now' /\ (until' >= timeout_when' \/ until' - start' >= IntMax)
    BY <2>1, TimeLeftIs DEF PollInv, PollTypeOK
  <2> QED BY <2>1, <2>2 DEF PollInv, Earliest, NotEarly
<1>3. CASE Interrupted
  <2>1. /\ polling = "poll" /\ until' = now + TimeLeft
        /\ UNCHANGED <<now, waiters, timeout_when, ready, polling, start, retval, deadlines>>
    BY <1>3 DEF Interrupted
  <2>2. PollTypeOK' /\ start' <= now' /\ (until' >= timeout_when' \/ until' - start' >= IntMax)
    BY <2>1, TimeLeftIs DEF PollInv, PollTypeOK
  <2> QED BY <2>1, <2>2 DEF PollInv, Earliest, NotEarly
<1>4. CASE Handle
  <2>1. /\ polling' = "idle" /\ ready' = {} /\ deadlines' = {}
        /\ UNCHANGED <<now, waiters, timeout_when, start, until, retval>>
        /\ timeout_when = Never
    BY <1>4 DEF Handle, PollInv
  <2> QED BY <2>1 DEF PollInv, PollTypeOK, NotEarly
<1>5. CASE Tick
  BY <1>5 DEF Tick, PollInv, PollTypeOK, Earliest, NotEarly
<1>6. CASE UNCHANGED pollVars
  BY <1>6 DEF pollVars, PollInv, PollTypeOK, Earliest, NotEarly
<1> QED BY <1>1, <1>2, <1>3, <1>4, <1>5, <1>6, TimerWaitInv, ReturnsInv, FailsInv DEF PollNext

\* For any deadlines and however often poll is interrupted, poll_block without an
\* event or an error returns no earlier than the first deadline of its turn (or INT_MAX).
THEOREM PollNotEarly == PollSpec => [](PollTypeOK /\ NotEarly)
<1>1. PollInv => PollTypeOK /\ NotEarly
  BY DEF PollInv
<1> QED BY <1>1, PollInitInv, PollNextInv, PTL DEF PollSpec

-----------------------------------------------------------------------------
(* List: each ring, walked from its head, is the sequence that the calls    *)
(* make, so that the pointers implement Deques.                             *)

\* The node at place i of the ring of l that holds s: l is before the first
\* element and behind the last.
Spot(l, s, i) == IF i \in 1..Len(s) THEN s[i] ELSE l

\* The ring of l holds s, each element once, and they are those of owner l.
Shows(a, own, l, s) ==
  /\ s \in Seq(Elems)
  /\ \A i \in 0..Len(s) : /\ a.next[Spot(l, s, i)] = Spot(l, s, i + 1)
                          /\ a.prev[Spot(l, s, i + 1)] = Spot(l, s, i)
  /\ \A i, j \in 1..Len(s) : s[i] = s[j] => i = j
  /\ \A e \in Elems : own[e] = l <=> \E i \in 1..Len(s) : s[i] = e

\* t is s with e before the place k, or without what is there.
Added(s, k, e, t) ==
  /\ Len(t) = Len(s) + 1
  /\ \A i \in 1..Len(t) : t[i] = IF i < k THEN s[i] ELSE IF i = k THEN e ELSE s[i - 1]

Dropped(s, k, t) ==
  /\ Len(t) = Len(s) - 1
  /\ \A i \in 1..Len(t) : t[i] = IF i < k THEN s[i] ELSE s[i + 1]

LEMMA InsertAtAdds ==
  ASSUME NEW s \in Seq(Elems), NEW k \in 1..(Len(s) + 1), NEW e \in Elems
  PROVE  Seqs!InsertAt(s, k, e) \in Seq(Elems) /\ Added(s, k, e, Seqs!InsertAt(s, k, e))
<1> DEFINE a == SubSeq(s, 1, k - 1)
           b == SubSeq(s, k, Len(s))
<1>1. /\ a \in Seq(Elems) /\ Len(a) = k - 1 /\ \A i \in 1..(k - 1) : a[i] = s[i]
  OBVIOUS
<1>2. /\ b \in Seq(Elems) /\ Len(b) = Len(s) - k + 1
      /\ \A i \in 1..(Len(s) - k + 1) : b[i] = s[k + i - 1]
  OBVIOUS
<1>3. Seqs!InsertAt(s, k, e) = (a \o <<e>>) \o b
  BY DEF Seqs!InsertAt
<1> HIDE DEF a, b
<1>4. /\ a \o <<e>> \in Seq(Elems) /\ Len(a \o <<e>>) = k
      /\ \A i \in 1..k : (a \o <<e>>)[i] = IF i < k THEN s[i] ELSE e
  BY <1>1
<1> DEFINE c == a \o <<e>>
<1>5. c \in Seq(Elems) /\ Len(c) = k /\ \A i \in 1..k : c[i] = IF i < k THEN s[i] ELSE e
  BY <1>4
<1> HIDE DEF c
<1>6. /\ c \o b \in Seq(Elems) /\ Len(c \o b) = Len(s) + 1
      /\ \A i \in 1..(Len(s) + 1) : (c \o b)[i] = IF i <= k THEN c[i] ELSE b[i - k]
  BY <1>2, <1>5, ConcatProperties
<1>7. ASSUME NEW i \in 1..(Len(s) + 1)
      PROVE  (c \o b)[i] = IF i < k THEN s[i] ELSE IF i = k THEN e ELSE s[i - 1]
  BY <1>2, <1>5, <1>6
<1> QED BY <1>3, <1>6, <1>7 DEF Added, c

LEMMA RemoveAtDrops ==
  ASSUME NEW s \in Seq(Elems), NEW k \in 1..Len(s)
  PROVE  Seqs!RemoveAt(s, k) \in Seq(Elems) /\ Dropped(s, k, Seqs!RemoveAt(s, k))
<1> DEFINE a == SubSeq(s, 1, k - 1)
           b == SubSeq(s, k + 1, Len(s))
<1>1. /\ a \in Seq(Elems) /\ Len(a) = k - 1 /\ \A i \in 1..(k - 1) : a[i] = s[i]
  OBVIOUS
<1>2. /\ b \in Seq(Elems) /\ Len(b) = Len(s) - k
      /\ \A i \in 1..(Len(s) - k) : b[i] = s[k + i]
  OBVIOUS
<1> DEFINE c == a \o b
<1>3. Seqs!RemoveAt(s, k) = c
  BY DEF Seqs!RemoveAt
<1> HIDE DEF a, b
<1>4. /\ c \in Seq(Elems) /\ Len(c) = Len(s) - 1
      /\ \A i \in 1..(Len(s) - 1) : c[i] = IF i <= k - 1 THEN a[i] ELSE b[i - (k - 1)]
  BY <1>1, <1>2, ConcatProperties
<1> HIDE DEF c
<1>5. ASSUME NEW i \in 1..(Len(s) - 1)
      PROVE  c[i] = IF i < k THEN s[i] ELSE s[i + 1]
  <2>1. Len(s) \in Nat /\ i \in Nat /\ k \in Nat
    OBVIOUS
  <2>2. ASSUME i < k PROVE c[i] = s[i]
    <3>1. c[i] = a[i] /\ i \in 1..(k - 1)
      BY <1>4, <2>1, <2>2
    <3> QED BY <1>1, <3>1
  <2>3. ASSUME i >= k PROVE c[i] = s[i + 1]
    <3>1. c[i] = b[i - (k - 1)]
      BY <1>4, <2>1, <2>3
    <3>2. i - (k - 1) \in 1..(Len(s) - k) /\ k + (i - (k - 1)) = i + 1
      BY <2>1, <2>3
    <3>3. b[i - (k - 1)] = s[k + (i - (k - 1))]
      BY <1>2, <3>2
    <3> QED BY <3>1, <3>2, <3>3
  <2> QED BY <2>1, <2>2, <2>3
<1> QED BY <1>3, <1>4, <1>5 DEF Dropped

\* The ends.
LEMMA EndsAdd ==
  ASSUME NEW s \in Seq(Elems), NEW e \in Elems
  PROVE  /\ <<e>> \o s \in Seq(Elems) /\ Added(s, 1, e, <<e>> \o s)
         /\ Append(s, e) \in Seq(Elems) /\ Added(s, Len(s) + 1, e, Append(s, e))
<1>1. <<e>> \in Seq(Elems) /\ Len(<<e>>) = 1 /\ <<e>>[1] = e
  OBVIOUS
<1>2. \A i \in 1..(Len(s) + 1) : (<<e>> \o s)[i] = IF i = 1 THEN e ELSE s[i - 1]
  BY <1>1
<1> QED BY <1>1, <1>2 DEF Added

LEMMA EndsDrop ==
  ASSUME NEW s \in Seq(Elems), s # <<>>
  PROVE  /\ Tail(s) \in Seq(Elems) /\ Dropped(s, 1, Tail(s))
         /\ Seqs!Front(s) \in Seq(Elems) /\ Dropped(s, Len(s), Seqs!Front(s))
<1>1. Len(s) \in Nat \ {0}
  OBVIOUS
<1>2. Seqs!Front(s) = SubSeq(s, 1, Len(s) - 1)
  BY DEF Seqs!Front
<1>3. Tail(s) \in Seq(Elems) /\ Dropped(s, 1, Tail(s))
  BY <1>1, HeadTailProperties DEF Dropped
<1>4. /\ SubSeq(s, 1, Len(s) - 1) \in Seq(Elems)
      /\ Len(SubSeq(s, 1, Len(s) - 1)) = Len(s) - 1
      /\ \A i \in 1..(Len(s) - 1) : SubSeq(s, 1, Len(s) - 1)[i] = s[i]
  BY <1>1
<1> QED BY <1>1, <1>2, <1>3, <1>4 DEF Dropped

\* What the walk of Contents adds to what it has met.
Walked(l, met) ==
  LET node == m.next[IF met = <<>> THEN l ELSE met[Len(met)]]
  IN IF node = l THEN met ELSE Append(met, node)

\* The first i elements, or all.
Upto(s, i) == IF i < Len(s) THEN SubSeq(s, 1, i) ELSE s

LEMMA WalkStep ==
  ASSUME NEW l \in Heads, NEW s, Shows(m, owner, l, s), NEW i \in Nat
  PROVE  Walked(l, Upto(s, i)) = Upto(s, i + 1)
<1> USE DEF Upto
<1>1. s \in Seq(Elems) /\ Len(s) \in Nat
  BY DEF Shows
<1>2. CASE i < Len(s)
  <2>1. Upto(s, i) = SubSeq(s, 1, i) /\ Upto(s, i) \in Seq(Elems) /\ Len(Upto(s, i)) = i
        /\ (i # 0 => Upto(s, i)[i] = s[i])
    BY <1>1, <1>2
  <2>2. Upto(s, i) = <<>> <=> i = 0
    BY <2>1
  <2>3. (IF Upto(s, i) = <<>> THEN l ELSE Upto(s, i)[Len(Upto(s, i))]) = Spot(l, s, i)
    BY <1>1, <1>2, <2>1, <2>2 DEF Spot
  <2>4. m.next[Spot(l, s, i)] = s[i + 1] /\ s[i + 1] \in Elems
    <3>1. Spot(l, s, i + 1) = s[i + 1] /\ i \in 0..Len(s)
      BY <1>1, <1>2 DEF Spot
    <3> QED BY <1>1, <1>2, <3>1 DEF Shows
  <2>5. s[i + 1] # l
    BY <2>4, NodesAssumption
  <2>6. Walked(l, Upto(s, i)) = Append(Upto(s, i), s[i + 1])
    BY <2>3, <2>4, <2>5 DEF Walked
  <2>7. Append(SubSeq(s, 1, i), s[i + 1]) = SubSeq(s, 1, i + 1)
    BY <1>1, <1>2
  <2>8. i + 1 = Len(s) => SubSeq(s, 1, i + 1) = s
    BY <1>1
  <2>9. Upto(s, i + 1) = SubSeq(s, 1, i + 1)
    <3>1. CASE i + 1 < Len(s)
      BY <3>1
    <3>2. CASE i + 1 = Len(s)
      BY <2>8, <3>2
    <3> QED BY <1>1, <1>2, <3>1, <3>2
  <2> QED BY <2>1, <2>6, <2>7, <2>9
<1>3. CASE i >= Len(s)
  <2>1. Upto(s, i) = s /\ Upto(s, i + 1) = s
    BY <1>1, <1>3
  <2>2. (IF s = <<>> THEN l ELSE s[Len(s)]) = Spot(l, s, Len(s))
    BY <1>1 DEF Spot
  <2>3. m.next[Spot(l, s, Len(s))] = l
    BY <1>1 DEF Shows, Spot
  <2> QED BY <2>1, <2>2, <2>3 DEF Walked
<1> QED BY <1>1, <1>2, <1>3

\* Contents finds what the ring of l holds.
LEMMA ContentsIs ==
  ASSUME NEW l \in Heads, NEW s, Shows(m, owner, l, s), m \in Memories
  PROVE  Contents(l) = s
<1> DEFINE N == Cardinality(Elems)
           step == [met \in Seq(Nodes) |-> Walked(l, met)]
<1>1. s \in Seq(Elems) /\ Len(s) \in Nat
  BY DEF Shows
<1>2. N \in Nat /\ Len(s) <= N
  <2> DEFINE f == [i \in 1..Len(s) |-> s[i]]
  <2>1. f \in Injection(1..Len(s), Elems)
    BY <1>1 DEF Shows, Injection, IsInjective
  <2>2. IsFiniteSet(Elems) /\ Cardinality(1..Len(s)) = Len(s)
    <3>1. IsFiniteSet(Elems)
      BY NodesAssumption
    <3>2. 1 \in Int /\ Len(s) \in Int
      BY <1>1
    <3>3. Cardinality(1..Len(s)) = IF 1 > Len(s) THEN 0 ELSE Len(s) - 1 + 1
      BY <3>2, FS_Interval
    <3> QED BY <1>1, <3>1, <3>3
  <2> HIDE DEF f
  <2> QED BY <1>1, <2>1, <2>2, FS_Injection, FS_CardinalityType
<1>3. step \in [Seq(Nodes) -> Seq(Nodes)]
  <2> SUFFICES ASSUME NEW met \in Seq(Nodes) PROVE Walked(l, met) \in Seq(Nodes)
    OBVIOUS
  <2>1. (IF met = <<>> THEN l ELSE met[Len(met)]) \in Nodes
    BY DEF Nodes
  <2>2. m.next[IF met = <<>> THEN l ELSE met[Len(met)]] \in Nodes
    BY <2>1 DEF Memories
  <2> QED BY <2>2 DEF Walked
<1>4. PICK f \in [0..N -> Seq(Nodes)] : Follows(step, <<>>, f, N)
  <2>1. <<>> \in Seq(Nodes)
    OBVIOUS
  <2> HIDE DEF step, N
  <2> QED BY <1>2, <1>3, <2>1, FunctionExists
<1>5. f = [i \in 0..N |-> IF i = 0 THEN <<>> ELSE Walked(l, f[i - 1])]
  <2>1. \A i \in 0..N : i # 0 => step[f[i - 1]] = Walked(l, f[i - 1])
    BY <1>2
  <2> HIDE DEF step
  <2> QED BY <1>4, <2>1 DEF Follows
<1> DEFINE walk == CHOOSE w : w = [i \in 0..N |-> IF i = 0 THEN <<>> ELSE Walked(l, w[i - 1])]
<1>6. walk = [i \in 0..N |-> IF i = 0 THEN <<>> ELSE Walked(l, walk[i - 1])]
  BY <1>5, Zenon
<1> HIDE DEF walk, step
<1>7. ~ListIsEmpty(m, l) => Contents(l) = walk[N]
  BY Zenon DEF Contents, Walked, walk
<1>8. \A i \in Nat : i <= N => walk[i] = Upto(s, i)
  <2> DEFINE K == {i \in Nat : i <= N => walk[i] = Upto(s, i)}
  <2>1. 0 \in K
    <3>1. Upto(s, 0) = <<>>
      BY <1>1 DEF Upto
    <3> QED BY <1>2, <1>6, <3>1
  <2>2. ASSUME NEW i \in K PROVE i + 1 \in K
    <3> SUFFICES ASSUME i + 1 <= N PROVE walk[i + 1] = Upto(s, i + 1)
      OBVIOUS
    <3>1. walk[i] = Upto(s, i) /\ i \in Nat
      BY <1>2
    <3>2. walk[i + 1] = Walked(l, walk[i])
      BY <1>2, <1>6, <3>1
    <3> QED BY <3>1, <3>2, WalkStep
  <2> HIDE DEF K
  <2>3. K = Nat
    <3>1. K \in SUBSET Nat
      BY DEF K
    <3> QED BY <2>1, <2>2, <3>1, SetInduction
  <2> QED BY <2>3 DEF K
<1>9. CASE ListIsEmpty(m, l)
  <2>1. Len(s) = 0
    <3> SUFFICES ASSUME Len(s) # 0 PROVE FALSE
      OBVIOUS
    <3>1. Spot(l, s, 0) = l /\ Spot(l, s, 1) = s[1] /\ s[1] \in Elems
      BY <1>1 DEF Spot
    <3>2. m.next[Spot(l, s, 0)] = Spot(l, s, 0 + 1)
      BY <1>1 DEF Shows
    <3> QED BY <1>9, <3>1, <3>2, NodesAssumption DEF ListIsEmpty
  <2> QED BY <1>1, <1>9, <2>1 DEF Contents
<1>10. CASE ~ListIsEmpty(m, l)
  <2>1. Upto(s, N) = s
    BY <1>1, <1>2 DEF Upto
  <2> QED BY <1>2, <1>7, <1>8, <1>10, <2>1
<1> QED BY <1>9, <1>10

\* The nodes of a ring are different, and no node is in two rings.
LEMMA PlacesDiffer ==
  ASSUME ListInv, NEW l \in Heads, NEW s, Shows(m, owner, l, s)
  PROVE  /\ Len(s) \in Nat
         /\ \A i \in 0..(Len(s) + 1) : Spot(l, s, i) \in Nodes /\ ListOf(Spot(l, s, i)) = l
         /\ \A i, j \in 0..Len(s) : Spot(l, s, i) = Spot(l, s, j) => i = j
         /\ \A i, j \in 1..(Len(s) + 1) : Spot(l, s, i) = Spot(l, s, j) => i = j
         /\ Spot(l, s, 0) = l /\ Spot(l, s, Len(s) + 1) = l
<1>1. s \in Seq(Elems) /\ Len(s) \in Nat /\ \A i \in 1..Len(s) : s[i] \in Elems
  BY DEF Shows
<1>2. \A i \in 1..Len(s) : Spot(l, s, i) = s[i] /\ s[i] # l /\ owner[s[i]] = l
  <2> SUFFICES ASSUME NEW i \in 1..Len(s)
               PROVE  Spot(l, s, i) = s[i] /\ s[i] # l /\ owner[s[i]] = l
    OBVIOUS
  <2>1. Spot(l, s, i) = s[i] /\ s[i] # l
    BY <1>1, NodesAssumption DEF Spot
  <2>2. owner[s[i]] = l
    BY <1>1 DEF Shows
  <2> QED BY <2>1, <2>2
<1>3. Spot(l, s, 0) = l /\ Spot(l, s, Len(s) + 1) = l
  BY <1>1 DEF Spot
<1>4. \A i, j \in 1..Len(s) : s[i] = s[j] => i = j
  BY DEF Shows
<1>5. \A i \in 0..(Len(s) + 1) : Spot(l, s, i) \in Nodes /\ ListOf(Spot(l, s, i)) = l
  <2> SUFFICES ASSUME NEW i \in 0..(Len(s) + 1)
               PROVE  Spot(l, s, i) \in Nodes /\ ListOf(Spot(l, s, i)) = l
    OBVIOUS
  <2>1. CASE i \in 1..Len(s)
    BY <1>1, <1>2, <2>1, NodesAssumption DEF Nodes, ListOf
  <2>2. CASE i = 0 \/ i = Len(s) + 1
    BY <1>3, <2>2 DEF Nodes, ListOf
  <2> QED BY <1>1, <2>1, <2>2
<1>6. \A i, j \in 0..Len(s) : Spot(l, s, i) = Spot(l, s, j) => i = j
  <2> SUFFICES ASSUME NEW i \in 0..Len(s), NEW j \in 0..Len(s), Spot(l, s, i) = Spot(l, s, j)
               PROVE  i = j
    OBVIOUS
  <2>1. i = 0 \/ i \in 1..Len(s)
    BY <1>1
  <2>2. j = 0 \/ j \in 1..Len(s)
    BY <1>1
  <2> QED BY <1>2, <1>3, <1>4, <2>1, <2>2
<1>7. \A i, j \in 1..(Len(s) + 1) : Spot(l, s, i) = Spot(l, s, j) => i = j
  <2> SUFFICES ASSUME NEW i \in 1..(Len(s) + 1), NEW j \in 1..(Len(s) + 1),
                      Spot(l, s, i) = Spot(l, s, j)
               PROVE  i = j
    OBVIOUS
  <2>1. i = Len(s) + 1 \/ i \in 1..Len(s)
    BY <1>1
  <2>2. j = Len(s) + 1 \/ j \in 1..Len(s)
    BY <1>1
  <2> QED BY <1>2, <1>3, <1>4, <2>1, <2>2
<1> QED BY <1>1, <1>3, <1>5, <1>6, <1>7

\* A list that has none of the nodes whose pointers or owner change.
LEMMA OthersShow ==
  ASSUME ListInv, NEW l \in Heads, NEW s, Shows(m, owner, l, s),
         NEW B, NEW e \in Elems, owner[e] # l, \A n \in B : ListOf(n) # l,
         NEW b \in Memories, NEW own, own[e] # l, \A x \in Elems \ {e} : own[x] = owner[x],
         \A n \in Nodes \ B : n # e => b.next[n] = m.next[n] /\ b.prev[n] = m.prev[n]
  PROVE  Shows(b, own, l, s)
<1>1. /\ Len(s) \in Nat
      /\ \A i \in 0..(Len(s) + 1) : Spot(l, s, i) \in Nodes /\ ListOf(Spot(l, s, i)) = l
  BY PlacesDiffer
<1>2. \A i \in 0..(Len(s) + 1) : Spot(l, s, i) \in Nodes \ B /\ Spot(l, s, i) # e
  <2>1. ListOf(e) = owner[e]
    BY NodesAssumption DEF ListOf
  <2> QED BY <1>1, <2>1
<1>3. ASSUME NEW i \in 0..Len(s)
      PROVE  b.next[Spot(l, s, i)] = Spot(l, s, i + 1) /\ b.prev[Spot(l, s, i + 1)] = Spot(l, s, i)
  <2>1. i \in 0..(Len(s) + 1) /\ i + 1 \in 0..(Len(s) + 1)
    BY <1>1
  <2>2. m.next[Spot(l, s, i)] = Spot(l, s, i + 1) /\ m.prev[Spot(l, s, i + 1)] = Spot(l, s, i)
    BY DEF Shows
  <2> QED BY <1>2, <2>1, <2>2
<1>4. \A x \in Elems : own[x] = l <=> owner[x] = l
  OBVIOUS
<1> QED BY <1>3, <1>4 DEF Shows

\* A sequence without repetitions, with another element.
LEMMA AddedOnce ==
  ASSUME NEW s \in Seq(Elems), NEW k \in 1..(Len(s) + 1), NEW e,
         NEW t \in Seq(Elems), Added(s, k, e, t),
         \A i \in 1..Len(s) : s[i] # e,
         \A i, j \in 1..Len(s) : s[i] = s[j] => i = j
  PROVE  \A i, j \in 1..Len(t) : t[i] = t[j] => i = j
<1> DEFINE from(i) == IF i < k THEN i ELSE i - 1
<1>1. Len(s) \in Nat /\ Len(t) = Len(s) + 1
  BY DEF Added
<1>2. ASSUME NEW i \in 1..Len(t), i # k
      PROVE  from(i) \in 1..Len(s) /\ t[i] = s[from(i)]
  BY <1>1, <1>2 DEF Added
<1>3. \A i, j \in 1..Len(t) : i # k /\ j # k /\ from(i) = from(j) => i = j
  BY <1>1
<1>4. t[k] = e
  BY <1>1 DEF Added
<1> HIDE DEF from
<1> SUFFICES ASSUME NEW i \in 1..Len(t), NEW j \in 1..Len(t), t[i] = t[j], i # j
             PROVE  FALSE
  OBVIOUS
<1>5. CASE i # k /\ j # k
  <2>1. s[from(i)] = s[from(j)] /\ from(i) \in 1..Len(s) /\ from(j) \in 1..Len(s)
    BY <1>2, <1>5
  <2> QED BY <1>3, <1>5, <2>1
<1>6. CASE i = k
  BY <1>2, <1>4, <1>6
<1>7. CASE j = k
  BY <1>2, <1>4, <1>7
<1> QED BY <1>5, <1>6, <1>7

\* A node is linked before the place k of l.
LEMMA LinkShows ==
  ASSUME ListInv, NEW l \in Heads, NEW s, Shows(m, owner, l, s), NEW k \in 1..(Len(s) + 1),
         NEW e \in Elems, Links(e, l), m' = ListInsert(m, Spot(l, s, k), e),
         NEW t \in Seq(Elems), Added(s, k, e, t)
  PROVE  /\ Shows(m', owner', l, t)
         /\ \A h \in Heads \ {l} : \A r : Shows(m, owner, h, r) => Shows(m', owner', h, r)
<1> DEFINE b == Spot(l, s, k)
           p == Spot(l, s, k - 1)
<1>1. /\ Len(s) \in Nat /\ Len(t) = Len(s) + 1
      /\ \A i \in 0..(Len(s) + 1) : Spot(l, s, i) \in Nodes /\ ListOf(Spot(l, s, i)) = l
      /\ \A i, j \in 0..Len(s) : Spot(l, s, i) = Spot(l, s, j) => i = j
      /\ \A i, j \in 1..(Len(s) + 1) : Spot(l, s, i) = Spot(l, s, j) => i = j
  BY PlacesDiffer DEF Added
<1>2. /\ b \in Nodes /\ ListOf(b) = l /\ p \in Nodes /\ ListOf(p) = l /\ m.prev[b] = p
  <2>1. k \in 0..(Len(s) + 1) /\ k - 1 \in 0..Len(s) /\ k - 1 \in 0..(Len(s) + 1) /\ k - 1 + 1 = k
    BY <1>1
  <2> QED BY <1>1, <2>1 DEF Shows
<1>3. /\ owner[e] = Nowhere /\ owner' = [owner EXCEPT ![e] = l] /\ e \in Nodes
      /\ owner \in [Elems -> Heads \cup {Nowhere}] /\ m \in Memories /\ l # Nowhere
  BY NodesAssumption DEF Links, ListInv, TypeInv, Nodes
<1>4. \A i \in 0..(Len(s) + 1) : Spot(l, s, i) # e
  BY <1>1, <1>3, NodesAssumption DEF ListOf
<1> HIDE DEF b, p
<1>5. /\ m' \in Memories
      /\ \A n \in Nodes : m'.next[n] = IF n = p THEN e ELSE IF n = e THEN b ELSE m.next[n]
      /\ \A n \in Nodes : m'.prev[n] = IF n = b THEN e ELSE IF n = e THEN p ELSE m.prev[n]
  <2> DEFINE a == ListInsert(m, b, e)
  <2>0. m \in Memories /\ b \in Nodes /\ e \in Nodes
    BY <1>2, <1>3
  <2>1. /\ a \in Memories
        /\ \A n \in Nodes : a.next[n] = IF n = m.prev[b] THEN e ELSE IF n = e THEN b ELSE m.next[n]
        /\ \A n \in Nodes : a.prev[n] = IF n = b THEN e ELSE IF n = e THEN m.prev[b] ELSE m.prev[n]
    BY <2>0, InsertValues
  <2> HIDE DEF a
  <2>2. m' = a /\ m.prev[b] = p
    BY <1>2 DEF a, b
  <2> QED BY <2>1, <2>2
<1>6. /\ \A i \in 0..(k - 1) : Spot(l, t, i) = Spot(l, s, i)
      /\ Spot(l, t, k) = e
      /\ \A i \in (k + 1)..(Len(s) + 2) : Spot(l, t, i) = Spot(l, s, i - 1)
  BY <1>1 DEF Added, Spot
<1>7. \A i \in 0..Len(s) : /\ m.next[Spot(l, s, i)] = Spot(l, s, i + 1)
                           /\ m.prev[Spot(l, s, i + 1)] = Spot(l, s, i)
  BY DEF Shows
<1>8. ASSUME NEW i \in 0..Len(t)
      PROVE  m'.next[Spot(l, t, i)] = Spot(l, t, i + 1) /\ m'.prev[Spot(l, t, i + 1)] = Spot(l, t, i)
  <2>1. CASE i < k - 1
    <3>1. /\ Spot(l, t, i) = Spot(l, s, i) /\ Spot(l, t, i + 1) = Spot(l, s, i + 1)
          /\ i \in 0..Len(s) /\ i + 1 \in 1..(Len(s) + 1) /\ i + 1 \in 0..(Len(s) + 1)
          /\ i \in 0..(Len(s) + 1) /\ k - 1 \in 0..Len(s) /\ i # k - 1 /\ i + 1 # k
      BY <1>1, <1>6, <2>1
    <3>2. Spot(l, s, i) # p /\ Spot(l, s, i + 1) # b
      BY <1>1, <3>1 DEF p, b
    <3> QED BY <1>1, <1>4, <1>5, <1>7, <3>1, <3>2
  <2>2. CASE i = k - 1
    <3>1. Spot(l, t, i) = p /\ Spot(l, t, i + 1) = e /\ e # b
      BY <1>1, <1>4, <1>6, <2>2 DEF p, b
    <3> QED BY <1>2, <1>3, <1>5, <3>1
  <2>3. CASE i = k
    <3>1. Spot(l, t, i) = e /\ Spot(l, t, i + 1) = b /\ e # p
      BY <1>1, <1>4, <1>6, <2>3 DEF p, b
    <3> QED BY <1>2, <1>3, <1>5, <3>1
  <2>4. CASE i > k
    <3>1. /\ Spot(l, t, i) = Spot(l, s, i - 1) /\ Spot(l, t, i + 1) = Spot(l, s, i - 1 + 1)
          /\ i - 1 \in 0..Len(s) /\ i - 1 + 1 \in 1..(Len(s) + 1)
          /\ i - 1 \in 0..(Len(s) + 1) /\ i - 1 + 1 \in 0..(Len(s) + 1)
          /\ k - 1 \in 0..Len(s) /\ i - 1 # k - 1 /\ i - 1 + 1 # k
      BY <1>1, <1>6, <2>4
    <3>2. Spot(l, s, i - 1) # p /\ Spot(l, s, i - 1 + 1) # b
      BY <1>1, <3>1 DEF p, b
    <3> QED BY <1>1, <1>4, <1>5, <1>7, <3>1, <3>2
  <2> QED BY <1>1, <2>1, <2>2, <2>3, <2>4
<1>9. \A i, j \in 1..Len(t) : t[i] = t[j] => i = j
  <2>1. /\ \A i \in 1..Len(s) : s[i] # e
        /\ \A i, j \in 1..Len(s) : s[i] = s[j] => i = j
    <3>1. \A i \in 1..Len(s) : Spot(l, s, i) = s[i] /\ i \in 0..(Len(s) + 1)
      BY <1>1 DEF Spot
    <3> QED BY <1>4, <3>1 DEF Shows
  <2>2. s \in Seq(Elems)
    BY DEF Shows
  <2> QED BY <2>1, <2>2, AddedOnce
<1>10. ASSUME NEW x \in Elems
       PROVE  owner'[x] = l <=> \E i \in 1..Len(t) : t[i] = x
  <2>1. CASE x = e
    BY <1>1, <1>3, <2>1 DEF Added
  <2>2. CASE x # e
    <3>1. owner'[x] = l <=> \E i \in 1..Len(s) : s[i] = x
      BY <1>3, <2>2 DEF Shows
    <3>2. (\E i \in 1..Len(s) : s[i] = x) <=> \E i \in 1..Len(t) : t[i] = x
      <4>1. ASSUME NEW i \in 1..Len(s) PROVE \E j \in 1..Len(t) : t[j] = s[i]
        <5>1. CASE i < k
          BY <1>1, <5>1 DEF Added
        <5>2. CASE i >= k
          <6>1. i + 1 \in 1..Len(t) /\ t[i + 1] = s[i]
            BY <1>1, <5>2 DEF Added
          <6> QED BY <6>1
        <5> QED BY <1>1, <5>1, <5>2
      <4>2. ASSUME NEW i \in 1..Len(t), t[i] = x PROVE \E j \in 1..Len(s) : s[j] = x
        BY <1>1, <2>2, <4>2 DEF Added
      <4> QED BY <4>1, <4>2
    <3> QED BY <3>1, <3>2
  <2> QED BY <2>1, <2>2
<1>11. ASSUME NEW h \in Heads \ {l}, NEW r, Shows(m, owner, h, r)
       PROVE  Shows(m', owner', h, r)
  <2> DEFINE B == {b, p}
             own == owner'
             a == m'
  <2>1. /\ owner[e] # h /\ \A n \in B : ListOf(n) # h
        /\ own[e] # h /\ \A x \in Elems \ {e} : own[x] = owner[x]
        /\ a \in Memories
        /\ \A n \in Nodes \ B : n # e => a.next[n] = m.next[n] /\ a.prev[n] = m.prev[n]
    BY <1>2, <1>3, <1>5, NodesAssumption
  <2> HIDE DEF B, own, a
  <2>2. Shows(a, own, h, r)
    BY <1>11, <2>1, OthersShow
  <2> QED BY <2>2 DEF own, a
<1> QED BY <1>8, <1>9, <1>10, <1>11 DEF Shows

\* The node at place k of l is unlinked.
LEMMA UnlinkShows ==
  ASSUME ListInv, NEW l \in Heads, NEW s, Shows(m, owner, l, s), NEW k \in 1..Len(s),
         Unlinks(s[k]), m' = ListRemove(m, s[k]),
         NEW t \in Seq(Elems), Dropped(s, k, t)
  PROVE  /\ Shows(m', owner', l, t)
         /\ \A h \in Heads \ {l} : \A r : Shows(m, owner, h, r) => Shows(m', owner', h, r)
<1> DEFINE e == s[k]
           p == Spot(l, s, k - 1)
           q == Spot(l, s, k + 1)
<1>1. /\ Len(s) \in Nat /\ Len(t) = Len(s) - 1 /\ s \in Seq(Elems)
      /\ \A i \in 0..(Len(s) + 1) : Spot(l, s, i) \in Nodes /\ ListOf(Spot(l, s, i)) = l
      /\ \A i, j \in 0..Len(s) : Spot(l, s, i) = Spot(l, s, j) => i = j
      /\ \A i, j \in 1..(Len(s) + 1) : Spot(l, s, i) = Spot(l, s, j) => i = j
  BY PlacesDiffer DEF Dropped, Shows
<1>2. \A i \in 0..Len(s) : /\ m.next[Spot(l, s, i)] = Spot(l, s, i + 1)
                           /\ m.prev[Spot(l, s, i + 1)] = Spot(l, s, i)
  BY DEF Shows
<1>3. e = Spot(l, s, k) /\ m.next[e] = q /\ m.prev[e] = p
  <2>1. Spot(l, s, k) = e
    BY DEF Spot
  <2>2. k \in 0..Len(s) /\ k - 1 \in 0..Len(s) /\ k - 1 + 1 = k
    BY <1>1
  <2> QED BY <1>2, <2>1, <2>2
<1>4. /\ e \in Elems /\ owner[e] = l /\ owner' = [owner EXCEPT ![e] = Nowhere] /\ e \in Nodes
      /\ owner \in [Elems -> Heads \cup {Nowhere}] /\ m \in Memories /\ l # Nowhere
  BY <1>1, NodesAssumption DEF Unlinks, ListInv, TypeInv, Nodes, Shows
<1>5. ListOf(p) = l /\ ListOf(q) = l /\ p \in Nodes /\ q \in Nodes
  <2>1. k - 1 \in 0..(Len(s) + 1) /\ k + 1 \in 0..(Len(s) + 1)
    BY <1>1
  <2> QED BY <1>1, <2>1
<1> HIDE DEF e, p, q
<1>6. /\ m' \in Memories
      /\ \A n \in Nodes : m'.next[n] = IF n = p THEN q ELSE m.next[n]
      /\ \A n \in Nodes : m'.prev[n] = IF n = q THEN p ELSE m.prev[n]
  <2> DEFINE a == ListRemove(m, e)
             S == Heads \cup Linked
  <2>1. m \in Memories /\ S \subseteq Nodes /\ RingOn(m, S) /\ e \in S
    BY <1>4, RingIs DEF ListInv, Linked, Nodes
  <2> HIDE DEF S
  <2>2. /\ a \in Memories
        /\ \A n \in Nodes : a.next[n] = IF n = m.prev[e] THEN m.next[e] ELSE m.next[n]
        /\ \A n \in Nodes : a.prev[n] = IF n = m.next[e] THEN m.prev[e] ELSE m.prev[n]
    BY <2>1, RemoveValues
  <2> HIDE DEF a
  <2>3. m' = a
    BY DEF a, e
  <2> QED BY <1>3, <2>2, <2>3
<1>7. /\ \A i \in 0..(k - 1) : Spot(l, t, i) = Spot(l, s, i)
      /\ \A i \in k..Len(s) : Spot(l, t, i) = Spot(l, s, i + 1)
  BY <1>1 DEF Dropped, Spot
<1>8. ASSUME NEW i \in 0..Len(t)
      PROVE  m'.next[Spot(l, t, i)] = Spot(l, t, i + 1) /\ m'.prev[Spot(l, t, i + 1)] = Spot(l, t, i)
  <2>1. CASE i < k - 1
    <3>1. /\ Spot(l, t, i) = Spot(l, s, i) /\ Spot(l, t, i + 1) = Spot(l, s, i + 1)
          /\ i \in 0..Len(s) /\ i + 1 \in 1..(Len(s) + 1) /\ i + 1 \in 0..(Len(s) + 1)
          /\ i \in 0..(Len(s) + 1) /\ k - 1 \in 0..Len(s) /\ i # k - 1
          /\ k + 1 \in 1..(Len(s) + 1) /\ i + 1 # k + 1
      BY <1>1, <1>7, <2>1
    <3>2. Spot(l, s, i) # p /\ Spot(l, s, i + 1) # q
      BY <1>1, <3>1 DEF p, q
    <3> QED BY <1>1, <1>2, <1>6, <3>1, <3>2
  <2>2. CASE i = k - 1
    <3>1. Spot(l, t, i) = p /\ Spot(l, t, i + 1) = q
      BY <1>1, <1>7, <2>2 DEF p, q
    <3> QED BY <1>5, <1>6, <3>1
  <2>3. CASE i > k - 1
    <3>1. /\ Spot(l, t, i) = Spot(l, s, i + 1) /\ Spot(l, t, i + 1) = Spot(l, s, i + 1 + 1)
          /\ i + 1 \in 0..Len(s) /\ i + 1 + 1 \in 1..(Len(s) + 1)
          /\ i + 1 \in 0..(Len(s) + 1) /\ i + 1 + 1 \in 0..(Len(s) + 1)
          /\ k - 1 \in 0..Len(s) /\ i + 1 # k - 1
          /\ k + 1 \in 1..(Len(s) + 1) /\ i + 1 + 1 # k + 1
      BY <1>1, <1>7, <2>3
    <3>2. Spot(l, s, i + 1) # p /\ Spot(l, s, i + 1 + 1) # q
      BY <1>1, <3>1 DEF p, q
    <3> QED BY <1>1, <1>2, <1>6, <3>1, <3>2
  <2> QED BY <1>1, <2>1, <2>2, <2>3
<1>9. (\A i, j \in 1..Len(t) : t[i] = t[j] => i = j)
      /\ \A x : (\E i \in 1..Len(t) : t[i] = x) <=> x # e /\ \E i \in 1..Len(s) : s[i] = x
  <2> DEFINE from(i) == IF i < k THEN i ELSE i + 1
  <2>1. \A i, j \in 1..Len(s) : s[i] = s[j] => i = j
    BY DEF Shows
  <2>2. Len(s) \in Nat /\ Len(t) = Len(s) - 1
    BY <1>1
  <2>3. ASSUME NEW i \in 1..Len(t)
        PROVE  from(i) \in 1..Len(s) /\ t[i] = s[from(i)] /\ from(i) # k
    BY <2>2 DEF Dropped
  <2>4. \A i, j \in 1..Len(t) : from(i) = from(j) => i = j
    BY <2>2
  <2>5. ASSUME NEW i \in 1..Len(s), i # k
        PROVE  \E j \in 1..Len(t) : i = from(j)
    <3>1. CASE i < k
      BY <2>2, <3>1
    <3>2. CASE i > k
      <4>1. i - 1 \in 1..Len(t) /\ i = from(i - 1)
        BY <2>2, <3>2
      <4> HIDE DEF from
      <4> QED BY <4>1
    <3> QED BY <2>2, <2>5, <3>1, <3>2
  <2> HIDE DEF from
  <2>6. \A i, j \in 1..Len(t) : t[i] = t[j] => i = j
    BY <2>1, <2>3, <2>4
  <2>7. ASSUME NEW x
        PROVE  (\E i \in 1..Len(t) : t[i] = x) <=> x # e /\ \E i \in 1..Len(s) : s[i] = x
    <3>1. ASSUME NEW i \in 1..Len(t), t[i] = x
          PROVE  x # e /\ \E j \in 1..Len(s) : s[j] = x
      BY <2>1, <2>3, <3>1 DEF e
    <3>2. ASSUME NEW i \in 1..Len(s), s[i] = x, x # e
          PROVE  \E j \in 1..Len(t) : t[j] = x
      BY <2>3, <2>5, <3>2 DEF e
    <3> QED BY <3>1, <3>2
  <2> QED BY <2>6, <2>7
<1>10. ASSUME NEW x \in Elems
       PROVE  owner'[x] = l <=> \E i \in 1..Len(t) : t[i] = x
  <2>1. owner'[x] = IF x = e THEN Nowhere ELSE owner[x]
    BY <1>4
  <2>2. owner[x] = l <=> \E i \in 1..Len(s) : s[i] = x
    BY DEF Shows
  <2> QED BY <1>4, <1>9, <2>1, <2>2
<1>11. ASSUME NEW h \in Heads \ {l}, NEW r, Shows(m, owner, h, r)
       PROVE  Shows(m', owner', h, r)
  <2> DEFINE B == {p, q}
             own == owner'
             a == m'
  <2>1. /\ owner[e] # h /\ \A n \in B : ListOf(n) # h
        /\ own[e] # h /\ \A x \in Elems \ {e} : own[x] = owner[x]
        /\ a \in Memories
        /\ \A n \in Nodes \ B : n # e => a.next[n] = m.next[n] /\ a.prev[n] = m.prev[n]
    BY <1>4, <1>5, <1>6, NodesAssumption
  <2> HIDE DEF B, own, a
  <2>2. Shows(a, own, h, r)
    BY <1>4, <1>11, <2>1, OthersShow
  <2> QED BY <2>2 DEF own, a
<1> QED BY <1>8, <1>9, <1>10, <1>11 DEF Shows

\* The queues of Deques.
Lists == [l \in Heads |-> Contents(l)]

ContentsShown ==
  m \in Memories => \A l \in Heads : \A s : Shows(m, owner, l, s) => Contents(l) = s

\* The rings and what they hold.
DequesInv == ListInv /\ \A l \in Heads : Shows(m, owner, l, Contents(l))

LEMMA ContentsAre == ContentsShown
BY ContentsIs DEF ContentsShown

\* An element that is in no list is not among the members of the queues.
LEMMA NotMember ==
  ASSUME DequesInv, NEW e \in Elems, owner[e] = Nowhere
  PROVE  e \notin Seqs!Members
<1> SUFFICES ASSUME e \in Seqs!Members PROVE FALSE
  OBVIOUS
<1>1. PICK l \in Heads : e \in {Contents(l)[i] : i \in DOMAIN Contents(l)}
  BY DEF Seqs!Members, Seqs!ToSet
<1>2. Shows(m, owner, l, Contents(l))
  BY DEF DequesInv
<1>3. \E i \in 1..Len(Contents(l)) : Contents(l)[i] = e
  BY <1>1, <1>2 DEF Shows
<1>4. owner[e] = l
  BY <1>2, <1>3 DEF Shows
<1> QED BY <1>4, NodesAssumption

\* What a call makes of the lists.
LEMMA ListsAfter ==
  ASSUME DequesInv, ListInv', ContentsShown', NEW l \in Heads, NEW t,
         Shows(m', owner', l, t),
         \A h \in Heads \ {l} : \A r : Shows(m, owner, h, r) => Shows(m', owner', h, r)
  PROVE  DequesInv' /\ Lists' = [Lists EXCEPT ![l] = t]
<1>1. m' \in Memories
  BY DEF ListInv, TypeInv
<1>2. \A h \in Heads : \A s : Shows(m', owner', h, s) => Contents(h)' = s
  BY <1>1 DEF ContentsShown
<1>3. Contents(l)' = t
  BY <1>2
<1>4. \A h \in Heads \ {l} : Shows(m', owner', h, Contents(h)) /\ Contents(h)' = Contents(h)
  BY <1>2 DEF DequesInv
<1>5. \A h \in Heads : Shows(m', owner', h, Contents(h)')
  <2> SUFFICES ASSUME NEW h \in Heads PROVE Shows(m', owner', h, Contents(h)')
    OBVIOUS
  <2>1. CASE h = l
    BY <1>3, <2>1
  <2>2. CASE h # l
    <3>1. Contents(h)' = Contents(h) /\ Shows(m', owner', h, Contents(h))
      BY <1>4, <2>2
    <3> QED BY <3>1
  <2> QED BY <2>1, <2>2
<1>6. Lists' = [Lists EXCEPT ![l] = t]
  BY <1>3, <1>4 DEF Lists
<1> QED BY <1>5, <1>6 DEF DequesInv

LEMMA LinkLists ==
  ASSUME DequesInv, ContentsShown', NEW l \in Heads, NEW k \in 1..(Len(Contents(l)) + 1),
         NEW e \in Elems, Links(e, l), m' = ListInsert(m, Spot(l, Contents(l), k), e),
         NEW t \in Seq(Elems), Added(Contents(l), k, e, t)
  PROVE  DequesInv' /\ Lists' = [Lists EXCEPT ![l] = t] /\ e \notin Seqs!Members
<1> DEFINE s == Contents(l)
           before == Spot(l, s, k)
<1>1. ListInv /\ Shows(m, owner, l, s)
  BY DEF DequesInv
<1> HIDE DEF s
<1>2. s \in Seq(Elems) /\ Len(s) \in Nat /\ k \in 0..(Len(s) + 1) /\ ListOf(before) = l
  <2>1. Len(s) \in Nat /\ s \in Seq(Elems)
    BY <1>1, PlacesDiffer DEF Shows
  <2>2. k \in 0..(Len(s) + 1)
    BY <2>1 DEF s
  <2> QED BY <1>1, <2>1, <2>2, PlacesDiffer
<1>3. before \in Heads \cup Linked
  <2>1. CASE k \in 1..Len(s)
    <3>1. before = s[k] /\ s[k] \in Elems /\ owner[s[k]] = l
      BY <1>1, <1>2, <2>1 DEF Spot, Shows
    <3> QED BY <3>1, NodesAssumption DEF Linked
  <2>2. CASE k \notin 1..Len(s)
    BY <2>2 DEF Spot
  <2> QED BY <2>1, <2>2
<1> HIDE DEF before
<1>4. m' = ListInsert(m, before, e) /\ Links(e, ListOf(before))
  BY <1>2 DEF before, s
<1>5. ListInv'
  BY <1>1, <1>3, <1>4, LinkInv
<1>6. /\ Shows(m', owner', l, t)
      /\ \A h \in Heads \ {l} : \A r : Shows(m, owner, h, r) => Shows(m', owner', h, r)
  BY <1>1, LinkShows DEF s
<1>7. owner[e] = Nowhere
  BY DEF Links
<1> QED BY <1>5, <1>6, <1>7, ListsAfter, NotMember

LEMMA UnlinkLists ==
  ASSUME DequesInv, ContentsShown', NEW l \in Heads, NEW k \in 1..Len(Contents(l)),
         Unlinks(Contents(l)[k]), m' = ListRemove(m, Contents(l)[k]),
         NEW t \in Seq(Elems), Dropped(Contents(l), k, t)
  PROVE  DequesInv' /\ Lists' = [Lists EXCEPT ![l] = t]
<1> DEFINE s == Contents(l)
<1>1. ListInv /\ Shows(m, owner, l, s)
  BY DEF DequesInv
<1>2. s[k] \in Linked
  <2>1. s[k] \in Elems /\ owner[s[k]] = l
    BY <1>1 DEF Shows
  <2> QED BY <2>1, NodesAssumption DEF Linked
<1>3. ListInv'
  BY <1>1, <1>2, UnlinkInv
<1>4. /\ Shows(m', owner', l, t)
      /\ \A h \in Heads \ {l} : \A r : Shows(m, owner, h, r) => Shows(m', owner', h, r)
  BY <1>1, UnlinkShows
<1> QED BY <1>3, <1>4, ListsAfter

\* What Deques calls q[l] is what l holds.
LEMMA ListsAt ==
  ASSUME DequesInv, NEW l \in Heads
  PROVE  /\ Lists[l] = Contents(l) /\ Contents(l) \in Seq(Elems) /\ Len(Contents(l)) \in Nat
         /\ Shows(m, owner, l, Contents(l)) /\ ListInv
         /\ m.next[l] = Spot(l, Contents(l), 1) /\ m.prev[l] = Spot(l, Contents(l), Len(Contents(l)))
         /\ ListIsEmpty(m, l) <=> Contents(l) = <<>>
<1> DEFINE s == Contents(l)
<1>1. Shows(m, owner, l, s) /\ ListInv
  BY DEF DequesInv
<1>2. Lists[l] = s
  BY DEF Lists
<1> HIDE DEF s
<1>3. s \in Seq(Elems) /\ Len(s) \in Nat /\ Spot(l, s, 0) = l /\ Spot(l, s, Len(s) + 1) = l
  BY <1>1, PlacesDiffer DEF Shows
<1>4. m.next[l] = Spot(l, s, 1) /\ m.prev[l] = Spot(l, s, Len(s))
  <2>1. m.next[Spot(l, s, 0)] = Spot(l, s, 0 + 1) /\ m.prev[Spot(l, s, Len(s) + 1)] = Spot(l, s, Len(s))
    BY <1>1, <1>3 DEF Shows
  <2> QED BY <1>3, <2>1
<1>5. Spot(l, s, 1) = l <=> s = <<>>
  <2>1. CASE s = <<>>
    BY <2>1 DEF Spot
  <2>2. CASE s # <<>>
    <3>1. 1 \in 1..Len(s) /\ s[1] \in Elems
      BY <1>3, <2>2
    <3> QED BY <2>2, <3>1, NodesAssumption DEF Spot
  <2> QED BY <2>1, <2>2
<1> QED BY <1>1, <1>2, <1>3, <1>4, <1>5 DEF ListIsEmpty, s

LEMMA InsertMaps ==
  ASSUME DequesInv, ContentsShown', NEW before \in Heads \cup Linked, NEW e \in Elems,
         Insert(before, e)
  PROVE  DequesInv' /\ Seqs!Next
<1>1. PICK l \in Heads : ListOf(before) = l
  BY NodesAssumption DEF DequesInv, ListInv, TypeInv, ListOf, Linked
<1> DEFINE s == Contents(l)
<1>2. PICK k \in 1..(Len(s) + 1) : before = Spot(l, s, k)
  <2>1. CASE before \in Heads
    <3>1. Len(s) + 1 \in 1..(Len(s) + 1) /\ before = Spot(l, s, Len(s) + 1)
      BY <1>1, <2>1, ListsAt, PlacesDiffer DEF ListOf
    <3> QED BY <3>1
  <2>2. CASE before \notin Heads
    <3>1. before \in Elems /\ owner[before] = l
      BY <1>1, <2>2 DEF ListOf, Linked
    <3>2. PICK i \in 1..Len(s) : s[i] = before
      BY <3>1, ListsAt DEF Shows
    <3>3. i \in 1..(Len(s) + 1) /\ Spot(l, s, i) = before
      BY <3>2, ListsAt DEF Spot
    <3> QED BY <3>3
  <2> QED BY <2>1, <2>2
<1>3. /\ Links(e, l) /\ m' = ListInsert(m, Spot(l, s, k), e)
      /\ call' = <<"insert", Spot(l, s, k), e>>
  BY <1>1, <1>2 DEF Insert
<1>4. s \in Seq(Elems) /\ Lists[l] = s
  BY ListsAt
<1>5. /\ Seqs!InsertAt(s, k, e) \in Seq(Elems)
      /\ Added(s, k, e, Seqs!InsertAt(s, k, e))
  BY <1>4, InsertAtAdds
<1>6. DequesInv' /\ Lists' = [Lists EXCEPT ![l] = Seqs!InsertAt(s, k, e)] /\ e \notin Seqs!Members
  BY <1>3, <1>5, LinkLists
<1>7. Spot(l, s, k) = IF k > Len(s) THEN l ELSE s[k]
  BY <1>4 DEF Spot
<1>8. Seqs!Insert(l, k, e)
  BY <1>3, <1>4, <1>6, <1>7 DEF Seqs!Insert, Lists
<1>9. Lists[l] = s /\ k \in 1..(Len(Lists[l]) + 1)
  BY <1>4
<1> QED BY <1>6, <1>8, <1>9 DEF Seqs!Next, Lists

LEMMA PushFrontMaps ==
  ASSUME DequesInv, ContentsShown', NEW l \in Heads, NEW e \in Elems, PushFront(l, e)
  PROVE  DequesInv' /\ Seqs!Next
<1> DEFINE s == Contents(l)
           t == <<e>> \o s
<1>1. s \in Seq(Elems) /\ Lists[l] = s /\ m.next[l] = Spot(l, s, 1) /\ 1 \in 1..(Len(s) + 1)
  BY ListsAt
<1>2. Links(e, l) /\ m' = ListInsert(m, Spot(l, s, 1), e) /\ call' = <<"push_front", l, e>>
  BY <1>1 DEF PushFront, ListPushFront
<1>3. t \in Seq(Elems) /\ Added(s, 1, e, t)
  BY <1>1, EndsAdd
<1> HIDE DEF t
<1>4. DequesInv' /\ Lists' = [Lists EXCEPT ![l] = t] /\ e \notin Seqs!Members
  BY <1>1, <1>2, <1>3, LinkLists
<1>5. Seqs!PushFront(l, e)
  BY <1>1, <1>2, <1>4 DEF Seqs!PushFront, Lists, t
<1> QED BY <1>4, <1>5 DEF Seqs!Next

LEMMA PushBackMaps ==
  ASSUME DequesInv, ContentsShown', NEW l \in Heads, NEW e \in Elems, PushBack(l, e)
  PROVE  DequesInv' /\ Seqs!Next
<1> DEFINE s == Contents(l)
           t == Append(s, e)
<1>1. s \in Seq(Elems) /\ Lists[l] = s /\ l = Spot(l, s, Len(s) + 1)
      /\ Len(s) + 1 \in 1..(Len(s) + 1)
  BY ListsAt, PlacesDiffer
<1>2. Links(e, l) /\ m' = ListInsert(m, Spot(l, s, Len(s) + 1), e) /\ call' = <<"push_back", l, e>>
  BY <1>1 DEF PushBack, ListPushBack
<1>3. t \in Seq(Elems) /\ Added(s, Len(s) + 1, e, t)
  BY <1>1, EndsAdd
<1> HIDE DEF t
<1>4. DequesInv' /\ Lists' = [Lists EXCEPT ![l] = t] /\ e \notin Seqs!Members
  BY <1>1, <1>2, <1>3, LinkLists
<1>5. Seqs!PushBack(l, e)
  BY <1>1, <1>2, <1>4 DEF Seqs!PushBack, Lists, t
<1> QED BY <1>4, <1>5 DEF Seqs!Next

LEMMA RemoveMaps ==
  ASSUME DequesInv, ContentsShown', NEW e \in Elems, Remove(e)
  PROVE  DequesInv' /\ Seqs!Next
<1>1. PICK l \in Heads : owner[e] = l
  BY DEF Remove, Linked, DequesInv, ListInv, TypeInv
<1> DEFINE s == Contents(l)
<1>2. s \in Seq(Elems) /\ Lists[l] = s /\ Shows(m, owner, l, s) /\ Len(s) \in Nat
  BY ListsAt
<1>3. PICK k \in 1..Len(s) : s[k] = e
  BY <1>1, <1>2 DEF Shows
<1> DEFINE t == Seqs!RemoveAt(s, k)
<1>4. t \in Seq(Elems) /\ Dropped(s, k, t)
  BY <1>2, RemoveAtDrops
<1>5. Unlinks(s[k]) /\ m' = ListRemove(m, s[k]) /\ call' = <<"remove", s[k], m.next[s[k]]>>
  BY <1>3 DEF Remove
<1>6. m.next[s[k]] = IF k = Len(s) THEN l ELSE s[k + 1]
  <2>1. Spot(l, s, k) = s[k] /\ k \in 0..Len(s)
    BY <1>2 DEF Spot
  <2>2. m.next[Spot(l, s, k)] = Spot(l, s, k + 1)
    BY <1>2, <2>1 DEF Shows
  <2> QED BY <1>2, <2>1, <2>2 DEF Spot
<1> HIDE DEF t
<1>7. DequesInv' /\ Lists' = [Lists EXCEPT ![l] = t]
  BY <1>4, <1>5, UnlinkLists
<1>8. Seqs!RemoveNth(l, k)
  BY <1>2, <1>5, <1>6, <1>7 DEF Seqs!RemoveNth, Lists, t
<1>9. k \in DOMAIN Lists[l]
  BY <1>2
<1> QED BY <1>7, <1>8, <1>9 DEF Seqs!Next, Lists

LEMMA PopMaps ==
  ASSUME DequesInv, ContentsShown', NEW l \in Heads, PopFront(l) \/ PopBack(l)
  PROVE  DequesInv' /\ Seqs!Next
<1> DEFINE s == Contents(l)
<1>1. /\ s \in Seq(Elems) /\ Lists[l] = s /\ Len(s) \in Nat
      /\ m.next[l] = Spot(l, s, 1) /\ m.prev[l] = Spot(l, s, Len(s))
  BY ListsAt
<1>2. s # <<>>
  BY ListsAt DEF PopFront, PopBack
<1>3. 1 \in 1..Len(s) /\ Len(s) \in 1..Len(s)
  BY <1>1, <1>2
<1>4. m.next[l] = s[1] /\ m.prev[l] = s[Len(s)]
  BY <1>1, <1>3 DEF Spot
<1>5. /\ Tail(s) \in Seq(Elems) /\ Dropped(s, 1, Tail(s))
      /\ Seqs!Front(s) \in Seq(Elems) /\ Dropped(s, Len(s), Seqs!Front(s))
  BY <1>1, <1>2, EndsDrop
<1>6. ASSUME PopFront(l) PROVE DequesInv' /\ Seqs!Next
  <2>1. Unlinks(s[1]) /\ m' = ListRemove(m, s[1]) /\ call' = <<"pop_front", l, s[1]>>
    BY <1>4, <1>6 DEF PopFront, ListFront
  <2>2. DequesInv' /\ Lists' = [Lists EXCEPT ![l] = Tail(s)]
    BY <1>3, <1>5, <2>1, UnlinkLists
  <2>3. Head(s) = s[1]
    BY <1>1, <1>2
  <2>4. Seqs!PopFront(l)
    BY <1>1, <1>2, <2>1, <2>2, <2>3 DEF Seqs!PopFront, Lists
  <2> QED BY <2>2, <2>4 DEF Seqs!Next
<1>7. ASSUME PopBack(l) PROVE DequesInv' /\ Seqs!Next
  <2>1. /\ Unlinks(s[Len(s)]) /\ m' = ListRemove(m, s[Len(s)])
        /\ call' = <<"pop_back", l, s[Len(s)]>>
    BY <1>4, <1>7 DEF PopBack, ListBack
  <2>2. DequesInv' /\ Lists' = [Lists EXCEPT ![l] = Seqs!Front(s)]
    BY <1>3, <1>5, <2>1, UnlinkLists
  <2>3. Seqs!Last(s) = s[Len(s)]
    BY DEF Seqs!Last
  <2>4. Seqs!PopBack(l)
    BY <1>1, <1>2, <2>1, <2>2, <2>3 DEF Seqs!PopBack, Lists
  <2> QED BY <2>2, <2>4 DEF Seqs!Next
<1> QED BY <1>6, <1>7

LEMMA StartShows == ListStart => DequesInv /\ Seqs!Init
<1> SUFFICES ASSUME ListStart PROVE DequesInv /\ Seqs!Init
  OBVIOUS
<1>1. ListInv
  BY ListInitInv
<1>2. ASSUME NEW l \in Heads PROVE Shows(m, owner, l, <<>>) /\ Contents(l) = <<>>
  <2>1. m.next[l] = l /\ m.prev[l] = l
    BY DEF ListStart, Nodes
  <2>2. Len(<<>>) = 0 /\ <<>> \in Seq(Elems) /\ \A i \in 0..1 : Spot(l, <<>>, i) = l
    BY DEF Spot
  <2>3. \A x \in Elems : owner[x] # l
    BY NodesAssumption DEF ListStart
  <2>4. Shows(m, owner, l, <<>>)
    BY <2>1, <2>2, <2>3 DEF Shows
  <2> QED BY <1>1, <2>4, ContentsIs DEF ListInv, TypeInv
<1>3. Seqs!Init
  BY <1>2 DEF Seqs!Init, ListStart
<1> QED BY <1>1, <1>2, <1>3 DEF DequesInv

\* Each call on the pointers is the call of that name on the sequences, with its
\* arguments and its result, for any lists and nodes.
THEOREM RefinesDeques == ListSpec => ImplementsDeques
<1>1. ContentsShown /\ ContentsShown'
  BY ContentsAre, PTL
<1>2. DequesInv /\ [ListNext]_listVars => DequesInv' /\ [Seqs!Next]_<<Lists, call>>
  <2> SUFFICES ASSUME DequesInv, [ListNext]_listVars
               PROVE  DequesInv' /\ [Seqs!Next]_<<Lists, call>>
    OBVIOUS
  <2>1. CASE ListNext
    BY <1>1, <2>1, InsertMaps, PushFrontMaps, PushBackMaps, RemoveMaps, PopMaps DEF ListNext
  <2>2. CASE UNCHANGED listVars
    <3>1. UNCHANGED <<m, owner, call>>
      BY <2>2 DEF listVars
    <3>2. \A l \in Heads : Contents(l)' = Contents(l)
      BY <3>1 DEF Contents, ListIsEmpty
    <3>3. ListInv'
      BY <2>2, ListNextInv DEF DequesInv
    <3> QED BY <3>1, <3>2, <3>3 DEF DequesInv, Lists
  <2> QED BY <2>1, <2>2
<1>3. <<Lists, call>> = Seqs!vars
  BY DEF Lists, Seqs!vars
<1> QED BY <1>2, <1>3, StartShows, PTL DEF ListSpec, ImplementsDeques, Seqs!Spec, Lists, Seqs!vars

-----------------------------------------------------------------------------
(* Hmap: the table holds what was inserted, and a walk visits each node     *)
(* once.  The chains of a table are described by what is local to each node, *)
(* and by a position that grows along a chain, so that none is a circle.     *)

Ptr == HmapNodes \cup {NULL}

\* The nodes of S make up the chains that begin at start, one for each slot.
Chains(S, firsts, next, slot, pos) ==
  /\ \A i \in DOMAIN firsts : firsts[i] # NULL => firsts[i] \in S /\ slot[firsts[i]] = i
  /\ \A x \in S :
       /\ slot[x] \in DOMAIN firsts
       /\ next[x] # NULL =>
            /\ next[x] \in S /\ slot[next[x]] = slot[x] /\ pos[x] < pos[next[x]]
            /\ firsts[slot[x]] # next[x]
       /\ firsts[slot[x]] = x \/ \E w \in S : next[w] = x
  /\ \A x, y \in S : next[x] = next[y] /\ next[x] # NULL => x = y

\* A node is put at the front of a chain.
LEMMA ChainsPush ==
  ASSUME NEW S \in SUBSET HmapNodes, NEW k \in Nat, NEW firsts \in [0..k -> Ptr],
         NEW next \in [HmapNodes -> Ptr], NEW slot \in [HmapNodes -> Nat],
         NEW pos \in [HmapNodes -> Nat], Chains(S, firsts, next, slot, pos),
         NEW x \in HmapNodes, x \notin S, slot[x] \in 0..k
  PROVE  \E p \in [HmapNodes -> Nat] :
           Chains(S \cup {x}, [firsts EXCEPT ![slot[x]] = x],
                  [next EXCEPT ![x] = firsts[slot[x]]], slot, p)
<1> DEFINE p == [y \in HmapNodes |-> IF y = x THEN 0 ELSE pos[y] + 1]
           T == S \cup {x}
           firsts2 == [firsts EXCEPT ![slot[x]] = x]
           next2 == [next EXCEPT ![x] = firsts[slot[x]]]
<1>1. x # NULL /\ p \in [HmapNodes -> Nat]
  BY HmapAssumption
<1>2. /\ DOMAIN firsts2 = 0..k /\ DOMAIN firsts = 0..k /\ firsts2[slot[x]] = x
      /\ \A i \in 0..k : i # slot[x] => firsts2[i] = firsts[i]
      /\ next2[x] = firsts[slot[x]] /\ \A y \in S : next2[y] = next[y]
      /\ p[x] = 0 /\ \A y \in S : p[y] = pos[y] + 1 /\ pos[y] \in Nat
  OBVIOUS
<1> HIDE DEF p, firsts2, next2
<1>3. \A i \in 0..k : firsts2[i] # NULL => firsts2[i] \in T /\ slot[firsts2[i]] = i
  <2>1. \A i \in 0..k : firsts[i] # NULL => firsts[i] \in S /\ slot[firsts[i]] = i
    BY <1>2 DEF Chains
  <2>2. ASSUME NEW i \in 0..k, i # slot[x], firsts2[i] # NULL
        PROVE  firsts2[i] \in T /\ slot[firsts2[i]] = i
    BY <1>2, <2>1, <2>2
  <2>3. firsts2[slot[x]] \in T /\ slot[firsts2[slot[x]]] = slot[x]
    BY <1>2
  <2> QED BY <2>2, <2>3
<1>4. ASSUME NEW y \in T
      PROVE  /\ slot[y] \in 0..k
             /\ next2[y] # NULL =>
                  /\ next2[y] \in T /\ slot[next2[y]] = slot[y] /\ p[y] < p[next2[y]]
                  /\ firsts2[slot[y]] # next2[y]
             /\ firsts2[slot[y]] = y \/ \E w \in T : next2[w] = y
  <2>1. CASE y = x
    <3>1. ASSUME firsts[slot[x]] # NULL
          PROVE  firsts[slot[x]] \in S /\ slot[firsts[slot[x]]] = slot[x]
      BY <1>2, <3>1 DEF Chains
    <3> QED BY <1>2, <2>1, <3>1
  <2>2. CASE y \in S
    <3>1. /\ slot[y] \in 0..k
          /\ next[y] # NULL =>
               /\ next[y] \in S /\ slot[next[y]] = slot[y] /\ pos[y] < pos[next[y]]
               /\ firsts[slot[y]] # next[y]
      BY <1>2, <2>2 DEF Chains
    <3>2. firsts[slot[y]] = y \/ \E w \in S : next[w] = y
      BY <2>2 DEF Chains
    <3>3. next2[y] = next[y] /\ y # x
      BY <1>2, <2>2
    <3>4. ASSUME next[y] # NULL
          PROVE  p[y] < p[next[y]] /\ firsts2[slot[y]] # next[y]
      BY <1>2, <2>2, <3>1, <3>4
    <3>5. firsts2[slot[y]] = y \/ \E w \in T : next2[w] = y
      BY <1>2, <3>1, <3>2
    <3> QED BY <3>1, <3>3, <3>4, <3>5
  <2> QED BY <2>1, <2>2
<1>5. ASSUME NEW y \in T, NEW z \in T, next2[y] = next2[z], next2[y] # NULL
      PROVE  y = z
  <2>1. ASSUME NEW w \in S, next[w] = firsts[slot[x]], next[w] # NULL
        PROVE  FALSE
    BY <1>2, <2>1 DEF Chains
  <2>2. CASE y \in S /\ z \in S
    BY <1>2, <1>5, <2>2 DEF Chains
  <2>3. CASE y = x /\ z \in S
    BY <1>2, <1>5, <2>1, <2>3
  <2>4. CASE z = x /\ y \in S
    BY <1>2, <1>5, <2>1, <2>4
  <2> QED BY <2>2, <2>3, <2>4
<1>6. Chains(T, firsts2, next2, slot, p)
  BY <1>2, <1>3, <1>4, <1>5 DEF Chains
<1> QED BY <1>1, <1>6 DEF firsts2, next2

\* The first node of a chain is taken away.
LEMMA ChainsPop ==
  ASSUME NEW S \in SUBSET HmapNodes, NEW k \in Nat, NEW firsts \in [0..k -> Ptr],
         NEW next \in [HmapNodes -> Ptr], NEW slot \in [HmapNodes -> Nat],
         NEW pos \in [HmapNodes -> Nat], Chains(S, firsts, next, slot, pos),
         NEW x \in S, firsts[slot[x]] = x
  PROVE  Chains(S \ {x}, [firsts EXCEPT ![slot[x]] = next[x]], next, slot, pos)
<1> DEFINE T == S \ {x}
           firsts2 == [firsts EXCEPT ![slot[x]] = next[x]]
<1>1. /\ DOMAIN firsts = 0..k /\ DOMAIN firsts2 = 0..k /\ slot[x] \in 0..k
      /\ firsts2[slot[x]] = next[x] /\ \A i \in 0..k : i # slot[x] => firsts2[i] = firsts[i]
  BY DEF Chains
<1> HIDE DEF firsts2
<1>2. next[x] # NULL => next[x] \in T /\ slot[next[x]] = slot[x]
  BY DEF Chains
<1>3. \A i \in 0..k : firsts2[i] # NULL => firsts2[i] \in T /\ slot[firsts2[i]] = i
  BY <1>1, <1>2 DEF Chains
<1>4. ASSUME NEW y \in T
      PROVE  /\ slot[y] \in 0..k
             /\ next[y] # NULL =>
                  /\ next[y] \in T /\ slot[next[y]] = slot[y] /\ pos[y] < pos[next[y]]
                  /\ firsts2[slot[y]] # next[y]
             /\ firsts2[slot[y]] = y \/ \E w \in T : next[w] = y
  <2>1. /\ slot[y] \in 0..k
        /\ next[y] # NULL =>
             /\ next[y] \in S /\ slot[next[y]] = slot[y] /\ pos[y] < pos[next[y]]
             /\ firsts[slot[y]] # next[y]
    BY <1>1 DEF Chains
  <2>2. next[y] # NULL => next[y] # x /\ next[y] # next[x]
    BY <2>1 DEF Chains
  <2>3. firsts[slot[y]] = y \/ \E w \in S : next[w] = y
    BY DEF Chains
  <2>4. firsts2[slot[y]] = y \/ \E w \in T : next[w] = y
    <3>1. ASSUME NEW w \in S, next[w] = y, w = x
          PROVE  firsts2[slot[y]] = y
      <4>1. y # NULL
        BY HmapAssumption
      <4> QED BY <1>1, <1>2, <3>1, <4>1
    <3>2. ASSUME firsts[slot[y]] = y PROVE firsts2[slot[y]] = y
      BY <1>1, <2>1, <3>2
    <3> QED BY <2>3, <3>1, <3>2
  <2>5. next[y] # NULL => firsts2[slot[y]] # next[y]
    BY <1>1, <2>1, <2>2
  <2> QED BY <2>1, <2>2, <2>4, <2>5
<1>5. \A y, z \in T : next[y] = next[z] /\ next[y] # NULL => y = z
  BY DEF Chains
<1>6. Chains(T, firsts2, next, slot, pos)
  BY <1>1, <1>3, <1>4, <1>5 DEF Chains
<1> QED BY <1>6 DEF firsts2

\* A node behind another is taken away.
LEMMA ChainsCut ==
  ASSUME NEW S \in SUBSET HmapNodes, NEW k \in Nat, NEW firsts \in [0..k -> Ptr],
         NEW next \in [HmapNodes -> Ptr], NEW slot \in [HmapNodes -> Nat],
         NEW pos \in [HmapNodes -> Nat], Chains(S, firsts, next, slot, pos),
         NEW w \in S, NEW x \in S, next[w] = x
  PROVE  Chains(S \ {x}, firsts, [next EXCEPT ![w] = next[x]], slot, pos)
<1> DEFINE T == S \ {x}
           next2 == [next EXCEPT ![w] = next[x]]
<1>1. x # NULL /\ DOMAIN firsts = 0..k
  BY HmapAssumption
<1>2. /\ slot[x] = slot[w] /\ pos[w] < pos[x] /\ w # x /\ firsts[slot[w]] # x
      /\ next[x] # NULL => /\ next[x] \in T /\ slot[next[x]] = slot[x]
                           /\ pos[x] < pos[next[x]] /\ firsts[slot[x]] # next[x]
  BY <1>1 DEF Chains
<1>3. next2[w] = next[x] /\ \A y \in S : y # w => next2[y] = next[y]
  OBVIOUS
<1> HIDE DEF next2
<1>4. \A y \in S : next[y] = x => y = w
  BY <1>1 DEF Chains
<1>5. \A i \in 0..k : firsts[i] # NULL => firsts[i] \in T /\ slot[firsts[i]] = i
  BY <1>1, <1>2 DEF Chains
<1>6. ASSUME NEW y \in T
      PROVE  /\ slot[y] \in 0..k
             /\ next2[y] # NULL =>
                  /\ next2[y] \in T /\ slot[next2[y]] = slot[y] /\ pos[y] < pos[next2[y]]
                  /\ firsts[slot[y]] # next2[y]
             /\ firsts[slot[y]] = y \/ \E v \in T : next2[v] = y
  <2>1. /\ slot[y] \in 0..k
        /\ next[y] # NULL =>
             /\ next[y] \in S /\ slot[next[y]] = slot[y] /\ pos[y] < pos[next[y]]
             /\ firsts[slot[y]] # next[y]
    BY <1>1 DEF Chains
  <2>2. firsts[slot[y]] = y \/ \E v \in S : next[v] = y
    BY DEF Chains
  <2>3. firsts[slot[y]] = y \/ \E v \in T : next2[v] = y
    <3>1. ASSUME NEW v \in S, next[v] = y
          PROVE  \E u \in T : next2[u] = y
      <4>1. CASE v = x
        BY <1>2, <1>3, <3>1, <4>1
      <4>2. CASE v # x
        BY <1>3, <3>1, <4>2
      <4> QED BY <4>1, <4>2
    <3> QED BY <2>2, <3>1
  <2>4. CASE y = w
    <3>1. next[x] # NULL => pos[y] < pos[next[x]]
      BY <1>2, <2>4
    <3> QED BY <1>2, <1>3, <2>1, <2>3, <2>4, <3>1
  <2>5. CASE y # w
    BY <1>3, <1>4, <2>1, <2>3, <2>5
  <2> QED BY <2>4, <2>5
<1>7. ASSUME NEW y \in T, NEW z \in T, next2[y] = next2[z], next2[y] # NULL
      PROVE  y = z
  BY <1>2, <1>3, <1>7 DEF Chains
<1>8. Chains(T, firsts, next2, slot, pos)
  BY <1>1, <1>5, <1>6, <1>7 DEF Chains
<1> QED BY <1>8 DEF next2

\* What is not of the nodes of the chains does not matter.
LEMMA ChainsSame ==
  ASSUME NEW S, NEW firsts, NEW next, NEW slot, NEW pos,
         Chains(S, firsts, next, slot, pos),
         NEW firsts2, DOMAIN firsts2 = DOMAIN firsts,
         \A i \in DOMAIN firsts : firsts2[i] = firsts[i],
         NEW next2, \A x \in S : next2[x] = next[x],
         NEW slot2, \A x \in S : slot2[x] = slot[x]
  PROVE  Chains(S, firsts2, next2, slot2, pos)
BY DEF Chains

\* Where no chain begins there is no node.
LEMMA ChainsEmpty ==
  ASSUME NEW S \in SUBSET HmapNodes, NEW k \in Nat, NEW firsts \in [0..k -> Ptr],
         NEW next \in [HmapNodes -> Ptr], NEW slot \in [HmapNodes -> Nat],
         NEW pos \in [HmapNodes -> Nat], Chains(S, firsts, next, slot, pos),
         NEW i \in 0..k, firsts[i] = NULL
  PROVE  \A x \in S : slot[x] # i
<1> SUFFICES ASSUME NEW x \in S, slot[x] = i
             PROVE  FALSE
  OBVIOUS
<1> DEFINE T == {pos[y] : y \in {z \in S : slot[z] = i}}
<1>1. PICK q \in T : \A r \in T : q <= r
  <2>1. T \in SUBSET Nat /\ pos[x] \in T
    OBVIOUS
  <2> HIDE DEF T
  <2> QED BY <2>1, LeastNat
<1>2. PICK y \in S : slot[y] = i /\ pos[y] = q
  OBVIOUS
<1>3. y # NULL
  BY HmapAssumption
<1>4. PICK w \in S : next[w] = y
  BY <1>2, <1>3 DEF Chains
<1>5. slot[w] = i /\ pos[w] < pos[y]
  BY <1>2, <1>3, <1>4 DEF Chains
<1>6. pos[w] \in T /\ pos[w] \in Nat /\ pos[y] \in Nat
  BY <1>5
<1> HIDE DEF T
<1> QED BY <1>1, <1>2, <1>5, <1>6

\* A node takes the place of another: y that of x.
InPlace(S, x, y, k, firsts, next, slot, firsts2, next2, slot2) ==
  /\ firsts2 \in [0..k -> Ptr]
  /\ \A i \in 0..k : firsts2[i] = IF firsts[i] = x THEN y ELSE firsts[i]
  /\ next2 \in [HmapNodes -> Ptr] /\ next2[y] = next[x]
  /\ \A w \in S \ {x} : next2[w] = IF next[w] = x THEN y ELSE next[w]
  /\ slot2 \in [HmapNodes -> Nat] /\ slot2[y] = slot[x]
  /\ \A w \in S \ {x} : slot2[w] = slot[w]

LEMMA ChainsSwap ==
  ASSUME NEW S \in SUBSET HmapNodes, NEW k \in Nat, NEW firsts \in [0..k -> Ptr],
         NEW next \in [HmapNodes -> Ptr], NEW slot \in [HmapNodes -> Nat],
         NEW pos \in [HmapNodes -> Nat], Chains(S, firsts, next, slot, pos),
         NEW x \in S, NEW y \in HmapNodes \ S, NEW firsts2, NEW next2, NEW slot2,
         InPlace(S, x, y, k, firsts, next, slot, firsts2, next2, slot2)
  PROVE  \E p \in [HmapNodes -> Nat] :
           Chains((S \ {x}) \cup {y}, firsts2, next2, slot2, p)
<1> /\ firsts2 \in [0..k -> Ptr]
    /\ \A i \in 0..k : firsts2[i] = IF firsts[i] = x THEN y ELSE firsts[i]
    /\ next2 \in [HmapNodes -> Ptr] /\ next2[y] = next[x]
    /\ \A w \in S \ {x} : next2[w] = IF next[w] = x THEN y ELSE next[w]
    /\ slot2 \in [HmapNodes -> Nat] /\ slot2[y] = slot[x]
    /\ \A w \in S \ {x} : slot2[w] = slot[w]
  BY DEF InPlace
<1> DEFINE p == [pos EXCEPT ![y] = pos[x]]
           T == (S \ {x}) \cup {y}
           as == [v \in S |-> IF v = x THEN y ELSE v]
<1>1. /\ DOMAIN firsts = 0..k /\ DOMAIN firsts2 = 0..k /\ y # x /\ x # NULL /\ y # NULL
      /\ \A v \in S : v # NULL
      /\ p \in [HmapNodes -> Nat]
  BY HmapAssumption
\* as is one to one from S to T, and the chains of T are those of S under it.
<1>2. /\ \A v \in S : as[v] \in T /\ slot2[as[v]] = slot[v] /\ p[as[v]] = pos[v]
      /\ \A z \in T : \E v \in S : as[v] = z
      /\ \A u, v \in S : as[u] = as[v] => u = v
      /\ \A v \in S : as[v] # NULL
  <2>1. \A z \in T : \E v \in S : as[v] = z
    <3>1. as[x] = y /\ \A v \in S : v # x => as[v] = v
      OBVIOUS
    <3> QED BY <3>1
  <2>2. \A v \in S : as[v] \in T /\ slot2[as[v]] = slot[v] /\ p[as[v]] = pos[v]
    BY <1>1
  <2> QED BY <1>1, <2>1, <2>2
<1>3. \A v \in S : next2[as[v]] = IF next[v] = NULL THEN NULL ELSE as[next[v]]
  <2> SUFFICES ASSUME NEW v \in S
               PROVE  next2[as[v]] = IF next[v] = NULL THEN NULL ELSE as[next[v]]
    OBVIOUS
  <2>1. next[v] # NULL => next[v] \in S
    BY DEF Chains
  <2>2. next[x] # x
    <3>1. next[x] # NULL => pos[x] < pos[next[x]]
      BY DEF Chains
    <3> QED BY <1>1, <3>1
  <2>3. CASE v = x
    BY <1>1, <2>1, <2>2, <2>3
  <2>4. CASE v # x
    BY <1>1, <2>1, <2>4
  <2> QED BY <2>3, <2>4
<1>4. \A i \in 0..k : firsts2[i] = IF firsts[i] = NULL THEN NULL ELSE as[firsts[i]]
  <2>1. \A i \in 0..k : firsts[i] # NULL => firsts[i] \in S
    BY <1>1 DEF Chains
  <2> QED BY <1>1, <2>1
<1>inj. \A u, v \in S : as[u] = as[v] => u = v
  BY <1>2
<1> HIDE DEF as, p, T
<1>5. ASSUME NEW i \in 0..k, firsts2[i] # NULL
      PROVE  firsts2[i] \in T /\ slot2[firsts2[i]] = i
  <2>1. firsts[i] \in S /\ slot[firsts[i]] = i /\ firsts2[i] = as[firsts[i]]
    BY <1>1, <1>4, <1>5 DEF Chains
  <2> QED BY <1>2, <2>1
<1>6. ASSUME NEW z \in T
      PROVE  /\ slot2[z] \in 0..k
             /\ next2[z] # NULL =>
                  /\ next2[z] \in T /\ slot2[next2[z]] = slot2[z] /\ p[z] < p[next2[z]]
                  /\ firsts2[slot2[z]] # next2[z]
             /\ firsts2[slot2[z]] = z \/ \E w \in T : next2[w] = z
  <2>1. PICK v \in S : as[v] = z
    BY <1>2
  <2>2. /\ slot[v] \in 0..k /\ slot2[z] = slot[v] /\ p[z] = pos[v]
        /\ firsts2[slot[v]] = IF firsts[slot[v]] = NULL THEN NULL ELSE as[firsts[slot[v]]]
        /\ next2[z] = IF next[v] = NULL THEN NULL ELSE as[next[v]]
    BY <1>1, <1>2, <1>3, <1>4, <2>1 DEF Chains
  <2>3. ASSUME next2[z] # NULL
        PROVE  /\ next2[z] \in T /\ slot2[next2[z]] = slot2[z] /\ p[z] < p[next2[z]]
               /\ firsts2[slot2[z]] # next2[z]
    <3>1. next[v] \in S /\ slot[next[v]] = slot[v] /\ pos[v] < pos[next[v]]
          /\ firsts[slot[v]] # next[v] /\ next2[z] = as[next[v]]
      BY <2>2, <2>3 DEF Chains
    <3>2. firsts[slot[v]] # NULL => firsts[slot[v]] \in S
      BY <2>2, <1>1 DEF Chains
    <3>3. firsts2[slot2[z]] # next2[z]
      <4>1. CASE firsts[slot[v]] = NULL
        <5>1. next2[z] # NULL /\ firsts2[slot2[z]] = NULL
          BY <2>2, <2>3, <4>1, Zenon
        <5> QED BY <5>1
      <4>2. CASE firsts[slot[v]] # NULL
        <5>1. firsts2[slot2[z]] = as[firsts[slot[v]]]
          BY <2>2, <4>2, Zenon
        <5>2. as[firsts[slot[v]]] # as[next[v]]
          BY <1>inj, <3>1, <3>2, <4>2, Zenon
        <5> QED BY <3>1, <5>1, <5>2, Zenon
      <4> QED BY <4>1, <4>2
    <3>4. as[next[v]] \in T /\ slot2[as[next[v]]] = slot[next[v]] /\ p[as[next[v]]] = pos[next[v]]
      BY <1>2, <3>1, Zenon
    <3> QED BY <2>2, <3>1, <3>3, <3>4
  <2>4. firsts2[slot2[z]] = z \/ \E w \in T : next2[w] = z
    <3>1. CASE firsts[slot[v]] = v
      BY <1>1, <1>2, <2>1, <2>2, <3>1
    <3>2. CASE \E w \in S : next[w] = v
      <4>1. PICK w \in S : next[w] = v
        BY <3>2
      <4>2. next2[as[w]] = z /\ as[w] \in T
        BY <1>1, <1>2, <1>3, <2>1, <4>1
      <4> QED BY <4>2
    <3> QED BY <3>1, <3>2 DEF Chains
  <2> QED BY <2>2, <2>3, <2>4
<1>7. ASSUME NEW u \in T, NEW z \in T, next2[u] = next2[z], next2[u] # NULL
      PROVE  u = z
  <2>1. PICK a \in S : as[a] = u
    BY <1>2
  <2>2. PICK b \in S : as[b] = z
    BY <1>2
  <2>3. /\ next2[u] = IF next[a] = NULL THEN NULL ELSE as[next[a]]
        /\ next2[z] = IF next[b] = NULL THEN NULL ELSE as[next[b]]
    BY <1>3, <2>1, <2>2
  <2>4. next[a] # NULL /\ next[b] # NULL /\ next[a] \in S /\ next[b] \in S
    BY <1>7, <2>3 DEF Chains
  <2>5. as[next[a]] = as[next[b]]
    BY <1>7, <2>3, <2>4, Zenon
  <2>6. next[a] = next[b]
    BY <1>inj, <2>4, <2>5, Zenon
  <2>7. a = b
    BY <2>4, <2>6 DEF Chains
  <2> QED BY <2>1, <2>2, <2>7
<1>8. Chains(T, firsts2, next2, slot2, p)
  BY <1>1, <1>5, <1>6, <1>7 DEF Chains
<1> QED BY <1>1, <1>8 DEF T

-----------------------------------------------------------------------------
\* The memory of a table: its structs, its arrays and the nodes.
Structs == {"hmap", "tmp"}

Stores == Arrays \cup {"hmap", "tmp", "none"}

Mem ==
  [buckets : [Structs -> Stores], array : [Stores -> UNION {[D -> Ptr] : D \in SUBSET Nat}],
   mask : [Structs -> Nat], n : [Structs -> Int], hash : [HmapNodes -> Nat],
   next : [HmapNodes -> Ptr]]

\* The buckets of a struct, which its pointer leads to.
Front(M, s) == M.array[M.buckets[s]]

Open(M, s) == Front(M, s) \in [0..M.mask[s] -> Ptr]

Slots(M, s) == [x \in HmapNodes |-> Slot(M, s, M.hash[x])]

LEMMA SlotIn ==
  ASSUME NEW M \in Mem, NEW s \in Structs, NEW h \in Nat
  PROVE  Slot(M, s, h) \in 0..M.mask[s]
<1>1. M.mask[s] \in Nat /\ M.mask[s] + 1 \in Nat \ {0}
  BY DEF Mem
<1> DEFINE d == M.mask[s] + 1
<1>2. h % d \in 0..(d - 1)
  <2> HIDE DEF d
  <2> QED BY <1>1 DEF d
<1> QED BY <1>1, <1>2 DEF Slot

LEMMA SlotsType ==
  ASSUME NEW M \in Mem, NEW s \in Structs
  PROVE  /\ Slots(M, s) \in [HmapNodes -> Nat]
         /\ \A x \in HmapNodes : Slots(M, s)[x] = Slot(M, s, M.hash[x])
                                 /\ Slots(M, s)[x] \in 0..M.mask[s]
<1>1. \A x \in HmapNodes : M.hash[x] \in Nat
  BY DEF Mem
<1> QED BY <1>1, SlotIn DEF Slots, Mem

\* I is M with node x, of hash value h, at the front of chain i of table s.
PutInFront(M, s, x, h, i, I) ==
  /\ I.buckets = M.buckets /\ I.mask = M.mask
  /\ I.n = [M.n EXCEPT ![s] = @ + 1]
  /\ I.hash = [M.hash EXCEPT ![x] = h]
  /\ I.next = [M.next EXCEPT ![x] = Front(M, s)[i]]
  /\ Front(I, s) = [Front(M, s) EXCEPT ![i] = x]
  /\ \A a \in Stores : a # M.buckets[s] => I.array[a] = M.array[a]

LEMMA InsertFastIs ==
  ASSUME NEW M \in Mem, NEW s \in Structs, Open(M, s), NEW x \in HmapNodes, NEW h \in Nat,
         NEW I, I = HmapInsertFast(M, s, x, h), NEW i, i = Slot(M, s, h)
  PROVE  I \in Mem /\ Open(I, s) /\ PutInFront(M, s, x, h, i, I)
<1> DEFINE b == M.buckets[s]
           new == [M.array[b] EXCEPT ![i] = x]
<1>1. i \in 0..M.mask[s] /\ b \in Stores /\ M.array[b] \in [0..M.mask[s] -> Ptr]
  BY SlotIn DEF Open, Front, Mem
<1>2. new \in [0..M.mask[s] -> Ptr]
  BY <1>1 DEF Ptr
<1>3. I = [M EXCEPT !.hash[x] = h, !.next[x] = M.array[b][i], !.array[b] = new,
                    !.n[s] = @ + 1]
  BY Zenon DEF HmapInsertFast, Bucket
<1>4. M.array[b][i] \in Ptr /\ 0..M.mask[s] \in SUBSET Nat
  <2>1. M.mask[s] \in Nat
    BY DEF Mem
  <2> QED BY <1>1, <2>1
<1>5. new \in UNION {[D -> Ptr] : D \in SUBSET Nat}
  BY <1>2, <1>4
<1> HIDE DEF new, b
<1>6. /\ I.buckets = M.buckets /\ I.mask = M.mask
      /\ I.n = [M.n EXCEPT ![s] = @ + 1]
      /\ I.hash = [M.hash EXCEPT ![x] = h]
      /\ I.next = [M.next EXCEPT ![x] = M.array[b][i]]
      /\ I.array = [M.array EXCEPT ![b] = new]
      /\ I = [buckets |-> I.buckets, array |-> I.array, mask |-> I.mask, n |-> I.n,
              hash |-> I.hash, next |-> I.next]
  BY <1>3 DEF Mem
<1>7. I \in Mem
  <2>1. I.array \in [Stores -> UNION {[D -> Ptr] : D \in SUBSET Nat}]
    BY <1>1, <1>5, <1>6 DEF Mem
  <2>2. I.n \in [Structs -> Int] /\ I.hash \in [HmapNodes -> Nat]
        /\ I.next \in [HmapNodes -> Ptr] /\ I.buckets \in [Structs -> Stores]
        /\ I.mask \in [Structs -> Nat]
    BY <1>4, <1>6 DEF Mem
  <2> QED BY <1>6, <2>1, <2>2 DEF Mem
<1>8. Front(I, s) = new /\ \A a \in Stores : a # b => I.array[a] = M.array[a]
  BY <1>1, <1>6 DEF Front, b, Mem
<1> QED BY <1>2, <1>6, <1>7, <1>8 DEF Front, Open, PutInFront, b, new

-----------------------------------------------------------------------------
(* The order in which a table is gone through.                              *)

\* The chains that are left of the table when a walk is at p in bucket c.
From(M, c, p) ==
  [i \in 0..M.mask["hmap"] |->
     IF i < c THEN NULL ELSE IF i = c THEN p ELSE Front(M, "hmap")[i]]

\* A walk that is at x and has not come to the others of left.
Ahead(M, left, x, pos) ==
  /\ x \in left
  /\ Chains(left, From(M, Slots(M, "hmap")[x], x), M.next, Slots(M, "hmap"), pos)

LEMMA FromType ==
  ASSUME NEW M \in Mem, Open(M, "hmap"), NEW c \in Int, NEW p \in Ptr
  PROVE  From(M, c, p) \in [0..M.mask["hmap"] -> Ptr]
BY DEF From, Open, Ptr

\* FirstFrom goes on to the next chain, if there is one.
LEMMA SearchOn ==
  ASSUME NEW M \in Mem, Open(M, "hmap"), NEW left \in SUBSET HmapNodes,
         NEW pos \in [HmapNodes -> Nat], NEW c \in Int, -1 <= c,
         Chains(left, From(M, c, NULL), M.next, Slots(M, "hmap"), pos)
  PROVE  /\ left = {} => FirstFrom(M, "hmap", c + 1) = NULL
         /\ left # {} => Ahead(M, left, FirstFrom(M, "hmap", c + 1), pos)
<1> DEFINE k == M.mask["hmap"]
           firsts == From(M, c, NULL)
           slot == Slots(M, "hmap")
           full == {i \in (c + 1)..k : Front(M, "hmap")[i] # NULL}
           Found(i) == i \in full /\ \A j \in full : i <= j
           z == FirstFrom(M, "hmap", c + 1)
<1>1. /\ k \in Nat /\ firsts \in [0..k -> Ptr] /\ M.next \in [HmapNodes -> Ptr]
      /\ slot \in [HmapNodes -> Nat] /\ \A x \in HmapNodes : slot[x] \in 0..k
  <2>1. "hmap" \in Structs /\ NULL \in Ptr
    BY DEF Structs, Ptr
  <2>2. firsts \in [0..k -> Ptr]
    BY <2>1, FromType
  <2> QED BY <2>1, <2>2, SlotsType DEF Mem
<1>2. \A i \in 0..k : firsts[i] = IF i <= c THEN NULL ELSE Front(M, "hmap")[i]
  BY DEF From
<1>3. z = IF full = {} THEN NULL ELSE Front(M, "hmap")[CHOOSE i \in full : \A j \in full : i <= j]
  BY Zenon DEF FirstFrom, Bucket, Front
<1> HIDE DEF firsts, slot, k, z
<1>4. CASE full = {}
  <2>1. \A i \in 0..k : firsts[i] = NULL
    BY <1>1, <1>2, <1>4
  <2>2. \A x \in left : FALSE
    <3> SUFFICES ASSUME NEW x \in left PROVE FALSE
      OBVIOUS
    <3>1. slot[x] \in 0..k /\ firsts[slot[x]] = NULL
      BY <1>1, <2>1
    <3> QED BY <1>1, <3>1, ChainsEmpty DEF slot, firsts
  <2>3. left = {}
    BY <2>2
  <2> HIDE DEF full
  <2>4. z = NULL
    BY <1>3, <1>4, Zenon
  <2> QED BY <2>3, <2>4 DEF z
<1>5. CASE full # {}
  <2>1. PICK i \in full : \A j \in full : i <= j
    <3>1. full \in SUBSET Nat
      BY <1>1
    <3> HIDE DEF full
    <3> QED BY <1>5, <3>1, LeastNat
  <2> DEFINE h == CHOOSE j \in full : \A l \in full : j <= l
  <2>2. h \in full /\ \A l \in full : h <= l
    <3> HIDE DEF full
    <3> QED BY <2>1, Zenon
  <2>3. z = Front(M, "hmap")[h]
    <3> HIDE DEF full
    <3> QED BY <1>3, <1>5, Zenon
  <2> HIDE DEF h
  <2>4. h \in 0..k /\ c < h /\ firsts[h] = z /\ z # NULL
        /\ \A j \in 0..k : j < h => firsts[j] = NULL
    BY <1>1, <1>2, <2>2, <2>3
  <2>5. z \in left /\ slot[z] = h
    BY <1>1, <2>4 DEF Chains, firsts, slot
  <2>6. \A j \in 0..k : From(M, h, z)[j] = firsts[j]
    <3>1. \A j \in 0..k : From(M, h, z)[j] =
             IF j < h THEN NULL ELSE IF j = h THEN z ELSE Front(M, "hmap")[j]
      BY DEF From, k
    <3> QED BY <1>1, <1>2, <2>4, <3>1
  <2>7. DOMAIN From(M, h, z) = 0..k /\ DOMAIN firsts = 0..k
    BY DEF From, firsts, k
  <2>8. Chains(left, From(M, h, z), M.next, slot, pos)
    BY <2>6, <2>7, ChainsSame DEF firsts, slot
  <2>9. Ahead(M, left, z, pos) /\ left # {}
    BY <2>5, <2>8 DEF Ahead, slot
  <2> QED BY <2>9 DEF z
<1> QED BY <1>4, <1>5

\* HmapNext goes on to one of the nodes that are left, unless none is.
LEMMA WalkOn ==
  ASSUME NEW M \in Mem, Open(M, "hmap"), NEW left \in SUBSET HmapNodes,
         NEW pos \in [HmapNodes -> Nat], NEW x, Ahead(M, left, x, pos)
  PROVE  /\ left = {x} => HmapNext(M, "hmap", x) = NULL
         /\ left # {x} => Ahead(M, left \ {x}, HmapNext(M, "hmap", x), pos)
<1> DEFINE k == M.mask["hmap"]
           slot == Slots(M, "hmap")
           c == slot[x]
           firsts == From(M, c, x)
           rest == left \ {x}
           z == M.next[x]
<1>1. /\ k \in Nat /\ M.next \in [HmapNodes -> Ptr] /\ x \in left
      /\ slot \in [HmapNodes -> Nat] /\ c \in 0..k /\ z \in Ptr
      /\ slot[x] = Slot(M, "hmap", M.hash[x])
  <2>1. "hmap" \in Structs /\ x \in left
    BY DEF Structs, Ahead
  <2> QED BY <2>1, SlotsType DEF Mem
<1>2. firsts \in [0..k -> Ptr] /\ firsts[c] = x
  <2>1. x \in Ptr
    BY <1>1 DEF Ptr
  <2>2. firsts \in [0..k -> Ptr]
    BY <1>1, <2>1, FromType
  <2> QED BY <1>1, <2>2 DEF From
<1>3. Chains(left, firsts, M.next, slot, pos)
  BY DEF Ahead
<1>4. [firsts EXCEPT ![c] = z] = From(M, c, z)
  <2> DEFINE f == [firsts EXCEPT ![c] = z]
             g == From(M, c, z)
  <2>1. /\ f = [i \in 0..k |-> IF i = c THEN z ELSE firsts[i]]
        /\ \A i \in 0..k : firsts[i] =
             IF i < c THEN NULL ELSE IF i = c THEN x ELSE Front(M, "hmap")[i]
        /\ g = [i \in 0..k |->
                 IF i < c THEN NULL ELSE IF i = c THEN z ELSE Front(M, "hmap")[i]]
    BY <1>2 DEF From
  <2> HIDE DEF f, g, firsts, z, c
  <2>2. \A i \in 0..k : f[i] = g[i]
    BY <1>1, <2>1
  <2>3. f = g
    BY <2>1, <2>2
  <2> QED BY <2>3 DEF f, g
<1>5. Chains(rest, From(M, c, z), M.next, slot, pos)
  <2> HIDE DEF firsts, slot, z
  <2>1. Chains(rest, [firsts EXCEPT ![slot[x]] = M.next[x]], M.next, slot, pos)
    BY <1>1, <1>2, <1>3, ChainsPop
  <2> QED BY <1>4, <2>1 DEF z
<1>6. CASE z # NULL
  <2>1. z \in rest /\ slot[z] = c /\ HmapNext(M, "hmap", x) = z
    <3>1. z \in left /\ slot[z] = c /\ pos[x] < pos[z]
      BY <1>1, <1>3, <1>6 DEF Chains
    <3> QED BY <1>1, <1>6, <3>1 DEF HmapNext
  <2>2. Ahead(M, rest, z, pos)
    BY <1>5, <2>1 DEF Ahead
  <2> QED BY <2>1, <2>2
<1>7. CASE z = NULL
  <2>1. HmapNext(M, "hmap", x) = FirstFrom(M, "hmap", c + 1)
    BY <1>1, <1>7 DEF HmapNext
  <2>2. Chains(rest, From(M, c, NULL), M.next, slot, pos) /\ c \in Int /\ -1 <= c
        /\ rest \in SUBSET HmapNodes
    BY <1>1, <1>5, <1>7
  <2> HIDE DEF rest, c
  <2>3. /\ rest = {} => FirstFrom(M, "hmap", c + 1) = NULL
        /\ rest # {} => Ahead(M, rest, FirstFrom(M, "hmap", c + 1), pos)
    BY <2>2, SearchOn
  <2> QED BY <1>1, <2>1, <2>3 DEF rest
<1> QED BY <1>6, <1>7

LEMMA WalkFirst ==
  ASSUME NEW M \in Mem, Open(M, "hmap"), NEW S \in SUBSET HmapNodes,
         NEW pos \in [HmapNodes -> Nat],
         Chains(S, Front(M, "hmap"), M.next, Slots(M, "hmap"), pos)
  PROVE  /\ S = {} => HmapFirst(M, "hmap") = NULL
         /\ S # {} => Ahead(M, S, HmapFirst(M, "hmap"), pos)
<1>1. \A i \in 0..M.mask["hmap"] : From(M, -1, NULL)[i] = Front(M, "hmap")[i]
  BY DEF From
<1>2. /\ DOMAIN Front(M, "hmap") = 0..M.mask["hmap"]
      /\ DOMAIN From(M, -1, NULL) = 0..M.mask["hmap"]
  BY DEF From, Open
<1>3. Chains(S, From(M, -1, NULL), M.next, Slots(M, "hmap"), pos)
  BY <1>1, <1>2, ChainsSame
<1>4. -1 \in Int /\ -1 <= -1 /\ -1 + 1 = 0
  OBVIOUS
<1>5. /\ S = {} => FirstFrom(M, "hmap", -1 + 1) = NULL
      /\ S # {} => Ahead(M, S, FirstFrom(M, "hmap", -1 + 1), pos)
  BY <1>3, <1>4, SearchOn
<1> QED BY <1>4, <1>5 DEF HmapFirst

\* A walk goes on the same when what it has left is the same.
LEMMA AheadSame ==
  ASSUME NEW M \in Mem, NEW T \in Mem, NEW left \in SUBSET HmapNodes, NEW x, NEW pos,
         Ahead(M, left, x, pos), T.mask["hmap"] = M.mask["hmap"],
         \A y \in left : T.next[y] = M.next[y] /\ T.hash[y] = M.hash[y],
         \A i \in 0..M.mask["hmap"] :
           Slot(M, "hmap", M.hash[x]) < i => Front(T, "hmap")[i] = Front(M, "hmap")[i]
  PROVE  Ahead(T, left, x, pos)
<1> DEFINE c == Slots(M, "hmap")[x]
           k == M.mask["hmap"]
<1>1. x \in left /\ "hmap" \in Structs
  BY DEF Ahead, Structs
<1>2. \A y \in left : Slots(T, "hmap")[y] = Slots(M, "hmap")[y]
  <2>1. \A y \in left : Slot(T, "hmap", T.hash[y]) = Slot(M, "hmap", M.hash[y])
    BY DEF Slot
  <2> QED BY <1>1, <2>1, SlotsType
<1>3. /\ c = Slot(M, "hmap", M.hash[x]) /\ Slots(T, "hmap")[x] = c /\ c \in 0..k /\ k \in Nat
  BY <1>1, <1>2, SlotsType DEF Mem
<1>4. \A i \in 0..k : From(T, c, x)[i] = From(M, c, x)[i]
  <2> SUFFICES ASSUME NEW i \in 0..k PROVE From(T, c, x)[i] = From(M, c, x)[i]
    OBVIOUS
  <2>1. /\ From(T, c, x)[i] = IF i < c THEN NULL ELSE IF i = c THEN x ELSE Front(T, "hmap")[i]
        /\ From(M, c, x)[i] = IF i < c THEN NULL ELSE IF i = c THEN x ELSE Front(M, "hmap")[i]
    BY DEF From
  <2>2. ~(i < c) /\ i # c => Front(T, "hmap")[i] = Front(M, "hmap")[i]
    BY <1>3
  <2> HIDE DEF c
  <2> QED BY <2>1, <2>2
<1>5. DOMAIN From(T, c, x) = 0..k /\ DOMAIN From(M, c, x) = 0..k
  BY DEF From
<1>6. Chains(left, From(M, c, x), M.next, Slots(M, "hmap"), pos)
  BY DEF Ahead
<1> HIDE DEF c, k
<1>7. Chains(left, From(T, c, x), T.next, Slots(T, "hmap"), pos)
  <2>1. /\ DOMAIN From(T, c, x) = DOMAIN From(M, c, x)
        /\ \A i \in DOMAIN From(M, c, x) : From(T, c, x)[i] = From(M, c, x)[i]
        /\ \A y \in left : T.next[y] = M.next[y]
    BY <1>4, <1>5
  <2> QED BY <1>2, <1>6, <2>1, ChainsSame
<1> QED BY <1>1, <1>3, <1>7 DEF Ahead

-----------------------------------------------------------------------------
(* resize.                                                                  *)

\* What is in order in a memory whose table holds the nodes of S.
Kept(M, S) ==
  /\ M \in Mem /\ Open(M, "hmap") /\ S \in SUBSET HmapNodes
  /\ M.buckets["hmap"] \in Arrays \cup {"hmap"}
  /\ M.mask["hmap"] = 0 <=> M.buckets["hmap"] = "hmap"
  /\ M.array["hmap"] # Freed
  /\ \A a \in Arrays : a # M.buckets["hmap"] => M.array[a] = Freed
  /\ M.n["hmap"] = Cardinality(S)
  /\ \A x \in S : M.hash[x] = HashOf[x]
  /\ \A x \in HmapNodes \ S : M.next[x] = NULL
  /\ \E pos \in [HmapNodes -> Nat] :
       Chains(S, Front(M, "hmap"), M.next, Slots(M, "hmap"), pos)

\* While resize moves the nodes of M, whose table holds S, to array a with mask
\* k, they are in either table: those of left where they were.
Moving(M, S, a, k, r) ==
  /\ r.mem \in Mem /\ r.node \in Ptr /\ Open(r.mem, "tmp")
  /\ r.mem.buckets = [M.buckets EXCEPT !["tmp"] = a]
  /\ r.mem.mask = [M.mask EXCEPT !["tmp"] = k]
  /\ r.mem.hash = M.hash /\ r.mem.n["hmap"] = M.n["hmap"]
  /\ \A b \in Stores \ {a, "tmp"} : r.mem.array[b] = M.array[b]
  /\ r.mem.array["tmp"] = [i \in {0} |-> NULL]
  /\ \A x \in HmapNodes \ S : r.mem.next[x] = NULL
  /\ \E left \in SUBSET S, p, q \in [HmapNodes -> Nat] :
       /\ r.mem.n["tmp"] = Cardinality(S \ left)
       /\ Chains(S \ left, Front(r.mem, "tmp"), r.mem.next, Slots(r.mem, "tmp"), q)
       /\ IF r.node = NULL THEN left = {} ELSE Ahead(r.mem, left, r.node, p)

\* Arrays that resize can use, and the table that it leaves alone.
Grows(M, S, a, k) ==
  Kept(M, S) /\ a \in Arrays /\ a # M.buckets["hmap"] /\ M.array[a] = Freed /\ k \in Nat \ {0}

LEMMA MovingOpen ==
  ASSUME NEW M, NEW S, NEW a, NEW k, Grows(M, S, a, k), NEW r, Moving(M, S, a, k, r)
  PROVE  /\ Open(r.mem, "hmap") /\ Front(r.mem, "hmap") = Front(M, "hmap")
         /\ r.mem.buckets["hmap"] = M.buckets["hmap"] /\ r.mem.buckets["tmp"] = a
         /\ r.mem.mask["hmap"] = M.mask["hmap"] /\ r.mem.mask["tmp"] = k
         /\ a \in Stores /\ M.buckets["hmap"] \in Stores
<1>1. /\ M.buckets["hmap"] \in Stores \ {a, "tmp"} /\ a \in Stores
      /\ "hmap" # "tmp" /\ "hmap" \in Structs /\ "tmp" \in Structs
  BY HmapAssumption DEF Grows, Kept, Stores, Structs
<1>2. M \in Mem /\ r.mem.buckets = [M.buckets EXCEPT !["tmp"] = a]
      /\ r.mem.mask = [M.mask EXCEPT !["tmp"] = k]
      /\ r.mem.array[M.buckets["hmap"]] = M.array[M.buckets["hmap"]]
  BY <1>1 DEF Grows, Kept, Moving
<1>3. /\ r.mem.buckets["hmap"] = M.buckets["hmap"] /\ r.mem.buckets["tmp"] = a
      /\ r.mem.mask["hmap"] = M.mask["hmap"] /\ r.mem.mask["tmp"] = k
  BY <1>1, <1>2 DEF Mem
<1>4. Open(M, "hmap")
  BY DEF Grows, Kept
<1> QED BY <1>1, <1>2, <1>3, <1>4 DEF Open, Front

\* One turn of the loops moves the node they are at.
LEMMA MoveKeeps ==
  ASSUME NEW M, NEW S, NEW a, NEW k, Grows(M, S, a, k), NEW r, Moving(M, S, a, k, r),
         r.node # NULL
  PROVE  /\ Moving(M, S, a, k, Move(r))
         /\ Move(r).mem.n["tmp"] = r.mem.n["tmp"] + 1
<1> DEFINE T == r.mem
           x == r.node
           i == Slot(T, "tmp", T.hash[x])
           N == HmapInsertFast(T, "tmp", x, T.hash[x])
           z == HmapNext(T, "hmap", x)
<1>1. PICK left \in SUBSET S, p, q \in [HmapNodes -> Nat] :
        /\ T.n["tmp"] = Cardinality(S \ left)
        /\ Chains(S \ left, Front(T, "tmp"), T.next, Slots(T, "tmp"), q)
        /\ Ahead(T, left, x, p)
  BY DEF Moving
<1>2. /\ T \in Mem /\ Open(T, "tmp") /\ S \in SUBSET HmapNodes /\ IsFiniteSet(HmapNodes)
      /\ x \in left /\ x \in HmapNodes /\ x # NULL /\ k \in Nat
      /\ "tmp" \in Structs /\ "hmap" \in Structs
  BY <1>1, HmapAssumption DEF Moving, Grows, Kept, Ahead, Structs
<1>3. /\ Open(T, "hmap") /\ T.buckets["hmap"] = M.buckets["hmap"] /\ T.buckets["tmp"] = a
      /\ T.mask["tmp"] = k /\ a \in Stores /\ T.buckets["hmap"] \in Stores
      /\ T.buckets["hmap"] # a
  <2>1. M.buckets["hmap"] # a
    BY DEF Grows
  <2> QED BY <2>1, MovingOpen
<1>4. T.hash[x] \in Nat
  BY <1>2 DEF Mem
<1>5. /\ N \in Mem
      /\ N.buckets = T.buckets /\ N.mask = T.mask
      /\ N.n = [T.n EXCEPT !["tmp"] = @ + 1]
      /\ N.hash = [T.hash EXCEPT ![x] = T.hash[x]]
      /\ N.next = [T.next EXCEPT ![x] = Front(T, "tmp")[i]]
      /\ Front(N, "tmp") = [Front(T, "tmp") EXCEPT ![i] = x]
      /\ Open(N, "tmp")
      /\ \A b \in Stores : b # T.buckets["tmp"] => N.array[b] = T.array[b]
  <2> DEFINE h == T.hash[x]
  <2> HIDE DEF T, x
  <2>1. T \in Mem /\ "tmp" \in Structs /\ Open(T, "tmp") /\ x \in HmapNodes /\ h \in Nat
    BY <1>2, <1>4
  <2>2. h = T.hash[x]
    OBVIOUS
  <2> HIDE DEF h
  <2>3. N = HmapInsertFast(T, "tmp", x, h) /\ i = Slot(T, "tmp", h)
    BY <2>2
  <2> HIDE DEF N, i
  <2>4. N \in Mem /\ Open(N, "tmp") /\ PutInFront(T, "tmp", x, h, i, N)
    BY <2>1, <2>3, InsertFastIs
  <2> QED BY <2>2, <2>4 DEF PutInFront
<1> HIDE DEF N
<1>6. /\ N.hash = T.hash /\ Front(N, "hmap") = Front(T, "hmap") /\ Open(N, "hmap")
      /\ N.n["hmap"] = T.n["hmap"] /\ N.n["tmp"] = T.n["tmp"] + 1
      /\ \A y \in HmapNodes \ {x} : N.next[y] = T.next[y]
  <2>1. T.hash \in [HmapNodes -> Nat] /\ T.n \in [Structs -> Int] /\ T.next \in [HmapNodes -> Ptr]
    BY <1>2 DEF Mem
  <2>2. N.hash = T.hash /\ \A y \in HmapNodes \ {x} : N.next[y] = T.next[y]
    BY <1>2, <1>5, <2>1
  <2>3. N.n["hmap"] = T.n["hmap"] /\ N.n["tmp"] = T.n["tmp"] + 1
    BY <1>5, <2>1 DEF Structs
  <2>4. N.array[T.buckets["hmap"]] = T.array[T.buckets["hmap"]]
    BY <1>3, <1>5
  <2> QED BY <1>3, <1>5, <2>2, <2>3, <2>4 DEF Front, Open
<1>7. /\ left = {x} => z = NULL
      /\ left # {x} => Ahead(N, left \ {x}, z, p)
  <2>1. left \in SUBSET HmapNodes /\ left \ {x} \in SUBSET HmapNodes
    BY <1>2
  <2>2. /\ left = {x} => z = NULL
        /\ left # {x} => Ahead(T, left \ {x}, z, p)
    BY <1>1, <1>2, <1>3, <2>1, WalkOn
  <2>3. /\ N.mask["hmap"] = T.mask["hmap"]
        /\ \A y \in left \ {x} : N.next[y] = T.next[y] /\ N.hash[y] = T.hash[y]
        /\ \A j \in 0..T.mask["hmap"] : Front(N, "hmap")[j] = Front(T, "hmap")[j]
    BY <1>5, <1>6, <2>1
  <2> HIDE DEF z, T, x
  <2>4. ASSUME left # {x} PROVE Ahead(N, left \ {x}, z, p)
    BY <1>2, <1>5, <2>1, <2>2, <2>3, <2>4, AheadSame
  <2> QED BY <2>2, <2>4
<1>8. PICK q2 \in [HmapNodes -> Nat] :
        Chains((S \ left) \cup {x}, Front(N, "tmp"), N.next, Slots(N, "tmp"), q2)
  <2> DEFINE firsts == Front(T, "tmp")
             slot == Slots(T, "tmp")
  <2>1. /\ firsts \in [0..k -> Ptr] /\ slot \in [HmapNodes -> Nat]
        /\ slot[x] = i /\ i \in 0..k /\ T.next \in [HmapNodes -> Ptr]
        /\ S \ left \in SUBSET HmapNodes /\ x \notin S \ left
    <3>1. firsts \in [0..k -> Ptr] /\ T.next \in [HmapNodes -> Ptr] /\ S \ left \in SUBSET HmapNodes
          /\ x \notin S \ left
      BY <1>2, <1>3 DEF Open, Mem
    <3> HIDE DEF firsts, T, x
    <3> QED BY <1>2, <1>3, <3>1, SlotsType
  <2>2. Slots(N, "tmp") = slot
    BY <1>5, <1>6 DEF Slots, Slot
  <2>3. Chains(S \ left, firsts, T.next, slot, q)
    BY <1>1
  <2>4. /\ Front(N, "tmp") = [firsts EXCEPT ![slot[x]] = x]
        /\ N.next = [T.next EXCEPT ![x] = firsts[slot[x]]]
    BY <1>5, <2>1
  <2> HIDE DEF firsts, slot, T, x, i
  <2>5. \E q2 \in [HmapNodes -> Nat] :
          Chains((S \ left) \cup {x}, [firsts EXCEPT ![slot[x]] = x],
                 [T.next EXCEPT ![x] = firsts[slot[x]]], slot, q2)
    BY <1>2, <2>1, <2>3, ChainsPush
  <2> QED BY <2>2, <2>4, <2>5
<1>9. /\ S \ (left \ {x}) = (S \ left) \cup {x}
      /\ N.n["tmp"] = Cardinality(S \ (left \ {x}))
  <2>1. S \ (left \ {x}) = (S \ left) \cup {x} /\ S \ left \in SUBSET HmapNodes
        /\ x \notin S \ left
    BY <1>2
  <2>2. Cardinality((S \ left) \cup {x}) = Cardinality(S \ left) + 1
    BY <1>2, <2>1, FS_Subset, FS_AddElement
  <2> QED BY <1>1, <1>6, <2>1, <2>2
<1>10. z \in Ptr
  BY <1>2, <1>7 DEF Ahead, Ptr
<1>11. \A b \in Stores \ {a, "tmp"} : N.array[b] = M.array[b]
  BY <1>3, <1>5 DEF Moving
<1>12. N.array["tmp"] = [j \in {0} |-> NULL]
  <2>1. "tmp" \in Stores /\ "tmp" # a
    BY HmapAssumption DEF Stores, Grows
  <2> QED BY <1>3, <1>5, <2>1 DEF Moving
<1>13. \A y \in HmapNodes \ S : N.next[y] = NULL
  BY <1>2, <1>6 DEF Moving
<1>14. Move(r) = [node |-> z, mem |-> N]
  BY <1>2 DEF Move, N
<1>15. \E l \in SUBSET S, p2, q3 \in [HmapNodes -> Nat] :
         /\ N.n["tmp"] = Cardinality(S \ l)
         /\ Chains(S \ l, Front(N, "tmp"), N.next, Slots(N, "tmp"), q3)
         /\ IF z = NULL THEN l = {} ELSE Ahead(N, l, z, p2)
  <2> DEFINE l == left \ {x}
  <2>1. l \in SUBSET S
    BY <1>2
  <2>2. Chains(S \ l, Front(N, "tmp"), N.next, Slots(N, "tmp"), q2) /\ N.n["tmp"] = Cardinality(S \ l)
    BY <1>8, <1>9
  <2>3. IF z = NULL THEN l = {} ELSE Ahead(N, l, z, p)
    <3>1. CASE left = {x}
      BY <1>7, <3>1
    <3>2. CASE left # {x}
      <4>1. Ahead(N, l, z, p)
        BY <1>7, <3>2
      <4>2. z \in l
        BY <4>1 DEF Ahead
      <4>3. z # NULL
        BY <1>2, <2>1, <4>2, HmapAssumption
      <4> QED BY <4>1, <4>3
    <3> QED BY <3>1, <3>2
  <2> HIDE DEF l, z, T, x
  <2> QED BY <1>1, <1>8, <2>1, <2>2, <2>3
<1>16. N \in Mem /\ Open(N, "tmp") /\ N.buckets = T.buckets /\ N.mask = T.mask
       /\ N.hash = T.hash /\ N.n["hmap"] = T.n["hmap"]
  BY <1>5, <1>6
<1>17. /\ T.buckets = [M.buckets EXCEPT !["tmp"] = a] /\ T.mask = [M.mask EXCEPT !["tmp"] = k]
       /\ T.hash = M.hash /\ T.n["hmap"] = M.n["hmap"]
  BY DEF Moving
<1> HIDE DEF z, T, x
<1>18. Moving(M, S, a, k, [node |-> z, mem |-> N])
  BY <1>10, <1>11, <1>12, <1>13, <1>15, <1>16, <1>17 DEF Moving
<1> QED BY <1>6, <1>14, <1>18 DEF T

\* What resize's loops start from: an empty table in tmp.
Bare(M, a, k) ==
  [HmapInit(M, "tmp") EXCEPT !.buckets["tmp"] = a, !.mask["tmp"] = k,
                             !.array[a] = [i \in 0..k |-> NULL]]

LEMMA MovingStarts ==
  ASSUME NEW M, NEW S, NEW a, NEW k, Grows(M, S, a, k)
  PROVE  /\ Moving(M, S, a, k, [node |-> HmapFirst(M, "hmap"), mem |-> Bare(M, a, k)])
         /\ Bare(M, a, k).n["tmp"] = 0
<1> DEFINE T == Bare(M, a, k)
           z == HmapFirst(M, "hmap")
           e == [i \in 0..k |-> NULL]
           one == [i \in {0} |-> NULL]
<1>1. /\ M \in Mem /\ Open(M, "hmap") /\ S \in SUBSET HmapNodes /\ k \in Nat /\ a \in Stores
      /\ a # "tmp" /\ a # M.buckets["hmap"] /\ M.buckets["hmap"] \in Stores
      /\ M.buckets["hmap"] # "tmp" /\ "tmp" \in Stores
      /\ "tmp" \in Structs /\ "hmap" \in Structs /\ "hmap" # "tmp"
  BY HmapAssumption DEF Grows, Kept, Structs, Stores
<1> DEFINE I == HmapInit(M, "tmp")
<1>2. /\ I.buckets = [M.buckets EXCEPT !["tmp"] = "tmp"]
      /\ I.mask = [M.mask EXCEPT !["tmp"] = 0]
      /\ I.array = [M.array EXCEPT !["tmp"] = one]
      /\ I.n = [M.n EXCEPT !["tmp"] = 0]
      /\ I.hash = M.hash /\ I.next = M.next
      /\ I = [buckets |-> I.buckets, array |-> I.array, mask |-> I.mask, n |-> I.n,
              hash |-> I.hash, next |-> I.next]
  <2>1. I = [M EXCEPT !.buckets["tmp"] = "tmp", !.array["tmp"] = one,
                      !.mask["tmp"] = 0, !.n["tmp"] = 0]
    BY DEF HmapInit
  <2> HIDE DEF I, one
  <2> QED BY <1>1, <2>1 DEF Mem
<1>3. /\ T.buckets = [M.buckets EXCEPT !["tmp"] = a]
      /\ T.mask = [M.mask EXCEPT !["tmp"] = k]
      /\ T.array = [[M.array EXCEPT !["tmp"] = one] EXCEPT ![a] = e]
      /\ T.n = [M.n EXCEPT !["tmp"] = 0]
      /\ T.hash = M.hash /\ T.next = M.next
      /\ T = [buckets |-> T.buckets, array |-> T.array, mask |-> T.mask, n |-> T.n,
              hash |-> T.hash, next |-> T.next]
  <2> HIDE DEF I, one
  <2>1. T = [I EXCEPT !.buckets["tmp"] = a, !.mask["tmp"] = k, !.array[a] = e]
    BY DEF Bare, I
  <2> HIDE DEF T, e
  <2>2. /\ T.buckets = [I.buckets EXCEPT !["tmp"] = a]
        /\ T.mask = [I.mask EXCEPT !["tmp"] = k]
        /\ T.array = [I.array EXCEPT ![a] = e]
        /\ T.n = I.n /\ T.hash = I.hash /\ T.next = I.next
        /\ T = [buckets |-> T.buckets, array |-> T.array, mask |-> T.mask, n |-> T.n,
                hash |-> T.hash, next |-> T.next]
    BY <1>2, <2>1
  <2>3. T.buckets = [M.buckets EXCEPT !["tmp"] = a] /\ T.mask = [M.mask EXCEPT !["tmp"] = k]
    <3>1. M.buckets \in [Structs -> Stores] /\ M.mask \in [Structs -> Nat]
      BY <1>1 DEF Mem
    <3> QED BY <1>2, <2>2, <3>1
  <2> QED BY <1>2, <2>2, <2>3
<1> HIDE DEF T, I
<1>4. e \in [0..k -> Ptr] /\ one \in [{0} -> Ptr] /\ 0..k \in SUBSET Nat /\ {0} \in SUBSET Nat
  BY <1>1 DEF Ptr
<1> HIDE DEF e, one
<1>5. T \in Mem
  <2>1. e \in UNION {[D -> Ptr] : D \in SUBSET Nat} /\ one \in UNION {[D -> Ptr] : D \in SUBSET Nat}
    BY <1>4
  <2>2. T.array \in [Stores -> UNION {[D -> Ptr] : D \in SUBSET Nat}]
    BY <1>1, <1>3, <2>1 DEF Mem
  <2>3. /\ T.buckets \in [Structs -> Stores] /\ T.mask \in [Structs -> Nat]
        /\ T.n \in [Structs -> Int] /\ T.hash \in [HmapNodes -> Nat]
        /\ T.next \in [HmapNodes -> Ptr]
    BY <1>1, <1>3 DEF Mem
  <2> QED BY <1>3, <2>2, <2>3 DEF Mem
<1>6. /\ T.buckets["hmap"] = M.buckets["hmap"] /\ T.buckets["tmp"] = a
      /\ T.mask["hmap"] = M.mask["hmap"] /\ T.mask["tmp"] = k
      /\ T.n["hmap"] = M.n["hmap"] /\ T.n["tmp"] = 0
      /\ T.array[a] = e /\ T.array["tmp"] = one
      /\ \A b \in Stores \ {a, "tmp"} : T.array[b] = M.array[b]
  BY <1>1, <1>3 DEF Mem
<1>7. Front(T, "tmp") = e /\ Open(T, "tmp") /\ Front(T, "hmap") = Front(M, "hmap")
  BY <1>1, <1>4, <1>6 DEF Front, Open
<1>8. PICK pos \in [HmapNodes -> Nat] :
        Chains(S, Front(M, "hmap"), M.next, Slots(M, "hmap"), pos)
  BY DEF Grows, Kept
<1>9. /\ S = {} => z = NULL
      /\ S # {} => Ahead(M, S, z, pos)
  BY <1>1, <1>8, WalkFirst
<1>10. S # {} => Ahead(T, S, z, pos) /\ z \in HmapNodes /\ z # NULL
  <2> SUFFICES ASSUME S # {} PROVE Ahead(T, S, z, pos) /\ z \in HmapNodes /\ z # NULL
    OBVIOUS
  <2> HIDE DEF z
  <2>1. Ahead(T, S, z, pos)
    BY <1>1, <1>3, <1>5, <1>6, <1>7, <1>9, AheadSame
  <2> QED BY <1>1, <2>1, HmapAssumption DEF Ahead
<1>11. z \in Ptr
  BY <1>9, <1>10 DEF Ptr
<1>12. Cardinality(S \ S) = 0 /\ S \ S = {}
  BY FS_EmptySet
<1>13. Chains(S \ S, Front(T, "tmp"), T.next, Slots(T, "tmp"), pos)
  <2>1. \A i \in 0..k : e[i] = NULL
    BY DEF e
  <2> QED BY <1>4, <1>7, <1>12, <2>1 DEF Chains
<1>14. \E left \in SUBSET S, p, q \in [HmapNodes -> Nat] :
         /\ T.n["tmp"] = Cardinality(S \ left)
         /\ Chains(S \ left, Front(T, "tmp"), T.next, Slots(T, "tmp"), q)
         /\ IF z = NULL THEN left = {} ELSE Ahead(T, left, z, p)
  <2>1. S \in SUBSET S /\ IF z = NULL THEN S = {} ELSE Ahead(T, S, z, pos)
    BY <1>9, <1>10
  <2> HIDE DEF z
  <2> QED BY <1>6, <1>8, <1>12, <1>13, <2>1
<1>15. \A x \in HmapNodes \ S : T.next[x] = NULL
  BY <1>3 DEF Grows, Kept
<1> HIDE DEF z
<1>16. Moving(M, S, a, k, [node |-> z, mem |-> T])
  BY <1>3, <1>5, <1>6, <1>7, <1>11, <1>14, <1>15 DEF Moving, one
<1> QED BY <1>6, <1>16 DEF z, T

\* The mask that calc_mask takes has a bit for each bit of half the capacity.
LEMMA CalcMaskIs ==
  ASSUME NEW capacity \in Nat
  PROVE  CalcMask(capacity) \in Nat /\ capacity \div 2 <= CalcMask(capacity)
<1> DEFINE half == capacity \div 2
           N == half + 2
           step == [x \in Nat |-> 2 * x + 1]
           ones == CHOOSE w : w = [b \in 0..N |-> IF b = 0 THEN 0 ELSE 2 * w[b - 1] + 1]
           enough == {b \in 2..N : half <= ones[b]}
           c == CHOOSE b \in enough : \A d \in enough : b <= d
<1>1. half \in Nat /\ N \in Nat
  OBVIOUS
<1>2. CalcMask(capacity) = IF half = 0 THEN 0 ELSE ones[c]
  BY Zenon DEF CalcMask
<1> HIDE DEF half, c
<1>3. PICK f \in [0..N -> Nat] : Follows(step, 0, f, N)
  <2>1. step \in [Nat -> Nat] /\ 0 \in Nat
    OBVIOUS
  <2> HIDE DEF step, N
  <2> QED BY <1>1, <2>1, FunctionExists
<1>4. f = [b \in 0..N |-> IF b = 0 THEN 0 ELSE 2 * f[b - 1] + 1]
  <2>1. \A b \in 0..N : b # 0 => step[f[b - 1]] = 2 * f[b - 1] + 1
    BY <1>1
  <2> HIDE DEF step, N
  <2> QED BY <1>3, <2>1 DEF Follows
<1> HIDE DEF N
<1>5. ones = [b \in 0..N |-> IF b = 0 THEN 0 ELSE 2 * ones[b - 1] + 1]
  BY <1>4, Zenon
<1> HIDE DEF ones, step
<1> DEFINE K == {b \in Nat : b <= N => ones[b] \in Nat /\ b <= ones[b]}
<1>6. K = Nat
  <2>1. 0 \in K
    BY <1>1, <1>5
  <2>2. ASSUME NEW b \in K PROVE b + 1 \in K
    <3> SUFFICES ASSUME b + 1 <= N PROVE ones[b + 1] \in Nat /\ b + 1 <= ones[b + 1]
      OBVIOUS
    <3>1. ones[b] \in Nat /\ b <= ones[b] /\ ones[b + 1] = 2 * ones[b] + 1
      BY <1>1, <1>5
    <3> QED BY <3>1
  <2>3. K \in SUBSET Nat
    OBVIOUS
  <2> HIDE DEF K
  <2> QED BY <2>1, <2>2, <2>3, SetInduction
<1>7. \A b \in 0..N : ones[b] \in Nat /\ b <= ones[b]
  BY <1>1, <1>6
<1> HIDE DEF K
<1>8. N \in enough
  BY <1>1, <1>7 DEF N
<1>9. PICK b \in enough : \A d \in enough : b <= d
  <2>1. enough \in SUBSET Nat
    BY <1>1
  <2> HIDE DEF enough
  <2> QED BY <1>8, <2>1, LeastNat
<1>10. c \in enough
  <2> HIDE DEF enough
  <2> QED BY <1>9, Zenon DEF c
<1>11. half <= ones[c] /\ ones[c] \in Nat
  BY <1>1, <1>7, <1>10
<1> QED BY <1>1, <1>2, <1>11 DEF half

\* resize's loops move all nodes of the table to tmp.
LEMMA LoopsMoveAll ==
  ASSUME NEW M, NEW S, NEW a, NEW k, Grows(M, S, a, k),
         NEW after, after = CHOOSE w : w = [j \in 0..Cardinality(HmapNodes) |->
           IF j = 0 THEN [node |-> HmapFirst(M, "hmap"), mem |-> Bare(M, a, k)]
           ELSE Move(w[j - 1])]
  PROVE  /\ Moving(M, S, a, k, after[Cardinality(HmapNodes)])
         /\ after[Cardinality(HmapNodes)].node = NULL
<1> DEFINE N == Cardinality(HmapNodes)
           base == [node |-> HmapFirst(M, "hmap"), mem |-> Bare(M, a, k)]
           R == {r \in [node : Ptr, mem : Mem] : Moving(M, S, a, k, r)}
           step == [r \in R |-> Move(r)]
<1>1. N \in Nat /\ IsFiniteSet(HmapNodes)
  BY HmapAssumption, FS_CardinalityType
<1>2. base \in R /\ base.mem.n["tmp"] = 0
  <2>1. Moving(M, S, a, k, base) /\ Bare(M, a, k).n["tmp"] = 0
    BY MovingStarts
  <2>2. base.node \in Ptr /\ base.mem \in Mem
    BY <2>1 DEF Moving
  <2> QED BY <2>1, <2>2
<1>3. \A r \in R : Move(r) \in R /\ (Move(r).node # NULL => Move(r).mem.n["tmp"] = r.mem.n["tmp"] + 1)
  <2> SUFFICES ASSUME NEW r \in R
               PROVE  /\ Move(r) \in R
                      /\ Move(r).node # NULL => Move(r).mem.n["tmp"] = r.mem.n["tmp"] + 1
    OBVIOUS
  <2>1. CASE r.node = NULL
    BY <2>1 DEF Move
  <2>2. CASE r.node # NULL
    <3>1. Moving(M, S, a, k, Move(r)) /\ Move(r).mem.n["tmp"] = r.mem.n["tmp"] + 1
      BY <2>2, MoveKeeps
    <3>2. Move(r) \in [node : Ptr, mem : Mem]
      <4>1. Move(r).node \in Ptr /\ Move(r).mem \in Mem
        BY <3>1 DEF Moving
      <4>2. Move(r) = [node |-> Move(r).node, mem |-> Move(r).mem]
        BY <2>2 DEF Move
      <4> HIDE DEF R
      <4> QED BY <4>1, <4>2
    <3> QED BY <3>1, <3>2
  <2> QED BY <2>1, <2>2
<1> HIDE DEF base, R, N
<1>4. PICK f \in [0..N -> R] : Follows(step, base, f, N)
  <2>1. step \in [R -> R]
    BY <1>3
  <2> HIDE DEF step
  <2> QED BY <1>1, <1>2, <2>1, FunctionExists
<1>5. f = [j \in 0..N |-> IF j = 0 THEN base ELSE Move(f[j - 1])]
  <2>1. \A j \in 0..N : j # 0 => step[f[j - 1]] = Move(f[j - 1])
    BY <1>1
  <2> HIDE DEF step
  <2> QED BY <1>4, <2>1 DEF Follows
<1>6. after = [j \in 0..N |-> IF j = 0 THEN base ELSE Move(after[j - 1])]
  BY <1>5, Zenon DEF N, base
<1>each. \A i \in 0..N : after[i] = IF i = 0 THEN base ELSE Move(after[i - 1])
  BY <1>6, Zenon
<1> HIDE DEF step
<1> DEFINE K == {j \in Nat : j <= N =>
                   after[j] \in R /\ (after[j].node # NULL => after[j].mem.n["tmp"] = j)}
<1>7. K = Nat
  <2>1. 0 \in K
    <3>1. after[0] = base
      <4>1. 0 \in 0..N
        BY <1>1
      <4> QED BY <1>6, <4>1, Zenon
    <3> QED BY <1>2, <3>1
  <2>2. ASSUME NEW j \in K PROVE j + 1 \in K
    <3> SUFFICES ASSUME j + 1 <= N
                 PROVE  /\ after[j + 1] \in R
                        /\ after[j + 1].node # NULL => after[j + 1].mem.n["tmp"] = j + 1
      OBVIOUS
    <3>1. /\ after[j] \in R /\ (after[j].node # NULL => after[j].mem.n["tmp"] = j)
          /\ after[j + 1] = Move(after[j])
      <4>1. j \in Nat /\ j <= N /\ j + 1 \in 0..N /\ j + 1 # 0 /\ j + 1 - 1 = j
        BY <1>1
      <4>2. after[j + 1] = IF j + 1 = 0 THEN base ELSE Move(after[j + 1 - 1])
        BY <1>each, <4>1
      <4>3. after[j + 1] = Move(after[j])
        BY <4>1, <4>2, Zenon
      <4> QED BY <4>1, <4>3
    <3>2. after[j].node = NULL => Move(after[j]) = after[j]
      BY DEF Move
    <3> QED BY <1>3, <3>1, <3>2
  <2>3. K \in SUBSET Nat
    OBVIOUS
  <2> HIDE DEF K
  <2> QED BY <2>1, <2>2, <2>3, SetInduction
<1> DEFINE r == after[N]
<1>8. r \in R /\ (r.node # NULL => r.mem.n["tmp"] = N)
  BY <1>1, <1>7
<1> HIDE DEF K, r
<1>9. Moving(M, S, a, k, r)
  BY <1>8 DEF R
<1>10. r.node = NULL
  <2> SUFFICES ASSUME r.node # NULL PROVE FALSE
    OBVIOUS
  <2>1. PICK left \in SUBSET S, p, q \in [HmapNodes -> Nat] :
          r.mem.n["tmp"] = Cardinality(S \ left) /\ Ahead(r.mem, left, r.node, p)
    BY <1>9 DEF Moving
  <2>2. S \ left \in SUBSET HmapNodes /\ r.node \in HmapNodes \ (S \ left)
    BY <2>1 DEF Ahead, Grows, Kept
  <2>3. Cardinality(S \ left) = N
    BY <1>8, <2>1
  <2>4. S \ left = HmapNodes
    BY <1>1, <2>2, <2>3, FS_Subset DEF N
  <2> QED BY <2>2, <2>4
<1> QED BY <1>9, <1>10 DEF r, N

\* malloc finds an array that is not in use.
LEMMA ArrayLeft ==
  ASSUME NEW M, NEW S, Kept(M, S), NEW k \in Nat \ {0}
  PROVE  Grows(M, S, CHOOSE a \in Arrays : M.array[a] = Freed, k)
<1> DEFINE a == CHOOSE a \in Arrays : M.array[a] = Freed
<1>1. \E b \in Arrays : M.array[b] = Freed
  <2>1. PICK b, c \in Arrays : b # c
    BY HmapAssumption
  <2>2. b # M.buckets["hmap"] \/ c # M.buckets["hmap"]
    BY <2>1
  <2> QED BY <2>2 DEF Kept
<1>2. a \in Arrays /\ M.array[a] = Freed
  BY <1>1, Zenon
<1>3. M.array[M.buckets["hmap"]] # Freed
  <2>1. /\ M.mask["hmap"] \in Nat /\ DOMAIN M.array[M.buckets["hmap"]] = 0..M.mask["hmap"]
    BY DEF Kept, Open, Front, Mem, Structs
  <2>2. 0 \in DOMAIN M.array[M.buckets["hmap"]] /\ 0 \notin DOMAIN Freed
    BY <2>1 DEF Freed
  <2> QED BY <2>2
<1> HIDE DEF a
<1>4. a # M.buckets["hmap"]
  BY <1>2, <1>3
<1> QED BY <1>2, <1>4 DEF Grows, a

\* The exchange of the structs, before the pointers into them are set right.
LEMMA SwapIs ==
  ASSUME NEW T \in Mem
  PROVE  \E X \in Mem :
           /\ HmapSwap(T, "hmap", "tmp") = HmapMoved(HmapMoved(X, "hmap"), "tmp")
           /\ X.hash = T.hash /\ X.next = T.next
           /\ X.buckets["hmap"] = T.buckets["tmp"] /\ X.buckets["tmp"] = T.buckets["hmap"]
           /\ X.mask["hmap"] = T.mask["tmp"] /\ X.mask["tmp"] = T.mask["hmap"]
           /\ X.n["hmap"] = T.n["tmp"] /\ X.array["hmap"] = T.array["tmp"]
           /\ \A c \in Arrays : X.array[c] = T.array[c]
<1> DEFINE X == [T EXCEPT !.buckets["hmap"] = T.buckets["tmp"], !.buckets["tmp"] = T.buckets["hmap"],
                          !.array["hmap"] = T.array["tmp"], !.array["tmp"] = T.array["hmap"],
                          !.mask["hmap"] = T.mask["tmp"], !.mask["tmp"] = T.mask["hmap"],
                          !.n["hmap"] = T.n["tmp"], !.n["tmp"] = T.n["hmap"]]
           B == T.buckets A == T.array K == T.mask C == T.n
           b == [[B EXCEPT !["hmap"] = B["tmp"]] EXCEPT !["tmp"] = B["hmap"]]
           ar == [[A EXCEPT !["hmap"] = A["tmp"]] EXCEPT !["tmp"] = A["hmap"]]
           mk == [[K EXCEPT !["hmap"] = K["tmp"]] EXCEPT !["tmp"] = K["hmap"]]
           n == [[C EXCEPT !["hmap"] = C["tmp"]] EXCEPT !["tmp"] = C["hmap"]]
<1>1. T = [buckets |-> B, array |-> A, mask |-> K, n |-> C, hash |-> T.hash, next |-> T.next]
  BY DEF Mem
<1>2. X = [[[[T EXCEPT !.buckets = b] EXCEPT !.array = ar] EXCEPT !.mask = mk] EXCEPT !.n = n]
  BY <1>1
<1> HIDE DEF b, ar, mk, n
<1>3. X = [buckets |-> b, array |-> ar, mask |-> mk, n |-> n, hash |-> T.hash, next |-> T.next]
  <2> HIDE DEF X
  <2> QED BY <1>1, <1>2
<1>4. HmapSwap(T, "hmap", "tmp") = HmapMoved(HmapMoved(X, "hmap"), "tmp")
  BY Zenon DEF HmapSwap
<1>5. /\ B \in [Structs -> Stores] /\ K \in [Structs -> Nat] /\ C \in [Structs -> Int]
      /\ A \in [Stores -> UNION {[D -> Ptr] : D \in SUBSET Nat}]
      /\ T.hash \in [HmapNodes -> Nat] /\ T.next \in [HmapNodes -> Ptr]
  BY DEF Mem
<1>6. /\ "hmap" \in Stores /\ "tmp" \in Stores /\ "hmap" \notin Arrays /\ "tmp" \notin Arrays
      /\ Arrays \subseteq Stores /\ "hmap" # "tmp" /\ "hmap" \in Structs /\ "tmp" \in Structs
  BY HmapAssumption DEF Stores, Structs
<1> HIDE DEF B, A, K, C, X
<1>7. b \in [Structs -> Stores] /\ b["hmap"] = B["tmp"] /\ b["tmp"] = B["hmap"]
  BY <1>5, <1>6 DEF b
<1>8. mk \in [Structs -> Nat] /\ mk["hmap"] = K["tmp"] /\ mk["tmp"] = K["hmap"]
  BY <1>5, <1>6 DEF mk
<1>9. n \in [Structs -> Int] /\ n["hmap"] = C["tmp"]
  BY <1>5, <1>6 DEF n
<1>10. /\ ar \in [Stores -> UNION {[D -> Ptr] : D \in SUBSET Nat}]
       /\ ar["hmap"] = A["tmp"] /\ \A c \in Arrays : ar[c] = A[c]
  BY <1>5, <1>6 DEF ar
<1>11. X \in Mem
  BY <1>3, <1>5, <1>7, <1>8, <1>9, <1>10 DEF Mem
<1>12. /\ X.hash = T.hash /\ X.next = T.next
       /\ X.buckets["hmap"] = T.buckets["tmp"] /\ X.buckets["tmp"] = T.buckets["hmap"]
       /\ X.mask["hmap"] = T.mask["tmp"] /\ X.mask["tmp"] = T.mask["hmap"]
       /\ X.n["hmap"] = T.n["tmp"] /\ X.array["hmap"] = T.array["tmp"]
       /\ \A c \in Arrays : X.array[c] = T.array[c]
  BY <1>3, <1>7, <1>8, <1>9, <1>10 DEF B, K, C, A
<1> QED BY <1>4, <1>11, <1>12

\* resize: tmp takes the place of the table, whose old array is freed.
LEMMA ResizeKeeps ==
  ASSUME NEW M, NEW S, Kept(M, S), NEW k \in Nat \ {0}
  PROVE  Kept(Resize(M, k), S) /\ Resize(M, k).mask["hmap"] = k
<1> DEFINE a == CHOOSE a \in Arrays : M.array[a] = Freed
           after == CHOOSE w : w = [j \in 0..Cardinality(HmapNodes) |->
             IF j = 0 THEN [node |-> HmapFirst(M, "hmap"), mem |-> Bare(M, a, k)]
             ELSE Move(w[j - 1])]
           r == after[Cardinality(HmapNodes)]
           T == r.mem
           b == M.buckets["hmap"]
           one == [i \in {0} |-> NULL]
<1>1. Resize(M, k) = HmapDestroy(HmapSwap(T, "hmap", "tmp"), "tmp")
  BY Zenon DEF Resize, Bare
<1>2. Grows(M, S, a, k)
  BY ArrayLeft
<1>3. Moving(M, S, a, k, r) /\ r.node = NULL
  <2> HIDE DEF a, after
  <2>1. after = CHOOSE w : w = [j \in 0..Cardinality(HmapNodes) |->
          IF j = 0 THEN [node |-> HmapFirst(M, "hmap"), mem |-> Bare(M, a, k)]
          ELSE Move(w[j - 1])]
    BY DEF after
  <2> QED BY <1>2, <2>1, LoopsMoveAll
<1> HIDE DEF after, a, r
<1>4. PICK q \in [HmapNodes -> Nat] :
        /\ T.n["tmp"] = Cardinality(S)
        /\ Chains(S, Front(T, "tmp"), T.next, Slots(T, "tmp"), q)
  <2>1. PICK left \in SUBSET S, p, q \in [HmapNodes -> Nat] :
          /\ T.n["tmp"] = Cardinality(S \ left)
          /\ Chains(S \ left, Front(T, "tmp"), T.next, Slots(T, "tmp"), q)
          /\ left = {}
    BY <1>3 DEF Moving
  <2>2. S \ left = S
    BY <2>1
  <2> QED BY <2>1, <2>2
<1>5. /\ T \in Mem /\ Open(T, "tmp") /\ Front(T, "tmp") = T.array[a]
      /\ T.buckets["hmap"] = b /\ T.buckets["tmp"] = a
      /\ T.mask["hmap"] = M.mask["hmap"] /\ T.mask["tmp"] = k
      /\ T.hash = M.hash /\ \A x \in HmapNodes \ S : T.next[x] = NULL
      /\ T.array["tmp"] = one
      /\ \A c \in Stores \ {a, "tmp"} : T.array[c] = M.array[c]
  <2>1. /\ T.buckets["hmap"] = b /\ T.buckets["tmp"] = a
        /\ T.mask["hmap"] = M.mask["hmap"] /\ T.mask["tmp"] = k
    BY <1>2, <1>3, MovingOpen
  <2>2. /\ T \in Mem /\ Open(T, "tmp") /\ T.hash = M.hash
        /\ \A x \in HmapNodes \ S : T.next[x] = NULL
        /\ T.array["tmp"] = one
        /\ \A c \in Stores \ {a, "tmp"} : T.array[c] = M.array[c]
    BY <1>3 DEF Moving
  <2> QED BY <2>1, <2>2 DEF Front
<1>6. /\ M \in Mem /\ S \in SUBSET HmapNodes /\ a \in Arrays /\ a # b /\ k \in Nat /\ k # 0
      /\ b \in Arrays \cup {"hmap"} /\ (M.mask["hmap"] = 0 <=> b = "hmap")
      /\ M.array["hmap"] # Freed /\ \A c \in Arrays : c # b => M.array[c] = Freed
      /\ \A x \in S : M.hash[x] = HashOf[x]
  BY <1>2 DEF Grows, Kept
<1>7. /\ Arrays \cup {"hmap", "tmp"} \subseteq Stores
      /\ "hmap" \notin Arrays /\ "tmp" \notin Arrays /\ "hmap" # "tmp"
      /\ Structs = {"hmap", "tmp"}
  BY HmapAssumption DEF Stores, Structs
<1>8. one # Freed /\ one \in UNION {[D -> Ptr] : D \in SUBSET Nat}
      /\ Freed \in UNION {[D -> Ptr] : D \in SUBSET Nat}
  <2>1. 0 \in DOMAIN one /\ 0 \notin DOMAIN Freed
    BY DEF Freed
  <2>2. one \in [{0} -> Ptr] /\ {0} \in SUBSET Nat /\ Freed \in [{} -> Ptr] /\ {} \in SUBSET Nat
    BY DEF Freed, Ptr
  <2> QED BY <2>1, <2>2
<1> HIDE DEF T, b, one
\* The two structs are exchanged.
<1>9. PICK X \in Mem :
        /\ HmapSwap(T, "hmap", "tmp") = HmapMoved(HmapMoved(X, "hmap"), "tmp")
        /\ X.hash = T.hash /\ X.next = T.next
        /\ X.buckets["hmap"] = a /\ X.buckets["tmp"] = b
        /\ X.mask["hmap"] = k /\ X.mask["tmp"] = M.mask["hmap"]
        /\ X.n["hmap"] = Cardinality(S) /\ X.array["hmap"] = one
        /\ \A c \in Arrays : X.array[c] = T.array[c]
  BY <1>4, <1>5, SwapIs
<1>11. HmapMoved(X, "hmap") = X
  BY <1>6, <1>9 DEF HmapMoved
<1> DEFINE V == Resize(M, k)
\* The old array, if it is not inside the struct, is freed.
<1>12. /\ V \in Mem /\ V.hash = M.hash /\ V.next = T.next
       /\ V.buckets["hmap"] = a /\ V.mask["hmap"] = k /\ V.n["hmap"] = Cardinality(S)
       /\ V.array["hmap"] = one /\ V.array[a] = T.array[a]
       /\ \A c \in Arrays : c # a => V.array[c] = Freed
  <2>1. CASE M.mask["hmap"] = 0
    <3> DEFINE Y == [X EXCEPT !.buckets["tmp"] = "tmp"]
    <3>1. HmapMoved(X, "tmp") = Y
      BY <1>9, <2>1 DEF HmapMoved
    <3>2. /\ Y.buckets = [X.buckets EXCEPT !["tmp"] = "tmp"]
          /\ Y.array = X.array /\ Y.mask = X.mask /\ Y.n = X.n /\ Y.hash = X.hash /\ Y.next = X.next
          /\ Y = [buckets |-> Y.buckets, array |-> Y.array, mask |-> Y.mask, n |-> Y.n,
                  hash |-> Y.hash, next |-> Y.next]
      <4>1. X \in Mem
        BY <1>9
      <4> QED BY <4>1 DEF Mem
    <3> HIDE DEF Y
    <3>3. Y \in Mem /\ Y.buckets["tmp"] = "tmp" /\ Y.buckets["hmap"] = a
      BY <1>7, <1>9, <3>2 DEF Mem
    <3>4. HmapDestroy(Y, "tmp") = Y
      BY <3>3 DEF HmapDestroy
    <3>5. V = Y
      BY <1>1, <1>9, <1>11, <3>1, <3>4
    <3>6. \A c \in Arrays : c # a => T.array[c] = Freed
      BY <1>5, <1>6, <1>7, <2>1
    <3> HIDE DEF V
    <3> QED BY <1>5, <1>6, <1>9, <3>2, <3>3, <3>5, <3>6
  <2>2. CASE M.mask["hmap"] # 0
    <3> DEFINE Y == [X EXCEPT !.array[b] = Freed]
    <3>1. HmapMoved(X, "tmp") = X
      BY <1>9, <2>2 DEF HmapMoved
    <3>2. b \in Arrays /\ b # "tmp"
      BY <1>6, <1>7, <2>2
    <3>3. HmapDestroy(X, "tmp") = Y
      BY <1>9, <3>2 DEF HmapDestroy
    <3>4. /\ Y.array = [X.array EXCEPT ![b] = Freed]
          /\ Y.buckets = X.buckets /\ Y.mask = X.mask /\ Y.n = X.n /\ Y.hash = X.hash
          /\ Y.next = X.next
          /\ Y = [buckets |-> Y.buckets, array |-> Y.array, mask |-> Y.mask, n |-> Y.n,
                  hash |-> Y.hash, next |-> Y.next]
      <4> DEFINE ar == [X.array EXCEPT ![b] = Freed]
      <4>1. X = [buckets |-> X.buckets, array |-> X.array, mask |-> X.mask, n |-> X.n,
                 hash |-> X.hash, next |-> X.next]
        BY DEF Mem
      <4>2. Y = [X EXCEPT !.array = ar]
        BY <4>1
      <4> HIDE DEF ar, Y
      <4>3. Y = [buckets |-> X.buckets, array |-> ar, mask |-> X.mask, n |-> X.n,
                 hash |-> X.hash, next |-> X.next]
        BY <4>1, <4>2
      <4> QED BY <4>3 DEF ar
    <3> HIDE DEF Y
    <3>5. X.array \in [Stores -> UNION {[D -> Ptr] : D \in SUBSET Nat}] /\ b \in Stores
          /\ "hmap" \in Stores /\ a \in Stores /\ Arrays \subseteq Stores
      BY <1>6, <1>7, <1>9, <3>2 DEF Mem
    <3>6. /\ Y.array \in [Stores -> UNION {[D -> Ptr] : D \in SUBSET Nat}]
          /\ Y.array["hmap"] = one /\ Y.array[a] = X.array[a] /\ Y.array[b] = Freed
          /\ \A c \in Arrays : c # b => Y.array[c] = X.array[c]
      BY <1>6, <1>7, <1>8, <1>9, <3>2, <3>4, <3>5
    <3>7. Y \in Mem
      <4>1. /\ X.buckets \in [Structs -> Stores] /\ X.mask \in [Structs -> Nat]
            /\ X.n \in [Structs -> Int] /\ X.hash \in [HmapNodes -> Nat]
            /\ X.next \in [HmapNodes -> Ptr]
        BY <1>9 DEF Mem
      <4> QED BY <3>4, <3>6, <4>1 DEF Mem
    <3>8. V = Y
      BY <1>1, <1>9, <1>11, <3>1, <3>3
    <3>9. \A c \in Arrays : c # a => Y.array[c] = Freed
      BY <1>5, <1>6, <1>7, <1>9, <3>6
    <3> HIDE DEF V
    <3> QED BY <1>5, <1>6, <1>9, <3>4, <3>6, <3>7, <3>8, <3>9
  <2> QED BY <2>1, <2>2
<1> HIDE DEF V
<1>13. /\ Front(V, "hmap") = Front(T, "tmp") /\ Open(V, "hmap") /\ Slots(V, "hmap") = Slots(T, "tmp")
  BY <1>5, <1>12 DEF Front, Open, Slots, Slot
<1>14. \E pos \in [HmapNodes -> Nat] :
         Chains(S, Front(V, "hmap"), V.next, Slots(V, "hmap"), pos)
  BY <1>4, <1>12, <1>13
<1>15. Kept(V, S)
  BY <1>5, <1>6, <1>7, <1>8, <1>12, <1>13, <1>14 DEF Kept
<1> QED BY <1>12, <1>15 DEF V

\* Only the table and the nodes matter.
LEMMA KeptSame ==
  ASSUME NEW M, NEW S, Kept(M, S), NEW V \in Mem, V.hash = M.hash, V.next = M.next,
         V.buckets["hmap"] = M.buckets["hmap"], V.mask["hmap"] = M.mask["hmap"],
         V.n["hmap"] = M.n["hmap"], \A c \in Arrays \cup {"hmap"} : V.array[c] = M.array[c]
  PROVE  Kept(V, S)
<1>1. Front(V, "hmap") = Front(M, "hmap") /\ Slots(V, "hmap") = Slots(M, "hmap")
  BY DEF Kept, Front, Slots, Slot
<1>2. Open(V, "hmap")
  BY <1>1 DEF Kept, Open
<1>3. \E pos \in [HmapNodes -> Nat] :
        Chains(S, Front(V, "hmap"), V.next, Slots(V, "hmap"), pos)
  BY <1>1 DEF Kept
<1> QED BY <1>2, <1>3 DEF Kept

LEMMA LeaveResizeKeeps ==
  ASSUME NEW M, NEW S, Kept(M, S)
  PROVE  Kept(LeaveResize(M), S) /\ LeaveResize(M).mask["hmap"] = M.mask["hmap"]
         /\ LeaveResize(M).n["hmap"] = M.n["hmap"]
<1> DEFINE V == LeaveResize(M)
<1>1. M \in Mem
  BY DEF Kept
<1>2. /\ V.buckets = [M.buckets EXCEPT !["tmp"] = "none"]
      /\ V.array = [M.array EXCEPT !["tmp"] = Freed]
      /\ V.mask = [M.mask EXCEPT !["tmp"] = 0]
      /\ V.n = [M.n EXCEPT !["tmp"] = 0]
      /\ V.hash = M.hash /\ V.next = M.next
      /\ V = [buckets |-> V.buckets, array |-> V.array, mask |-> V.mask, n |-> V.n,
              hash |-> V.hash, next |-> V.next]
  <2> DEFINE b == [M.buckets EXCEPT !["tmp"] = "none"]
             ar == [M.array EXCEPT !["tmp"] = Freed]
             mk == [M.mask EXCEPT !["tmp"] = 0]
             n == [M.n EXCEPT !["tmp"] = 0]
  <2>1. M = [buckets |-> M.buckets, array |-> M.array, mask |-> M.mask, n |-> M.n,
             hash |-> M.hash, next |-> M.next]
    BY <1>1 DEF Mem
  <2>2. V = [[[[M EXCEPT !.buckets = b] EXCEPT !.array = ar] EXCEPT !.mask = mk] EXCEPT !.n = n]
    BY <2>1 DEF LeaveResize
  <2> HIDE DEF b, ar, mk, n, V
  <2>3. V = [buckets |-> b, array |-> ar, mask |-> mk, n |-> n, hash |-> M.hash, next |-> M.next]
    BY <2>1, <2>2
  <2> QED BY <2>3 DEF b, ar, mk, n
<1> HIDE DEF V
<1>3. /\ M.buckets \in [Structs -> Stores] /\ M.mask \in [Structs -> Nat]
      /\ M.n \in [Structs -> Int] /\ M.hash \in [HmapNodes -> Nat] /\ M.next \in [HmapNodes -> Ptr]
      /\ M.array \in [Stores -> UNION {[D -> Ptr] : D \in SUBSET Nat}]
  BY <1>1 DEF Mem
<1>4. /\ "tmp" \in Structs /\ "hmap" \in Structs /\ "none" \in Stores /\ "hmap" # "tmp"
      /\ "tmp" \notin Arrays /\ Arrays \cup {"hmap", "tmp"} \subseteq Stores
  BY HmapAssumption DEF Structs, Stores
<1>5. Freed \in UNION {[D -> Ptr] : D \in SUBSET Nat}
  <2>1. Freed \in [{} -> Ptr] /\ {} \in SUBSET Nat
    BY DEF Freed
  <2> QED BY <2>1
<1>6. /\ V.buckets \in [Structs -> Stores] /\ V.mask \in [Structs -> Nat]
      /\ V.n \in [Structs -> Int]
      /\ V.buckets["hmap"] = M.buckets["hmap"] /\ V.mask["hmap"] = M.mask["hmap"]
      /\ V.n["hmap"] = M.n["hmap"]
  BY <1>2, <1>3, <1>4
<1>7. /\ V.array \in [Stores -> UNION {[D -> Ptr] : D \in SUBSET Nat}]
      /\ \A c \in Arrays \cup {"hmap"} : V.array[c] = M.array[c]
  BY <1>2, <1>3, <1>4, <1>5
<1>8. V \in Mem
  BY <1>2, <1>3, <1>6, <1>7 DEF Mem
<1>9. Kept(V, S)
  BY <1>2, <1>6, <1>7, <1>8, KeptSame
<1> QED BY <1>6, <1>9 DEF V

\* An array in use is not taken for one that is free.
LEMMA FrontIsAllocated ==
  ASSUME NEW M \in Mem, Open(M, "hmap")
  PROVE  Front(M, "hmap") # Freed
<1>1. M.mask["hmap"] \in Nat /\ DOMAIN Front(M, "hmap") = 0..M.mask["hmap"]
  BY DEF Open, Mem, Structs
<1>2. 0 \in DOMAIN Front(M, "hmap") /\ 0 \notin DOMAIN Freed
  BY <1>1 DEF Freed
<1> QED BY <1>2

LEMMA InsertFastKeeps ==
  ASSUME NEW M, NEW S, Kept(M, S), NEW x \in HmapNodes \ S
  PROVE  Kept(HmapInsertFast(M, "hmap", x, HashOf[x]), S \cup {x})
<1> DEFINE I == HmapInsertFast(M, "hmap", x, HashOf[x])
           i == Slot(M, "hmap", HashOf[x])
           T == S \cup {x}
<1>1. /\ M \in Mem /\ Open(M, "hmap") /\ S \in SUBSET HmapNodes /\ "hmap" \in Structs
      /\ HashOf[x] \in Nat /\ x \in HmapNodes /\ x \notin S /\ T \in SUBSET HmapNodes
  BY HmapAssumption DEF Kept, Structs
<1>2. I \in Mem /\ Open(I, "hmap") /\ PutInFront(M, "hmap", x, HashOf[x], i, I)
  <2> HIDE DEF I, i
  <2> QED BY <1>1, InsertFastIs DEF I, i
<1> HIDE DEF I
<1>3. /\ I.buckets = M.buckets /\ I.mask = M.mask
      /\ I.n = [M.n EXCEPT !["hmap"] = @ + 1]
      /\ I.hash = [M.hash EXCEPT ![x] = HashOf[x]]
      /\ I.next = [M.next EXCEPT ![x] = Front(M, "hmap")[i]]
      /\ Front(I, "hmap") = [Front(M, "hmap") EXCEPT ![i] = x]
      /\ \A a \in Stores : a # M.buckets["hmap"] => I.array[a] = M.array[a]
  BY <1>2 DEF PutInFront
<1>4. /\ M.n \in [Structs -> Int] /\ M.hash \in [HmapNodes -> Nat] /\ M.next \in [HmapNodes -> Ptr]
      /\ M.mask["hmap"] \in Nat
  BY <1>1 DEF Mem
<1>5. I.n["hmap"] = Cardinality(T)
  <2>1. IsFiniteSet(S) /\ Cardinality(T) = Cardinality(S) + 1
    BY <1>1, HmapAssumption, FS_Subset, FS_AddElement
  <2> QED BY <1>1, <1>3, <1>4, <2>1 DEF Kept
<1>6. /\ \A y \in T : I.hash[y] = HashOf[y]
      /\ \A y \in HmapNodes \ T : I.next[y] = NULL
  BY <1>1, <1>3, <1>4 DEF Kept
<1>7. PICK pos \in [HmapNodes -> Nat] :
        Chains(S, Front(M, "hmap"), M.next, Slots(M, "hmap"), pos)
  BY DEF Kept
<1>8. \E p \in [HmapNodes -> Nat] :
        Chains(T, Front(I, "hmap"), I.next, Slots(I, "hmap"), p)
  <2> DEFINE firsts == Front(M, "hmap")
             slot == Slots(I, "hmap")
             k == M.mask["hmap"]
  <2>1. /\ firsts \in [0..k -> Ptr] /\ slot \in [HmapNodes -> Nat] /\ slot[x] \in 0..k
        /\ slot[x] = Slot(I, "hmap", I.hash[x])
    BY <1>1, <1>2, <1>3, SlotsType DEF Open
  <2>2. slot[x] = i
    BY <1>1, <1>3, <1>4, <2>1 DEF Slot
  <2>3. \A y \in S : slot[y] = Slots(M, "hmap")[y]
    <3> SUFFICES ASSUME NEW y \in S PROVE slot[y] = Slots(M, "hmap")[y]
      OBVIOUS
    <3>1. I.hash[y] = M.hash[y] /\ y \in HmapNodes
      BY <1>1, <1>3, <1>4
    <3> QED BY <1>3, <3>1 DEF Slots, Slot
  <2>4. /\ Front(I, "hmap") = [firsts EXCEPT ![slot[x]] = x]
        /\ I.next = [M.next EXCEPT ![x] = firsts[slot[x]]]
    BY <1>3, <2>2
  <2>5. Chains(S, firsts, M.next, slot, pos)
    <3> HIDE DEF slot
    <3> QED BY <1>7, <2>3, ChainsSame
  <2> HIDE DEF firsts, slot, k
  <2>6. \E p \in [HmapNodes -> Nat] :
          Chains(S \cup {x}, [firsts EXCEPT ![slot[x]] = x],
                 [M.next EXCEPT ![x] = firsts[slot[x]]], slot, p)
    BY <1>1, <1>4, <2>1, <2>5, ChainsPush DEF k
  <2> QED BY <2>4, <2>6 DEF slot
<1>9. I.array["hmap"] # Freed
  <2>1. CASE M.buckets["hmap"] = "hmap"
    BY <1>2, <1>3, <2>1, FrontIsAllocated DEF Front
  <2>2. CASE M.buckets["hmap"] # "hmap"
    BY <1>3, <2>2 DEF Kept, Stores
  <2> QED BY <2>1, <2>2
<1>10. \A a \in Arrays : a # I.buckets["hmap"] => I.array[a] = Freed
  BY <1>3 DEF Kept, Stores
<1>11. Kept(I, T)
  BY <1>1, <1>2, <1>3, <1>5, <1>6, <1>8, <1>9, <1>10 DEF Kept
<1> QED BY <1>11 DEF I

\* hmap_insert: the node is in the table, which has grown if it was to.
LEMMA InsertKeeps ==
  ASSUME NEW M, NEW S, Kept(M, S), NEW x \in HmapNodes \ S
  PROVE  LET V == HmapInsert(M, x, HashOf[x])
         IN Kept(V, S \cup {x}) /\ V.n["hmap"] \div 2 <= V.mask["hmap"]
<1> DEFINE V == HmapInsert(M, x, HashOf[x])
           I == HmapInsertFast(M, "hmap", x, HashOf[x])
           T == S \cup {x}
           n == I.n["hmap"]
           k == CalcMask(n)
<1>1. Kept(I, T)
  BY InsertFastKeeps
<1>2. n = Cardinality(T) /\ n \in Nat /\ I.mask["hmap"] \in Nat
  <2>1. IsFiniteSet(T)
    BY <1>1, HmapAssumption, FS_Subset DEF Kept
  <2>2. n = Cardinality(T) /\ I \in Mem /\ "hmap" \in Structs
    BY <1>1 DEF Kept, Structs
  <2> HIDE DEF I
  <2> QED BY <2>1, <2>2, FS_CardinalityType DEF Mem
<1>3. V = IF n \div 2 > I.mask["hmap"] THEN HmapExpand(I) ELSE I
  BY Zenon DEF HmapInsert
<1> HIDE DEF V, I, n, T
<1>4. CASE n \div 2 > I.mask["hmap"]
  <2>1. k \in Nat /\ n \div 2 <= k
    BY <1>2, CalcMaskIs
  <2> HIDE DEF k
  <2>2. k > I.mask["hmap"] /\ k \in Nat \ {0}
    BY <1>2, <1>4, <2>1
  <2>3. V = Resize(I, k)
    <3>1. V = HmapExpand(I)
      BY <1>3, <1>4
    <3> QED BY <2>2, <3>1 DEF HmapExpand, k, n
  <2>4. Kept(V, T) /\ V.mask["hmap"] = k
    BY <1>1, <2>2, <2>3, ResizeKeeps
  <2>5. V.n["hmap"] = n
    BY <1>2, <2>4 DEF Kept
  <2> QED BY <2>1, <2>4, <2>5 DEF V, T
<1>5. CASE ~(n \div 2 > I.mask["hmap"])
  <2>1. V = I
    BY <1>3, <1>5
  <2> QED BY <1>1, <1>2, <1>5, <2>1 DEF n, V, T
<1> QED BY <1>4, <1>5

\* hmap_remove's and hmap_replace's search: to takes the place of x in the
\* bucket or in the node before.
Unlinked(M, S, x, to, U) ==
  /\ U.buckets = M.buckets /\ U.mask = M.mask /\ U.n = M.n /\ U.hash = M.hash
  /\ \A c \in Stores : c # M.buckets["hmap"] => U.array[c] = M.array[c]
  /\ LET firsts == Front(M, "hmap")
         i == Slots(M, "hmap")[x]
     IN \/ firsts[i] = x /\ Front(U, "hmap") = [firsts EXCEPT ![i] = to] /\ U.next = M.next
        \/ \E w \in S : /\ M.next[w] = x /\ U.next = [M.next EXCEPT ![w] = to]
                        /\ firsts[i] # x /\ Front(U, "hmap") = firsts

LEMMA UnlinkIs ==
  ASSUME NEW M, NEW S, Kept(M, S), NEW x \in S, NEW to \in Ptr,
         NEW U, U = Unlink(M, x, to)
  PROVE  U \in Mem /\ Open(U, "hmap") /\ Unlinked(M, S, x, to, U)
<1> DEFINE firsts == Front(M, "hmap")
           i == Slot(M, "hmap", M.hash[x])
           b == M.buckets["hmap"]
           before == {w \in HmapNodes : M.next[w] = x}
           w == CHOOSE v \in before : TRUE
           k == M.mask["hmap"]
<1>1. /\ M \in Mem /\ Open(M, "hmap") /\ S \in SUBSET HmapNodes /\ "hmap" \in Structs
      /\ x \in HmapNodes /\ x # NULL
  BY HmapAssumption DEF Kept, Structs
<1>2. /\ i \in 0..k /\ i = Slots(M, "hmap")[x] /\ k \in Nat /\ b \in Stores
      /\ firsts \in [0..k -> Ptr] /\ M.next \in [HmapNodes -> Ptr]
      /\ M.array \in [Stores -> UNION {[D -> Ptr] : D \in SUBSET Nat}]
  <2>1. i = Slots(M, "hmap")[x] /\ i \in 0..k
    <3> HIDE DEF i, k
    <3> QED BY <1>1, SlotsType DEF i, k
  <2>2. /\ k \in Nat /\ b \in Stores /\ firsts \in [0..k -> Ptr]
        /\ M.next \in [HmapNodes -> Ptr]
        /\ M.array \in [Stores -> UNION {[D -> Ptr] : D \in SUBSET Nat}]
    BY <1>1 DEF Open, Mem
  <2> HIDE DEF i, k, b, firsts
  <2> QED BY <2>1, <2>2
<1>3. M = [buckets |-> M.buckets, array |-> M.array, mask |-> M.mask, n |-> M.n,
           hash |-> M.hash, next |-> M.next]
  BY <1>1 DEF Mem
<1>4. /\ firsts[i] = x => U = [M EXCEPT !.array[b][i] = to]
      /\ firsts[i] # x => U = [M EXCEPT !.next[w] = to]
  <2> HIDE DEF w
  <2> QED BY DEF Unlink, Bucket, Front, w
<1>5. /\ M.buckets \in [Structs -> Stores] /\ M.mask \in [Structs -> Nat]
      /\ M.n \in [Structs -> Int] /\ M.hash \in [HmapNodes -> Nat]
  BY <1>1 DEF Mem
<1>6. CASE firsts[i] = x
  <2> DEFINE new == [firsts EXCEPT ![i] = to]
             ar == [M.array EXCEPT ![b] = new]
  <2>1. U = [M EXCEPT !.array = ar]
    <3> HIDE DEF i, b
    <3> QED BY <1>3, <1>4, <1>6 DEF Front, b
  <2>2. new \in [0..k -> Ptr] /\ new \in UNION {[D -> Ptr] : D \in SUBSET Nat}
    <3>1. new \in [0..k -> Ptr] /\ 0..k \in SUBSET Nat
      BY <1>2
    <3> QED BY <3>1
  <2> HIDE DEF new
  <2>3. /\ ar \in [Stores -> UNION {[D -> Ptr] : D \in SUBSET Nat}] /\ ar[b] = new
        /\ \A c \in Stores : c # b => ar[c] = M.array[c]
    BY <1>2, <2>2
  <2> HIDE DEF ar, b, i, k, firsts
  <2>4. U = [buckets |-> M.buckets, array |-> ar, mask |-> M.mask, n |-> M.n,
             hash |-> M.hash, next |-> M.next]
    BY <1>3, <2>1
  <2>5. U \in Mem
    BY <1>2, <1>5, <2>3, <2>4 DEF Mem
  <2>6. Front(U, "hmap") = new /\ Open(U, "hmap")
    BY <2>2, <2>3, <2>4 DEF Front, Open, b, k
  <2>7. Front(U, "hmap") = [firsts EXCEPT ![i] = to]
    BY <2>6 DEF new
  <2> QED BY <1>2, <1>6, <2>3, <2>4, <2>5, <2>6, <2>7 DEF Unlinked, b, firsts
<1>7. CASE firsts[i] # x
  <2>1. PICK v \in S : M.next[v] = x
    <3>1. PICK pos \in [HmapNodes -> Nat] :
            Chains(S, firsts, M.next, Slots(M, "hmap"), pos)
      BY DEF Kept
    <3> HIDE DEF firsts, i
    <3> QED BY <1>2, <1>7, <3>1 DEF Chains
  <2>2. v \in before
    BY <1>1, <2>1
  <2>3. w \in before
    <3> HIDE DEF before
    <3> QED BY <2>2
  <2>4. w \in S /\ M.next[w] = x
    <3> HIDE DEF w
    <3> QED BY <1>1, <2>3 DEF Kept
  <2> DEFINE nx == [M.next EXCEPT ![w] = to]
  <2> HIDE DEF w
  <2>5. U = [M EXCEPT !.next = nx]
    BY <1>3, <1>4, <1>7
  <2>6. nx \in [HmapNodes -> Ptr]
    BY <1>2
  <2> HIDE DEF nx, i, firsts
  <2>7. U = [buckets |-> M.buckets, array |-> M.array, mask |-> M.mask, n |-> M.n,
             hash |-> M.hash, next |-> nx]
    BY <1>3, <2>5
  <2>8. U \in Mem
    BY <1>2, <1>5, <2>6, <2>7 DEF Mem
  <2>9. Front(U, "hmap") = firsts /\ Open(U, "hmap")
    BY <1>1, <2>7 DEF Front, Open, firsts
  <2>10. U.next = [M.next EXCEPT ![w] = to]
    BY <2>7 DEF nx
  <2> QED BY <1>2, <1>7, <2>4, <2>7, <2>8, <2>9, <2>10 DEF Unlinked, firsts
<1> QED BY <1>6, <1>7

LEMMA ArraysKept ==
  ASSUME NEW M, NEW S, Kept(M, S), NEW U \in Mem, Open(U, "hmap"), U.buckets = M.buckets,
         \A c \in Stores : c # M.buckets["hmap"] => U.array[c] = M.array[c]
  PROVE  /\ U.array["hmap"] # Freed
         /\ \A a \in Arrays : a # U.buckets["hmap"] => U.array[a] = Freed
<1>1. U.array["hmap"] # Freed
  <2>1. CASE M.buckets["hmap"] = "hmap"
    BY <2>1, FrontIsAllocated DEF Front
  <2>2. CASE M.buckets["hmap"] # "hmap"
    BY <2>2 DEF Kept, Stores
  <2> QED BY <2>1, <2>2
<1>2. \A a \in Arrays : a # U.buckets["hmap"] => U.array[a] = Freed
  BY DEF Kept, Stores
<1> QED BY <1>1, <1>2

\* hmap_remove, free: what it leaves of a walk that goes on.
LEMMA RemoveKeeps ==
  ASSUME NEW M, NEW S, Kept(M, S), NEW x \in S,
         NEW F, F = FreeNode(HmapRemove(M, x), x)
  PROVE  /\ Kept(F, S \ {x}) /\ F.mask = M.mask /\ F.n["hmap"] = M.n["hmap"] - 1
         /\ \A y \in S \ {x} : F.hash[y] = M.hash[y]
                               /\ (M.next[y] # x => F.next[y] = M.next[y])
         /\ \A j \in 0..M.mask["hmap"] :
              j # Slots(M, "hmap")[x] => Front(F, "hmap")[j] = Front(M, "hmap")[j]
<1> DEFINE to == M.next[x]
           U == Unlink(M, x, to)
           firsts == Front(M, "hmap")
           slot == Slots(M, "hmap")
           i == slot[x]
           k == M.mask["hmap"]
           T == S \ {x}
<1>1. /\ M \in Mem /\ Open(M, "hmap") /\ S \in SUBSET HmapNodes /\ "hmap" \in Structs
      /\ x \in HmapNodes /\ x # NULL /\ M.next \in [HmapNodes -> Ptr] /\ to \in Ptr
  BY HmapAssumption DEF Kept, Structs, Mem
<1>2. U \in Mem /\ Open(U, "hmap") /\ Unlinked(M, S, x, to, U)
  <2> HIDE DEF to, U
  <2> QED BY <1>1, UnlinkIs DEF U
<1>3. F = [buckets |-> U.buckets, array |-> U.array, mask |-> U.mask,
           n |-> [U.n EXCEPT !["hmap"] = @ - 1],
           hash |-> [U.hash EXCEPT ![x] = 0], next |-> [U.next EXCEPT ![x] = NULL]]
  <2> DEFINE n == [U.n EXCEPT !["hmap"] = @ - 1]
             hs == [U.hash EXCEPT ![x] = 0]
             nx == [U.next EXCEPT ![x] = NULL]
             R == [U EXCEPT !.n["hmap"] = @ - 1]
  <2>1. U = [buckets |-> U.buckets, array |-> U.array, mask |-> U.mask, n |-> U.n,
             hash |-> U.hash, next |-> U.next]
    <3> HIDE DEF U
    <3> QED BY <1>2 DEF Mem
  <2>2. F = [R EXCEPT !.next[x] = NULL, !.hash[x] = 0]
    BY DEF FreeNode, HmapRemove
  <2> HIDE DEF U
  <2>3. R = [buckets |-> U.buckets, array |-> U.array, mask |-> U.mask, n |-> n,
             hash |-> U.hash, next |-> U.next]
    BY <2>1
  <2> HIDE DEF R, n
  <2>4. F = [[R EXCEPT !.next = nx] EXCEPT !.hash = hs]
    BY <2>2, <2>3
  <2> HIDE DEF nx, hs
  <2>5. F = [buckets |-> U.buckets, array |-> U.array, mask |-> U.mask, n |-> n,
             hash |-> hs, next |-> nx]
    BY <2>3, <2>4
  <2> QED BY <2>5 DEF n, hs, nx
<1> HIDE DEF U, to
<1>4. /\ U.buckets \in [Structs -> Stores] /\ U.mask \in [Structs -> Nat]
      /\ U.n \in [Structs -> Int] /\ U.hash \in [HmapNodes -> Nat] /\ U.next \in [HmapNodes -> Ptr]
      /\ U.array \in [Stores -> UNION {[D -> Ptr] : D \in SUBSET Nat}]
  BY <1>2 DEF Mem
<1>5. /\ U.buckets = M.buckets /\ U.mask = M.mask /\ U.n = M.n /\ U.hash = M.hash
      /\ \A c \in Stores : c # M.buckets["hmap"] => U.array[c] = M.array[c]
  BY <1>2 DEF Unlinked
<1>6. \/ /\ firsts[i] = x /\ Front(U, "hmap") = [firsts EXCEPT ![i] = to] /\ U.next = M.next
      \/ \E w \in S : /\ M.next[w] = x /\ U.next = [M.next EXCEPT ![w] = to]
                      /\ firsts[i] # x /\ Front(U, "hmap") = firsts
  BY <1>2 DEF Unlinked
<1>7. /\ firsts \in [0..k -> Ptr] /\ k \in Nat /\ slot \in [HmapNodes -> Nat] /\ i \in 0..k
  <2>1. k \in Nat /\ firsts \in [0..k -> Ptr]
    BY <1>1 DEF Open, Mem
  <2>2. slot \in [HmapNodes -> Nat] /\ slot[x] \in 0..k
    <3> HIDE DEF slot, k
    <3> QED BY <1>1, SlotsType DEF slot, k
  <2> QED BY <2>1, <2>2
<1>8. /\ F.n \in [Structs -> Int] /\ F.hash \in [HmapNodes -> Nat] /\ F.next \in [HmapNodes -> Ptr]
      /\ F.buckets = M.buckets /\ F.mask = M.mask /\ F.array = U.array
      /\ F.n["hmap"] = M.n["hmap"] - 1
      /\ \A y \in HmapNodes \ {x} : F.hash[y] = M.hash[y] /\ F.next[y] = U.next[y]
      /\ F.next[x] = NULL
  BY <1>1, <1>3, <1>4, <1>5 DEF Ptr
<1>9. F \in Mem /\ Front(F, "hmap") = Front(U, "hmap") /\ Open(F, "hmap")
  <2>1. F \in Mem
    BY <1>3, <1>4, <1>8 DEF Mem
  <2> QED BY <1>2, <1>5, <1>8, <2>1 DEF Front, Open
<1>10. \A y \in T : Slots(F, "hmap")[y] = slot[y]
  BY <1>1, <1>8 DEF Slots, Slot
<1>11. PICK pos \in [HmapNodes -> Nat] : Chains(S, firsts, M.next, slot, pos)
  BY DEF Kept
<1> HIDE DEF firsts, slot, i, k
<1>12. Chains(T, Front(F, "hmap"), F.next, Slots(F, "hmap"), pos)
  <2>1. CASE firsts[i] = x /\ Front(U, "hmap") = [firsts EXCEPT ![i] = to] /\ U.next = M.next
    <3>1. firsts[slot[x]] = x
      BY <2>1 DEF i
    <3>2. Chains(S \ {x}, [firsts EXCEPT ![slot[x]] = M.next[x]], M.next, slot, pos)
      BY <1>1, <1>7, <1>11, <3>1, ChainsPop
    <3>3. Chains(T, Front(F, "hmap"), M.next, slot, pos)
      BY <1>9, <2>1, <3>2, Zenon DEF i, to, T
    <3>4. \A y \in T : F.next[y] = M.next[y]
      BY <1>1, <1>8, <2>1 DEF T
    <3> HIDE DEF T
    <3> QED BY <1>10, <3>3, <3>4, ChainsSame
  <2>2. ASSUME NEW w \in S, M.next[w] = x, U.next = [M.next EXCEPT ![w] = to],
               Front(U, "hmap") = firsts
        PROVE  Chains(T, Front(F, "hmap"), F.next, Slots(F, "hmap"), pos)
    <3>1. Chains(S \ {x}, firsts, [M.next EXCEPT ![w] = M.next[x]], slot, pos)
      BY <1>1, <1>7, <1>11, <2>2, ChainsCut
    <3>2. Chains(T, Front(F, "hmap"), U.next, slot, pos)
      BY <1>9, <2>2, <3>1, Zenon DEF to, T
    <3>3. \A y \in T : F.next[y] = U.next[y]
      BY <1>1, <1>8 DEF T
    <3> HIDE DEF T
    <3> QED BY <1>10, <3>2, <3>3, ChainsSame
  <2> QED BY <1>6, <2>1, <2>2
<1>13. \A y \in HmapNodes \ {x} : M.next[y] # x => F.next[y] = M.next[y]
  BY <1>1, <1>6, <1>8
<1>14. \A j \in 0..k : j # i => Front(F, "hmap")[j] = firsts[j]
  BY <1>6, <1>7, <1>9
<1>15. F.n["hmap"] = Cardinality(T)
  <2>1. Cardinality(T) = Cardinality(S) - 1
    BY <1>1, HmapAssumption, FS_Subset, FS_RemoveElement
  <2> QED BY <1>8, <2>1 DEF Kept
<1>16. F.array["hmap"] # Freed /\ \A a \in Arrays : a # F.buckets["hmap"] => F.array[a] = Freed
  BY <1>5, <1>8, <1>9, ArraysKept
<1>17. /\ \A y \in T : F.hash[y] = HashOf[y]
       /\ \A y \in HmapNodes \ T : F.next[y] = NULL
  <2>1. \A y \in HmapNodes \ S : M.next[y] = NULL
    BY DEF Kept
  <2>2. \A y \in T : F.hash[y] = HashOf[y]
    BY <1>1, <1>8 DEF Kept
  <2> QED BY <1>1, <1>8, <1>13, <2>1, <2>2
<1>18. Kept(F, T)
  BY <1>1, <1>8, <1>9, <1>12, <1>15, <1>16, <1>17 DEF Kept
<1> QED BY <1>1, <1>8, <1>13, <1>14, <1>18 DEF slot, firsts, i, k

\* hmap_replace, free: the new node has the place of the old one.
LEMMA ReplaceKeeps ==
  ASSUME NEW M, NEW S, Kept(M, S), NEW x \in S, NEW y \in HmapNodes \ S, HashOf[x] = HashOf[y],
         NEW F, F = FreeNode(HmapReplace(M, x, y), x)
  PROVE  /\ Kept(F, (S \ {x}) \cup {y})
         /\ F.mask = M.mask /\ F.n = M.n
<1> DEFINE U == Unlink(M, x, y)
           firsts == Front(M, "hmap")
           slot == Slots(M, "hmap")
           i == slot[x]
           k == M.mask["hmap"]
           T == (S \ {x}) \cup {y}
<1>1. /\ M \in Mem /\ Open(M, "hmap") /\ S \in SUBSET HmapNodes /\ "hmap" \in Structs
      /\ x \in HmapNodes /\ x # NULL /\ y # x /\ y # NULL /\ y \in Ptr
      /\ M.next \in [HmapNodes -> Ptr] /\ M.hash \in [HmapNodes -> Nat]
  BY HmapAssumption DEF Kept, Structs, Mem, Ptr
<1>2. U \in Mem /\ Open(U, "hmap") /\ Unlinked(M, S, x, y, U)
  <2> HIDE DEF U
  <2> QED BY <1>1, UnlinkIs DEF U
<1>3. F = [buckets |-> U.buckets, array |-> U.array, mask |-> U.mask, n |-> U.n,
           hash |-> [[U.hash EXCEPT ![y] = M.hash[x]] EXCEPT ![x] = 0],
           next |-> [[U.next EXCEPT ![y] = M.next[x]] EXCEPT ![x] = NULL]]
  <2> DEFINE h1 == [U.hash EXCEPT ![y] = M.hash[x]]
             h2 == [h1 EXCEPT ![x] = 0]
             n1 == [U.next EXCEPT ![y] = M.next[x]]
             n2 == [n1 EXCEPT ![x] = NULL]
             R == [U EXCEPT !.hash[y] = M.hash[x], !.next[y] = M.next[x]]
  <2>1. U = [buckets |-> U.buckets, array |-> U.array, mask |-> U.mask, n |-> U.n,
             hash |-> U.hash, next |-> U.next]
    <3> HIDE DEF U
    <3> QED BY <1>2 DEF Mem
  <2>2. F = [R EXCEPT !.next[x] = NULL, !.hash[x] = 0]
    BY DEF FreeNode, HmapReplace
  <2> HIDE DEF U
  <2>3. R = [[U EXCEPT !.hash = h1] EXCEPT !.next = n1]
    BY <2>1
  <2> HIDE DEF R, h1, n1
  <2>4. R = [buckets |-> U.buckets, array |-> U.array, mask |-> U.mask, n |-> U.n,
             hash |-> h1, next |-> n1]
    BY <2>1, <2>3
  <2>5. F = [[R EXCEPT !.next = n2] EXCEPT !.hash = h2]
    BY <2>2, <2>4
  <2> HIDE DEF h2, n2
  <2>6. F = [buckets |-> U.buckets, array |-> U.array, mask |-> U.mask, n |-> U.n,
             hash |-> h2, next |-> n2]
    BY <2>4, <2>5
  <2> QED BY <2>6 DEF h1, h2, n1, n2
<1> HIDE DEF U
<1>4. /\ U.buckets \in [Structs -> Stores] /\ U.mask \in [Structs -> Nat]
      /\ U.n \in [Structs -> Int] /\ U.hash \in [HmapNodes -> Nat] /\ U.next \in [HmapNodes -> Ptr]
      /\ U.array \in [Stores -> UNION {[D -> Ptr] : D \in SUBSET Nat}]
  BY <1>2 DEF Mem
<1>5. /\ U.buckets = M.buckets /\ U.mask = M.mask /\ U.n = M.n /\ U.hash = M.hash
      /\ \A c \in Stores : c # M.buckets["hmap"] => U.array[c] = M.array[c]
  BY <1>2 DEF Unlinked
<1>6. \/ /\ firsts[i] = x /\ Front(U, "hmap") = [firsts EXCEPT ![i] = y] /\ U.next = M.next
      \/ \E w \in S : /\ M.next[w] = x /\ U.next = [M.next EXCEPT ![w] = y]
                      /\ firsts[i] # x /\ Front(U, "hmap") = firsts
  BY <1>2 DEF Unlinked
<1>7. /\ firsts \in [0..k -> Ptr] /\ k \in Nat /\ slot \in [HmapNodes -> Nat] /\ i \in 0..k
  <2>1. k \in Nat /\ firsts \in [0..k -> Ptr]
    BY <1>1 DEF Open, Mem
  <2>2. slot \in [HmapNodes -> Nat] /\ slot[x] \in 0..k
    <3> HIDE DEF slot, k
    <3> QED BY <1>1, SlotsType DEF slot, k
  <2> QED BY <2>1, <2>2
<1>8. /\ F.n = M.n /\ F.hash \in [HmapNodes -> Nat] /\ F.next \in [HmapNodes -> Ptr]
      /\ F.buckets = M.buckets /\ F.mask = M.mask /\ F.array = U.array
      /\ \A z \in HmapNodes \ {x, y} : F.hash[z] = M.hash[z] /\ F.next[z] = U.next[z]
      /\ F.next[x] = NULL /\ F.next[y] = M.next[x] /\ F.hash[y] = M.hash[x]
  BY <1>1, <1>3, <1>4, <1>5 DEF Ptr
<1>9. F \in Mem /\ Front(F, "hmap") = Front(U, "hmap") /\ Open(F, "hmap")
  <2>1. F \in Mem
    BY <1>3, <1>4, <1>5, <1>8 DEF Mem
  <2> QED BY <1>2, <1>5, <1>8, <2>1 DEF Front, Open
<1>10. PICK pos \in [HmapNodes -> Nat] : Chains(S, firsts, M.next, slot, pos)
  BY DEF Kept
<1>11. /\ Slots(F, "hmap") \in [HmapNodes -> Nat] /\ Slots(F, "hmap")[y] = i
       /\ \A z \in S \ {x} : Slots(F, "hmap")[z] = slot[z]
  <2>1. Slots(F, "hmap") \in [HmapNodes -> Nat]
    BY <1>1, <1>9, SlotsType
  <2>2. Slots(F, "hmap")[y] = i
    BY <1>1, <1>8 DEF Slots, Slot
  <2>3. \A z \in S \ {x} : Slots(F, "hmap")[z] = slot[z]
    BY <1>1, <1>8 DEF Slots, Slot
  <2> QED BY <2>1, <2>2, <2>3
<1> HIDE DEF firsts, slot, k
\* Exactly one pointer leads to the old node.
<1>12. /\ \A j \in 0..k : Front(U, "hmap")[j] = IF firsts[j] = x THEN y ELSE firsts[j]
       /\ \A w \in S \ {x} : U.next[w] = IF M.next[w] = x THEN y ELSE M.next[w]
  <2>1. /\ \A j \in 0..k : firsts[j] = x => j = i
        /\ \A v \in S : M.next[v] = x => firsts[i] # x
        /\ \A v, w \in S : M.next[v] = x /\ M.next[w] = x => v = w
    <3>1. DOMAIN firsts = 0..k
      BY <1>7
    <3>2. \A j \in 0..k : firsts[j] = x => j = i
      BY <1>1, <1>10, <3>1 DEF Chains
    <3>3. \A v \in S : M.next[v] = x => firsts[i] # x
      BY <1>1, <1>10 DEF Chains
    <3>4. \A v, w \in S : M.next[v] = x /\ M.next[w] = x => v = w
      BY <1>1, <1>10 DEF Chains
    <3> QED BY <3>2, <3>3, <3>4
  <2>2. CASE firsts[i] = x /\ Front(U, "hmap") = [firsts EXCEPT ![i] = y] /\ U.next = M.next
    <3> HIDE DEF i
    <3> QED BY <1>7, <2>1, <2>2
  <2>3. ASSUME NEW w \in S, M.next[w] = x, U.next = [M.next EXCEPT ![w] = y],
               firsts[i] # x, Front(U, "hmap") = firsts
        PROVE  /\ \A j \in 0..k : Front(U, "hmap")[j] = IF firsts[j] = x THEN y ELSE firsts[j]
               /\ \A v \in S \ {x} : U.next[v] = IF M.next[v] = x THEN y ELSE M.next[v]
    <3> HIDE DEF i
    <3> QED BY <1>1, <1>7, <2>1, <2>3
  <2> QED BY <1>6, <2>2, <2>3
<1>13. \E p \in [HmapNodes -> Nat] : Chains(T, Front(F, "hmap"), F.next, Slots(F, "hmap"), p)
  <2> DEFINE firsts2 == Front(F, "hmap")
             slot2 == Slots(F, "hmap")
  <2>1. /\ firsts2 \in [0..k -> Ptr]
        /\ \A j \in 0..k : firsts2[j] = IF firsts[j] = x THEN y ELSE firsts[j]
    BY <1>8, <1>9, <1>12 DEF Open, k
  <2>2. /\ F.next \in [HmapNodes -> Ptr] /\ F.next[y] = M.next[x]
        /\ \A w \in S \ {x} : F.next[w] = IF M.next[w] = x THEN y ELSE M.next[w]
    BY <1>1, <1>8, <1>12
  <2>3. slot2[y] = slot[x] /\ slot2 \in [HmapNodes -> Nat] /\ \A w \in S \ {x} : slot2[w] = slot[w]
    BY <1>11 DEF i
  <2> HIDE DEF firsts2, slot2
  <2>4. \E p \in [HmapNodes -> Nat] : Chains((S \ {x}) \cup {y}, firsts2, F.next, slot2, p)
    <3> HIDE DEF i, T, U
    <3>1. InPlace(S, x, y, k, firsts, M.next, slot, firsts2, F.next, slot2)
      BY <2>1, <2>2, <2>3 DEF InPlace
    <3> QED BY <1>1, <1>7, <1>10, <3>1, ChainsSwap
  <2> QED BY <2>4 DEF firsts2, slot2
<1>14. F.n["hmap"] = Cardinality(T) /\ T \in SUBSET HmapNodes
  <2>1. IsFiniteSet(S)
    BY <1>1, HmapAssumption, FS_Subset
  <2>2. IsFiniteSet(S \ {x}) /\ Cardinality(S \ {x}) = Cardinality(S) - 1 /\ y \notin S \ {x}
        /\ Cardinality(S) \in Nat
    BY <1>1, <2>1, FS_RemoveElement, FS_CardinalityType
  <2>3. Cardinality((S \ {x}) \cup {y}) = Cardinality(S \ {x}) + 1
    BY <2>2, FS_AddElement
  <2>4. Cardinality(T) = Cardinality(S)
    BY <2>2, <2>3
  <2> QED BY <1>1, <1>8, <2>4 DEF Kept
<1>15. F.array["hmap"] # Freed /\ \A a \in Arrays : a # F.buckets["hmap"] => F.array[a] = Freed
  BY <1>5, <1>8, <1>9, ArraysKept
<1>16. /\ \A z \in T : F.hash[z] = HashOf[z]
       /\ \A z \in HmapNodes \ T : F.next[z] = NULL
  <2>1. /\ \A z \in HmapNodes \ S : M.next[z] = NULL
        /\ \A z \in S : M.hash[z] = HashOf[z]
    BY DEF Kept
  <2>2. \A z \in HmapNodes \ S : U.next[z] = NULL
    BY <1>1, <1>6, <2>1
  <2> QED BY <1>1, <1>8, <2>1, <2>2
<1>17. /\ M.buckets["hmap"] \in Arrays \cup {"hmap"}
       /\ M.mask["hmap"] = 0 <=> M.buckets["hmap"] = "hmap"
  BY DEF Kept
<1> HIDE DEF T
<1>18. Kept(F, T)
  BY <1>8, <1>9, <1>13, <1>14, <1>15, <1>16, <1>17 DEF Kept
<1> QED BY <1>8, <1>18 DEF T

-----------------------------------------------------------------------------
(* A walk.                                                                  *)

\* The walk that is at x, with y to follow, has the nodes of left to visit.
Walking(M, left, x, y, pos) == Ahead(M, left, x, pos) /\ y = HmapNext(M, "hmap", x)

\* The table is in order, and a walk has what it has not visited ahead of it.
TableInv ==
  /\ Kept(mem, members) /\ mem.n["hmap"] \div 2 <= mem.mask["hmap"]
  /\ iter = NULL => nxt = NULL /\ walked = {} /\ due = {}
  /\ iter # NULL =>
       \E left \in SUBSET members, pos \in [HmapNodes -> Nat] :
         Walking(mem, left, iter, nxt, pos) /\ walked \cap left = {} /\ due = walked \cup left

\* Where an iterator goes: to a node that is left, or to the end.
LEMMA WalkTo ==
  ASSUME NEW M \in Mem, Open(M, "hmap"), NEW left \in SUBSET HmapNodes,
         NEW pos \in [HmapNodes -> Nat], NEW x, NEW y, Walking(M, left, x, y, pos)
  PROVE  /\ y = NULL <=> left = {x}
         /\ y # NULL => Ahead(M, left \ {x}, y, pos) /\ y \in left \ {x}
<1>1. /\ x \in left /\ y = HmapNext(M, "hmap", x) /\ Ahead(M, left, x, pos)
      /\ NULL \notin HmapNodes
  BY HmapAssumption DEF Walking, Ahead
<1>2. /\ left = {x} => y = NULL
      /\ left # {x} => Ahead(M, left \ {x}, y, pos)
  BY <1>1, WalkOn
<1>3. Ahead(M, left \ {x}, y, pos) => y \in left \ {x} /\ y # NULL
  BY <1>1 DEF Ahead
<1> QED BY <1>1, <1>2, <1>3

LEMMA TableStarts ==
  TableInit => TableInv
<1> SUFFICES ASSUME TableInit PROVE TableInv
  OBVIOUS
<1> DEFINE b == [s \in Structs |-> "none"]
           ar == [a \in Stores |-> Freed]
           zero == [s \in Structs |-> 0]
           hs == [x \in HmapNodes |-> 0]
           nx == [x \in HmapNodes |-> NULL]
           one == [i \in {0} |-> NULL]
           R == [buckets |-> b, array |-> ar, mask |-> zero, n |-> zero, hash |-> hs, next |-> nx]
           b2 == [b EXCEPT !["hmap"] = "hmap"]
           ar2 == [ar EXCEPT !["hmap"] = one]
           zero2 == [zero EXCEPT !["hmap"] = 0]
<1>1. mem = HmapInit(R, "hmap")
  BY DEF TableInit, Structs, Stores
<1>2. mem = [buckets |-> b2, array |-> ar2, mask |-> zero2, n |-> zero2, hash |-> hs, next |-> nx]
  <2>1. mem = [[[[R EXCEPT !.buckets = b2] EXCEPT !.array = ar2] EXCEPT !.mask = zero2]
                  EXCEPT !.n = zero2]
    <3> HIDE DEF b, ar, zero, hs, nx, one
    <3> QED BY <1>1 DEF HmapInit, one
  <2> HIDE DEF b, ar, zero, hs, nx, b2, ar2, zero2
  <2> QED BY <2>1
<1>3. /\ "hmap" \in Structs /\ "hmap" \in Stores /\ "none" \in Stores /\ "hmap" # "none"
      /\ Arrays \subseteq Stores /\ "hmap" \notin Arrays
  BY HmapAssumption DEF Structs, Stores
<1>4. /\ one \in [{0} -> Ptr] /\ Freed \in [{} -> Ptr] /\ one # Freed /\ one[0] = NULL
      /\ one \in UNION {[D -> Ptr] : D \in SUBSET Nat}
      /\ Freed \in UNION {[D -> Ptr] : D \in SUBSET Nat}
  <2>1. one \in [{0} -> Ptr] /\ Freed \in [{} -> Ptr] /\ one[0] = NULL
    BY DEF Ptr, Freed
  <2>2. {0} \in SUBSET Nat /\ {} \in SUBSET Nat
    OBVIOUS
  <2>3. DOMAIN one = {0} /\ DOMAIN Freed = {}
    BY DEF Freed
  <2> QED BY <2>1, <2>2, <2>3
<1> HIDE DEF one
<1>5. /\ b2 \in [Structs -> Stores] /\ ar2 \in [Stores -> UNION {[D -> Ptr] : D \in SUBSET Nat}]
      /\ zero2 \in [Structs -> Nat] /\ zero2 \in [Structs -> Int]
      /\ hs \in [HmapNodes -> Nat] /\ nx \in [HmapNodes -> Ptr]
  <2>1. ar2 \in [Stores -> UNION {[D -> Ptr] : D \in SUBSET Nat}]
    BY <1>3, <1>4
  <2>2. b2 \in [Structs -> Stores]
    BY <1>3
  <2> QED BY <1>3, <2>1, <2>2 DEF Ptr
<1>6. /\ b2["hmap"] = "hmap" /\ ar2["hmap"] = one /\ zero2["hmap"] = 0
      /\ \A a \in Arrays : ar2[a] = Freed
      /\ \A x \in HmapNodes : nx[x] = NULL
  BY <1>3
<1> HIDE DEF b2, ar2, zero2, hs, nx
<1>7. mem \in Mem
  BY <1>2, <1>5 DEF Mem
<1>8. Front(mem, "hmap") = one /\ Open(mem, "hmap") /\ DOMAIN one = {0}
  <2>1. Front(mem, "hmap") = one /\ mem.mask["hmap"] = 0 /\ 0..0 = {0}
    BY <1>2, <1>6 DEF Front
  <2> QED BY <1>4, <2>1 DEF Open
<1>9. [x \in HmapNodes |-> 0] \in [HmapNodes -> Nat]
  OBVIOUS
<1>10. Chains({}, Front(mem, "hmap"), mem.next, Slots(mem, "hmap"), [x \in HmapNodes |-> 0])
  <2> DEFINE pos == [x \in HmapNodes |-> 0]
             slot == Slots(mem, "hmap")
  <2> HIDE DEF pos, slot
  <2>1. Chains({}, Front(mem, "hmap"), mem.next, slot, pos)
    BY <1>4, <1>8 DEF Chains
  <2> QED BY <2>1 DEF pos, slot
<1>11. Cardinality({}) = 0
  BY FS_EmptySet
<1>12. /\ mem.buckets["hmap"] = "hmap" /\ mem.mask["hmap"] = 0 /\ mem.n["hmap"] = 0
       /\ mem.array["hmap"] = one /\ \A a \in Arrays : mem.array[a] = Freed
       /\ mem.next = nx
  BY <1>2, <1>6
<1>13. Kept(mem, {})
  <2>1. \E pos \in [HmapNodes -> Nat] :
          Chains({}, Front(mem, "hmap"), mem.next, Slots(mem, "hmap"), pos)
    BY <1>9, <1>10
  <2>2. \A x \in HmapNodes : mem.next[x] = NULL
    BY <1>6, <1>12
  <2> QED BY <1>4, <1>7, <1>8, <1>11, <1>12, <2>1, <2>2 DEF Kept
<1>14. members = {} /\ iter = NULL /\ nxt = NULL /\ walked = {} /\ due = {}
  BY DEF TableInit
<1> QED BY <1>12, <1>13, <1>14 DEF TableInv

LEMMA TableInsertKeeps ==
  ASSUME TableInv, NEW node \in HmapNodes, TableInsert(node)
  PROVE  TableInv'
<1> DEFINE V == HmapInsert(mem, node, HashOf[node])
           T == members \cup {node}
<1>1. /\ iter = NULL /\ node \in HmapNodes \ members /\ mem' = LeaveResize(V) /\ members' = T
      /\ iter' = iter /\ nxt' = nxt /\ walked' = walked /\ due' = due
  BY DEF TableInsert
<1>2. Kept(V, T) /\ V.n["hmap"] \div 2 <= V.mask["hmap"]
  <2>1. Kept(mem, members)
    BY DEF TableInv
  <2> QED BY <1>1, <2>1, InsertKeeps
<1> HIDE DEF V, T
<1>3. Kept(mem', T) /\ mem'.mask["hmap"] = V.mask["hmap"] /\ mem'.n["hmap"] = V.n["hmap"]
  BY <1>1, <1>2, LeaveResizeKeeps
<1> QED BY <1>1, <1>2, <1>3 DEF TableInv

LEMMA TableReplaceKeeps ==
  ASSUME TableInv, NEW old \in HmapNodes, NEW new \in HmapNodes, TableReplace(old, new)
  PROVE  TableInv'
<1> DEFINE T == (members \ {old}) \cup {new}
<1>1. /\ iter = NULL /\ old \in members /\ new \in HmapNodes \ members
      /\ HashOf[old] = HashOf[new]
      /\ mem' = FreeNode(HmapReplace(mem, old, new), old) /\ members' = T
      /\ iter' = iter /\ nxt' = nxt /\ walked' = walked /\ due' = due
  BY DEF TableReplace
<1>2. Kept(mem, members) /\ mem.n["hmap"] \div 2 <= mem.mask["hmap"]
  BY DEF TableInv
<1>3. Kept(mem', T) /\ mem'.mask = mem.mask /\ mem'.n = mem.n
  BY <1>1, <1>2, ReplaceKeeps
<1> QED BY <1>1, <1>2, <1>3 DEF TableInv

LEMMA WalkStartKeeps ==
  ASSUME TableInv, WalkStart
  PROVE  TableInv'
<1> DEFINE z == HmapFirst(mem, "hmap")
<1>1. /\ z # NULL /\ iter' = z /\ nxt' = HmapNext(mem, "hmap", z)
      /\ walked' = {} /\ due' = members /\ mem' = mem /\ members' = members
  BY DEF WalkStart, At
<1>2. Kept(mem, members) /\ mem.n["hmap"] \div 2 <= mem.mask["hmap"]
  BY DEF TableInv
<1>3. PICK pos \in [HmapNodes -> Nat] :
        Chains(members, Front(mem, "hmap"), mem.next, Slots(mem, "hmap"), pos)
  BY <1>2 DEF Kept
<1>4. Ahead(mem, members, z, pos)
  <2>1. mem \in Mem /\ Open(mem, "hmap") /\ members \in SUBSET HmapNodes
    BY <1>2 DEF Kept
  <2>2. /\ members = {} => z = NULL
        /\ members # {} => Ahead(mem, members, z, pos)
    BY <1>3, <2>1, WalkFirst
  <2> QED BY <1>1, <2>2
<1> HIDE DEF z
<1>5. Walking(mem', members', iter', nxt', pos)
  BY <1>1, <1>4 DEF Walking
<1>6. /\ \E left \in SUBSET members', p \in [HmapNodes -> Nat] :
           Walking(mem', left, iter', nxt', p) /\ walked' \cap left = {} /\ due' = walked' \cup left
      /\ Kept(mem', members') /\ mem'.n["hmap"] \div 2 <= mem'.mask["hmap"] /\ iter' # NULL
  BY <1>1, <1>2, <1>5
<1> QED BY <1>6 DEF TableInv

\* An iterator goes on in a memory where what is ahead of it is the same.
LEMMA AdvanceKeeps ==
  ASSUME NEW M, Advance(M), NEW x, NEW y, NEW left, NEW pos \in [HmapNodes -> Nat],
         x = iter, y = nxt, x # NULL, x \in left, y = NULL <=> left = {x},
         y # NULL => Ahead(M, left \ {x}, y, pos), left \ {x} \in SUBSET members',
         walked \cap left = {}, due = walked \cup left, mem' = M, Kept(M, members'),
         M.n["hmap"] \div 2 <= M.mask["hmap"]
  PROVE  TableInv'
<1>1. CASE y = NULL
  <2>1. iter' = NULL /\ nxt' = NULL /\ walked' = {} /\ due' = {}
    BY <1>1 DEF Advance, At
  <2> QED BY <2>1 DEF TableInv
<1>2. CASE y # NULL
  <2>1. /\ iter' = y /\ nxt' = HmapNext(M, "hmap", y) /\ walked' = walked \cup {x} /\ due' = due
    BY <1>2 DEF Advance, At
  <2> DEFINE rest == left \ {x}
  <2>2. Walking(mem', rest, iter', nxt', pos) /\ walked' \cap rest = {} /\ due' = walked' \cup rest
    BY <1>2, <2>1 DEF Walking
  <2> HIDE DEF rest
  <2>3. \E l \in SUBSET members', p \in [HmapNodes -> Nat] :
           Walking(mem', l, iter', nxt', p) /\ walked' \cap l = {} /\ due' = walked' \cup l
    BY <2>2 DEF rest
  <2> QED BY <1>2, <2>1, <2>3 DEF TableInv
<1> QED BY <1>1, <1>2

LEMMA WalkKeepKeeps ==
  ASSUME TableInv, WalkKeep
  PROVE  TableInv'
<1>1. /\ iter # NULL /\ mem' = mem /\ members' = members /\ Advance(mem)
      /\ Kept(mem, members) /\ mem.n["hmap"] \div 2 <= mem.mask["hmap"]
  BY DEF TableInv, WalkKeep, Advance
<1>2. PICK left \in SUBSET members, pos \in [HmapNodes -> Nat] :
        Walking(mem, left, iter, nxt, pos) /\ walked \cap left = {} /\ due = walked \cup left
  BY <1>1 DEF TableInv
<1>3. /\ nxt = NULL <=> left = {iter}
      /\ nxt # NULL => Ahead(mem, left \ {iter}, nxt, pos)
  <2>1. mem \in Mem /\ Open(mem, "hmap") /\ left \in SUBSET HmapNodes
    BY <1>1 DEF Kept
  <2>2. Walking(mem, left, iter, nxt, pos) /\ pos \in [HmapNodes -> Nat]
    BY <1>2
  <2> QED BY <2>1, <2>2, WalkTo
<1>4. iter \in left /\ left \ {iter} \in SUBSET members'
  BY <1>1, <1>2 DEF Walking, Ahead
<1> QED BY <1>1, <1>2, <1>3, <1>4, AdvanceKeeps

LEMMA WalkRemoveKeeps ==
  ASSUME TableInv, WalkRemove
  PROVE  TableInv'
<1> DEFINE M == mem
           F == mem'
           x == iter
           y == nxt
           slot == Slots(M, "hmap")
<1>1. /\ x # NULL /\ F = FreeNode(HmapRemove(M, x), x) /\ members' = members \ {x}
      /\ Advance(F) /\ Kept(M, members) /\ M.n["hmap"] \div 2 <= M.mask["hmap"]
  BY DEF TableInv, WalkRemove
<1>2. PICK left \in SUBSET members, pos \in [HmapNodes -> Nat] :
        Walking(M, left, x, y, pos) /\ walked \cap left = {} /\ due = walked \cup left
  BY <1>1 DEF TableInv
<1>3. /\ M \in Mem /\ Open(M, "hmap") /\ left \in SUBSET HmapNodes /\ "hmap" \in Structs
      /\ M.mask["hmap"] \in Nat /\ M.n["hmap"] \in Int /\ M.next \in [HmapNodes -> Ptr]
      /\ x \in left /\ x \in members /\ Ahead(M, left, x, pos)
      /\ slot \in [HmapNodes -> Nat] /\ \A z \in HmapNodes : slot[z] \in 0..M.mask["hmap"]
  <2>1. M \in Mem /\ Open(M, "hmap") /\ left \in SUBSET HmapNodes /\ "hmap" \in Structs
    BY <1>1 DEF Kept, Structs
  <2>2. M.mask["hmap"] \in Nat /\ M.n["hmap"] \in Int /\ M.next \in [HmapNodes -> Ptr]
    BY <2>1 DEF Mem
  <2> QED BY <1>2, <2>1, <2>2, SlotsType DEF Walking, Ahead
<1> HIDE DEF M, F, x, y, slot
<1>4. /\ Kept(F, members \ {x}) /\ F.mask = M.mask /\ F.n["hmap"] = M.n["hmap"] - 1
      /\ \A z \in members \ {x} : F.hash[z] = M.hash[z]
                                  /\ (M.next[z] # x => F.next[z] = M.next[z])
      /\ \A j \in 0..M.mask["hmap"] : j # slot[x] => Front(F, "hmap")[j] = Front(M, "hmap")[j]
  <2>1. /\ Kept(F, members \ {x}) /\ F.mask = M.mask /\ F.n["hmap"] = M.n["hmap"] - 1
        /\ \A z \in members \ {x} : F.hash[z] = M.hash[z]
                                    /\ (M.next[z] # x => F.next[z] = M.next[z])
        /\ \A j \in 0..M.mask["hmap"] :
             j # Slots(M, "hmap")[x] => Front(F, "hmap")[j] = Front(M, "hmap")[j]
    <3>1. Kept(M, members) /\ x \in members /\ F = FreeNode(HmapRemove(M, x), x)
      BY <1>1, <1>3
    <3> QED BY <3>1, RemoveKeeps
  <2> QED BY <2>1 DEF slot
<1>5. F.n["hmap"] \div 2 <= F.mask["hmap"]
  <2> DEFINE n == M.n["hmap"]
             k == M.mask["hmap"]
  <2>1. n \in Int /\ k \in Nat /\ n \div 2 <= k /\ F.n["hmap"] = n - 1 /\ F.mask["hmap"] = k
    BY <1>1, <1>3, <1>4
  <2> HIDE DEF n, k
  <2>2. (n - 1) \div 2 <= k
    BY <2>1
  <2> QED BY <2>1, <2>2
<1>6. /\ y = NULL <=> left = {x}
      /\ y # NULL => Ahead(M, left \ {x}, y, pos) /\ y \in left \ {x}
  BY <1>2, <1>3, WalkTo
<1>7. ASSUME y # NULL
      PROVE  Ahead(F, left \ {x}, y, pos)
  <2> DEFINE c == slot[x]
             firsts == From(M, c, x)
  <2>1. Chains(left, firsts, M.next, slot, pos) /\ c \in 0..M.mask["hmap"]
    BY <1>3 DEF Ahead, slot
  <2>2. /\ firsts \in [0..M.mask["hmap"] -> Ptr] /\ firsts[c] = x
        /\ \A j \in 0..M.mask["hmap"] : j < c => firsts[j] = NULL
    <3>1. c \in Int /\ x \in Ptr
      BY <1>3, <2>1 DEF Ptr
    <3>2. firsts \in [0..M.mask["hmap"] -> Ptr]
      BY <1>3, <3>1, FromType
    <3> QED BY <2>1, <3>2 DEF From
  <2> HIDE DEF firsts, c
  \* No node that is left leads back to the one that goes.
  <2>3. \A z \in left : M.next[z] # x
    BY <1>1, <2>1, <2>2 DEF Chains, c
  <2>4. c <= slot[y]
    <3>1. ASSUME slot[y] < c PROVE FALSE
      <4>1. slot[y] \in 0..M.mask["hmap"] /\ firsts[slot[y]] = NULL /\ y \in left
        BY <1>3, <1>6, <1>7, <2>2, <3>1
      <4>2. \A z \in left : slot[z] # slot[y]
        <5> DEFINE k == M.mask["hmap"]
                   j == slot[y]
        <5>1. k \in Nat /\ firsts \in [0..k -> Ptr] /\ j \in 0..k /\ firsts[j] = NULL
          BY <1>3, <2>2, <4>1
        <5> HIDE DEF k, j
        <5>2. \A z \in left : slot[z] # j
          BY <1>3, <2>1, <5>1, ChainsEmpty
        <5> QED BY <5>2 DEF j
      <4> QED BY <4>1, <4>2
    <3>2. c \in Nat /\ slot[y] \in Nat
      BY <1>3, <1>6, <1>7, <2>1
    <3> QED BY <3>1, <3>2
  <2>5. slot[y] = Slot(M, "hmap", M.hash[y])
    BY <1>3, <1>6, <1>7, SlotsType DEF slot
  <2>6. \A z \in left \ {x} : F.next[z] = M.next[z] /\ F.hash[z] = M.hash[z]
    BY <1>4, <2>3
  <2>7. \A j \in 0..M.mask["hmap"] :
          Slot(M, "hmap", M.hash[y]) < j => Front(F, "hmap")[j] = Front(M, "hmap")[j]
    <3>1. c \in Nat /\ slot[y] \in Nat
      BY <1>3, <1>6, <1>7, <2>1
    <3> QED BY <1>4, <2>4, <2>5, <3>1 DEF c
  <2> DEFINE rest == left \ {x}
  <2>8. Ahead(M, rest, y, pos) /\ rest \in SUBSET HmapNodes /\ F \in Mem
        /\ F.mask["hmap"] = M.mask["hmap"]
    BY <1>3, <1>4, <1>6, <1>7 DEF Kept
  <2>9. \A z \in rest : F.next[z] = M.next[z] /\ F.hash[z] = M.hash[z]
    BY <2>6
  <2> HIDE DEF rest
  <2>10. Ahead(F, rest, y, pos)
    BY <1>3, <2>7, <2>8, <2>9, AheadSame
  <2> QED BY <2>10 DEF rest
<1>8. left \ {x} \in SUBSET members' /\ Kept(F, members')
  BY <1>1, <1>4
<1> QED BY <1>1, <1>2, <1>3, <1>5, <1>6, <1>7, <1>8, AdvanceKeeps DEF x, y, F

\* The invariant is inductive.
LEMMA TableInductive ==
  ASSUME TableInv, [TableNext]_tableVars
  PROVE  TableInv'
<1>1. CASE UNCHANGED tableVars
  BY <1>1 DEF tableVars, TableInv
<1>2. CASE \E node \in HmapNodes : TableInsert(node)
  BY <1>2, TableInsertKeeps
<1>3. CASE \E old, new \in HmapNodes : TableReplace(old, new)
  BY <1>3, TableReplaceKeeps
<1>4. CASE WalkStart
  BY <1>4, WalkStartKeeps
<1>5. CASE WalkKeep
  BY <1>5, WalkKeepKeeps
<1>6. CASE WalkRemove
  BY <1>6, WalkRemoveKeeps
<1> QED BY <1>1, <1>2, <1>3, <1>4, <1>5, <1>6 DEF TableNext

-----------------------------------------------------------------------------
(* Lookup.                                                                  *)

\* A chain as a sequence: from node on, what next leads to.
Along(at, node, next, N) ==
  /\ DOMAIN at = 0..N /\ at[0] = node
  /\ \A j \in 0..N : j # 0 => at[j] = IF at[j - 1] = NULL THEN NULL ELSE next[at[j - 1]]

LEMMA ChainIs ==
  ASSUME NEW M \in Mem, NEW node \in Ptr
  PROVE  Along(Chain(M, node), node, M.next, Cardinality(HmapNodes))
<1> DEFINE N == Cardinality(HmapNodes)
           step == [p \in Ptr |-> IF p = NULL THEN NULL ELSE M.next[p]]
           at == Chain(M, node)
<1>1. N \in Nat
  BY HmapAssumption, FS_CardinalityType
<1>2. step \in [Ptr -> Ptr]
  BY DEF Mem, Ptr
<1>3. PICK f \in [0..N -> Ptr] : Follows(step, node, f, N)
  <2> HIDE DEF step, N
  <2> QED BY <1>1, <1>2, FunctionExists
<1> HIDE DEF N
<1>4. f = [k \in 0..N |-> IF k = 0 THEN node ELSE IF f[k - 1] = NULL THEN NULL ELSE M.next[f[k - 1]]]
  <2>1. \A j \in 0..N : j # 0 => f[j - 1] \in Ptr
    BY <1>1
  <2>2. \A j \in 0..N : j # 0 =>
          step[f[j - 1]] = IF f[j - 1] = NULL THEN NULL ELSE M.next[f[j - 1]]
    BY <2>1
  <2> HIDE DEF step
  <2> QED BY <1>3, <2>2 DEF Follows
<1>5. at = CHOOSE w : w = [k \in 0..N |-> IF k = 0 THEN node
                             ELSE IF w[k - 1] = NULL THEN NULL ELSE M.next[w[k - 1]]]
  BY DEF Chain, N
<1> HIDE DEF at
<1>6. at = [k \in 0..N |-> IF k = 0 THEN node
              ELSE IF at[k - 1] = NULL THEN NULL ELSE M.next[at[k - 1]]]
  BY <1>4, <1>5, Zenon
<1>7. \A k \in 0..N : at[k] = IF k = 0 THEN node
              ELSE IF at[k - 1] = NULL THEN NULL ELSE M.next[at[k - 1]]
  BY <1>6, Zenon
<1>8. DOMAIN at = 0..N
  BY <1>6, Zenon
<1>9. at[0] = node
  <2>1. 0 \in 0..N
    BY <1>1
  <2> QED BY <1>7, <2>1, Zenon
<1>10. \A j \in 0..N : j # 0 => at[j] = IF at[j - 1] = NULL THEN NULL ELSE M.next[at[j - 1]]
  BY <1>7, Zenon
<1>11. Along(at, node, M.next, N)
  BY <1>8, <1>9, <1>10, Zenon DEF Along
<1> QED BY <1>11 DEF at, N

\* Along a chain are the nodes of slot i, each once, and then its end.
Finds(S, slot, i, at) ==
  /\ \A j \in DOMAIN at : at[j] # NULL => at[j] \in S /\ slot[at[j]] = i
  /\ \A j, l \in DOMAIN at : at[j] # NULL /\ at[j] = at[l] => j = l
  /\ at[Cardinality(HmapNodes)] = NULL
  /\ \A x \in S : slot[x] = i => \E j \in DOMAIN at : at[j] = x

LEMMA AlongFinds ==
  ASSUME NEW S \in SUBSET HmapNodes, NEW k \in Nat, NEW firsts \in [0..k -> Ptr],
         NEW next \in [HmapNodes -> Ptr], NEW slot \in [HmapNodes -> Nat],
         NEW pos \in [HmapNodes -> Nat], Chains(S, firsts, next, slot, pos),
         NEW i \in 0..k, NEW at, Along(at, firsts[i], next, Cardinality(HmapNodes))
  PROVE  Finds(S, slot, i, at)
<1> DEFINE N == Cardinality(HmapNodes)
<1>1. N \in Nat /\ IsFiniteSet(HmapNodes) /\ DOMAIN firsts = 0..k /\ \A x \in S : x # NULL
  BY HmapAssumption, FS_CardinalityType
<1> HIDE DEF N
<1>2. /\ DOMAIN at = 0..N /\ at[0] = firsts[i]
      /\ \A j \in 0..N : j # 0 => at[j] = IF at[j - 1] = NULL THEN NULL ELSE next[at[j - 1]]
  BY DEF Along, N
<1>3. \A j \in Nat : j + 1 <= N =>
        at[j + 1] = IF at[j] = NULL THEN NULL ELSE next[at[j]]
  <2> SUFFICES ASSUME NEW j \in Nat, j + 1 <= N
               PROVE  at[j + 1] = IF at[j] = NULL THEN NULL ELSE next[at[j]]
    OBVIOUS
  <2>1. j + 1 \in 0..N /\ j + 1 # 0 /\ j + 1 - 1 = j
    BY <1>1
  <2> QED BY <1>2, <2>1
<1>4. \A j \in 0..N : at[j] # NULL => at[j] \in S /\ slot[at[j]] = i
  <2> DEFINE K == {j \in Nat : j <= N => (at[j] # NULL => at[j] \in S /\ slot[at[j]] = i)}
  <2>1. 0 \in K
    BY <1>1, <1>2 DEF Chains
  <2>2. ASSUME NEW j \in K PROVE j + 1 \in K
    <3> SUFFICES ASSUME j + 1 <= N, at[j + 1] # NULL
                 PROVE  at[j + 1] \in S /\ slot[at[j + 1]] = i
      OBVIOUS
    <3>1. j \in Nat /\ j <= N /\ (at[j] # NULL => at[j] \in S /\ slot[at[j]] = i)
      BY <1>1
    <3>2. at[j] # NULL /\ at[j + 1] = next[at[j]]
      BY <1>3, <3>1
    <3> QED BY <3>1, <3>2 DEF Chains
  <2>3. K = Nat
    <3>1. K \in SUBSET Nat
      OBVIOUS
    <3> HIDE DEF K
    <3> QED BY <2>1, <2>2, <3>1, SetInduction
  <2>4. \A j \in 0..N : j \in Nat /\ j <= N
    BY <1>1
  <2>5. \A j \in K : j <= N => (at[j] # NULL => at[j] \in S /\ slot[at[j]] = i)
    OBVIOUS
  <2> HIDE DEF K
  <2> QED BY <2>3, <2>4, <2>5
\* The positions grow.
<1>5. \A l \in 0..N : at[l] # NULL =>
        \A j \in 0..N : j < l => at[j] # NULL /\ pos[at[j]] < pos[at[l]]
  <2> DEFINE Grow(l) == at[l] # NULL =>
                 \A j \in 0..N : j < l => at[j] # NULL /\ pos[at[j]] < pos[at[l]]
             K == {l \in Nat : l <= N => Grow(l)}
  <2>1. 0 \in K
    BY <1>1
  <2>2. ASSUME NEW l \in K, l + 1 <= N, at[l + 1] # NULL, NEW j \in 0..N, j < l + 1
        PROVE  at[j] # NULL /\ pos[at[j]] < pos[at[l + 1]]
    <3>1. /\ at[l] # NULL /\ at[l + 1] = next[at[l]] /\ l \in Nat /\ l \in 0..N
          /\ at[l] \in S /\ Grow(l)
      BY <1>1, <1>3, <1>4, <2>2
    <3>2. next[at[l]] \in S /\ pos[at[l]] < pos[at[l + 1]] /\ pos[at[l]] \in Nat
          /\ pos[at[l + 1]] \in Nat
      BY <2>2, <3>1 DEF Chains
    <3>3. CASE j = l
      BY <3>1, <3>2, <3>3
    <3>4. CASE j < l
      <4>1. at[j] # NULL /\ pos[at[j]] < pos[at[l]]
        BY <3>1, <3>4
      <4>2. pos[at[j]] \in Nat
        BY <1>4, <4>1
      <4> QED BY <3>2, <4>1, <4>2
    <3> QED BY <2>2, <3>1, <3>3, <3>4
  <2>3. \A l \in K : l + 1 \in K
    BY <2>2
  <2>4. K = Nat
    <3>1. K \in SUBSET Nat
      OBVIOUS
    <3> HIDE DEF K
    <3> QED BY <2>1, <2>3, <3>1, SetInduction
  <2>5. \A j \in 0..N : j \in Nat /\ j <= N
    BY <1>1
  <2>6. \A l \in K : l <= N => Grow(l)
    OBVIOUS
  <2> HIDE DEF K
  <2> QED BY <2>4, <2>5, <2>6
<1>6. \A j, l \in 0..N : at[j] # NULL /\ at[j] = at[l] => j = l
  <2> SUFFICES ASSUME NEW j \in 0..N, NEW l \in 0..N, at[j] # NULL, at[j] = at[l], j < l
               PROVE  FALSE
    BY <1>1
  <2>1. pos[at[j]] < pos[at[l]] /\ pos[at[j]] \in Nat
    BY <1>4, <1>5
  <2> QED BY <2>1
<1>7. at[N] = NULL
  <2> SUFFICES ASSUME at[N] # NULL PROVE FALSE
    OBVIOUS
  <2>1. \A j \in 0..N : at[j] # NULL
    BY <1>1, <1>5
  <2> DEFINE f == [j \in 0..N |-> at[j]]
  <2>2. f \in [0..N -> HmapNodes]
    BY <1>4, <2>1
  <2>3. IsFiniteSet(0..N) /\ Cardinality(0..N) = N + 1
    <3>1. 0 \in Int /\ N \in Int
      BY <1>1
    <3>2. IsFiniteSet(0..N) /\ Cardinality(0..N) = IF 0 > N THEN 0 ELSE N - 0 + 1
      BY <3>1, FS_Interval
    <3> QED BY <1>1, <3>2
  <2>4. Cardinality(HmapNodes) < Cardinality(0..N)
    BY <1>1, <2>3 DEF N
  <2> HIDE DEF f
  <2>5. PICK j, l \in 0..N : j # l /\ f[j] = f[l]
    BY <1>1, <2>2, <2>3, <2>4, FS_PigeonHole
  <2> QED BY <1>6, <2>1, <2>5 DEF f
<1>8. \A x \in S : slot[x] = i => \E j \in 0..N : at[j] = x
  <2> DEFINE bad == {x \in S : slot[x] = i /\ \A j \in 0..N : at[j] # x}
             T == {pos[x] : x \in bad}
  <2> SUFFICES ASSUME bad # {} PROVE FALSE
    OBVIOUS
  <2>1. PICK q \in T : \A r \in T : q <= r
    <3>1. T \in SUBSET Nat /\ T # {}
      OBVIOUS
    <3> HIDE DEF T
    <3> QED BY <3>1, LeastNat
  <2>2. PICK y \in S : slot[y] = i /\ pos[y] = q /\ \A j \in 0..N : at[j] # y
    OBVIOUS
  <2>3. firsts[i] # y
    BY <1>1, <1>2, <2>2
  <2>4. PICK w \in S : next[w] = y
    BY <2>2, <2>3 DEF Chains
  <2>5. slot[w] = i /\ pos[w] < pos[y] /\ pos[w] \in Nat /\ pos[y] \in Nat /\ y # NULL
    BY <1>1, <2>2, <2>4 DEF Chains
  <2>6. w \notin bad
    <3> SUFFICES ASSUME w \in bad PROVE FALSE
      OBVIOUS
    <3>1. pos[w] \in T
      OBVIOUS
    <3> HIDE DEF T, bad
    <3> QED BY <2>1, <2>2, <2>5, <3>1
  <2>7. PICK j \in 0..N : at[j] = w
    BY <2>5, <2>6
  <2>8. j # N /\ at[j] # NULL
    BY <1>1, <1>7, <2>7
  <2>9. j \in Nat /\ j + 1 <= N /\ j + 1 \in 0..N
    BY <1>1, <2>8
  <2>10. at[j + 1] = y
    BY <1>3, <2>4, <2>7, <2>8, <2>9
  <2> QED BY <2>2, <2>9, <2>10
<1> QED BY <1>2, <1>4, <1>6, <1>7, <1>8 DEF N, Finds

LEMMA LookupWhole ==
  ASSUME TableInv
  PROVE  LookupComplete
<1> SUFFICES ASSUME NEW h \in Hashes
             PROVE  LET chain == WithHash(mem, h)
                        found == {k \in DOMAIN chain : chain[k] # NULL /\ mem.hash[chain[k]] = h}
                    IN /\ {chain[k] : k \in found} = {x \in members : HashOf[x] = h}
                       /\ \A j, k \in found : chain[j] = chain[k] => j = k
                       /\ chain[Cardinality(HmapNodes)] = NULL
  BY DEF LookupComplete
<1> DEFINE k == mem.mask["hmap"]
           firsts == Front(mem, "hmap")
           slot == Slots(mem, "hmap")
           i == Slot(mem, "hmap", h)
           chain == WithHash(mem, h)
           N == Cardinality(HmapNodes)
<1>1. /\ mem \in Mem /\ Open(mem, "hmap") /\ members \in SUBSET HmapNodes /\ "hmap" \in Structs
      /\ h \in Nat /\ \A x \in members : mem.hash[x] = HashOf[x]
  BY HmapAssumption DEF TableInv, Kept, Structs, Hashes
<1>2. /\ k \in Nat /\ firsts \in [0..k -> Ptr] /\ mem.next \in [HmapNodes -> Ptr]
      /\ slot \in [HmapNodes -> Nat] /\ i \in 0..k
      /\ \A x \in HmapNodes : slot[x] = Slot(mem, "hmap", mem.hash[x])
  <2>1. k \in Nat /\ firsts \in [0..k -> Ptr] /\ mem.next \in [HmapNodes -> Ptr]
    BY <1>1 DEF Open, Mem
  <2> QED BY <1>1, <2>1, SlotIn, SlotsType
<1>3. PICK pos \in [HmapNodes -> Nat] : Chains(members, firsts, mem.next, slot, pos)
  BY DEF TableInv, Kept
<1>4. Along(chain, firsts[i], mem.next, N)
  <2>1. chain = Chain(mem, firsts[i])
    BY DEF WithHash, Bucket, Front
  <2>2. firsts[i] \in Ptr
    BY <1>2
  <2> QED BY <1>1, <2>1, <2>2, ChainIs
<1> HIDE DEF k, firsts, slot, chain
<1>5. /\ \A j \in DOMAIN chain : chain[j] # NULL => chain[j] \in members /\ slot[chain[j]] = i
      /\ \A j, l \in DOMAIN chain : chain[j] # NULL /\ chain[j] = chain[l] => j = l
      /\ chain[N] = NULL
      /\ \A x \in members : slot[x] = i => \E j \in DOMAIN chain : chain[j] = x
  <2> DEFINE nx == mem.next
             S == members
  <2>1. /\ S \in SUBSET HmapNodes /\ nx \in [HmapNodes -> Ptr]
        /\ Chains(S, firsts, nx, slot, pos) /\ Along(chain, firsts[i], nx, Cardinality(HmapNodes))
    BY <1>1, <1>2, <1>3, <1>4
  <2> HIDE DEF i, nx, S, N
  <2>2. Finds(S, slot, i, chain)
    BY <1>2, <2>1, AlongFinds
  <2> QED BY <2>2 DEF S, N, Finds
<1> DEFINE found == {j \in DOMAIN chain : chain[j] # NULL /\ mem.hash[chain[j]] = h}
<1>6. \A x \in members : HashOf[x] = h => slot[x] = i /\ x # NULL
  BY <1>1, <1>2, HmapAssumption
<1>7. {chain[j] : j \in found} = {x \in members : HashOf[x] = h}
  <2>1. \A j \in found : chain[j] \in members /\ HashOf[chain[j]] = h
    BY <1>1, <1>5
  <2>2. ASSUME NEW x \in members, HashOf[x] = h
        PROVE  x \in {chain[j] : j \in found}
    <3>1. PICK j \in DOMAIN chain : chain[j] = x
      BY <1>5, <1>6, <2>2
    <3>2. j \in found
      BY <1>1, <1>6, <2>2, <3>1
    <3> HIDE DEF found
    <3> QED BY <3>1, <3>2
  <2> HIDE DEF found
  <2> QED BY <2>1, <2>2
<1>8. \A j, l \in found : chain[j] = chain[l] => j = l
  BY <1>5
<1> QED BY <1>5, <1>7, <1>8 DEF chain

LEMMA TableWhole ==
  ASSUME TableInv
  PROVE  TableSound
<1>1. /\ mem \in Mem /\ Open(mem, "hmap") /\ mem.n["hmap"] = Cardinality(members)
      /\ mem.n["hmap"] \div 2 <= mem.mask["hmap"]
      /\ mem.buckets["hmap"] \in Arrays \cup {"hmap"} /\ mem.array["hmap"] # Freed
      /\ \A a \in Arrays : a # mem.buckets["hmap"] => mem.array[a] = Freed
  BY DEF TableInv, Kept
<1>2. mem.array[mem.buckets["hmap"]] # Freed
  BY <1>1, FrontIsAllocated DEF Front
<1> QED BY <1>1, <1>2 DEF TableSound

LEMMA WalkWhole ==
  ASSUME TableInv
  PROVE  WalkComplete
<1> SUFFICES ASSUME iter # NULL
             PROVE  iter \in members /\ iter \in due \ walked
                    /\ (nxt = NULL => walked \cup {iter} = due)
  BY DEF WalkComplete
<1>1. PICK left \in SUBSET members, pos \in [HmapNodes -> Nat] :
        Walking(mem, left, iter, nxt, pos) /\ walked \cap left = {} /\ due = walked \cup left
  BY DEF TableInv
<1>2. /\ nxt = NULL <=> left = {iter}
      /\ nxt # NULL => Ahead(mem, left \ {iter}, nxt, pos) /\ nxt \in left \ {iter}
  <2>1. mem \in Mem /\ Open(mem, "hmap") /\ left \in SUBSET HmapNodes
    BY DEF TableInv, Kept
  <2>2. Walking(mem, left, iter, nxt, pos) /\ pos \in [HmapNodes -> Nat]
    BY <1>1
  <2> QED BY <2>1, <2>2, WalkTo
<1>3. iter \in left
  BY <1>1 DEF Walking, Ahead
<1> QED BY <1>1, <1>2, <1>3

\* hmap.c: a lookup finds each node of its hash value once and nothing else,
\* the table grows in time, and no array leaks or is used after it was freed,
\* for every set of nodes, every hash function and every order of insertions,
\* replacements, removals and resizes.
THEOREM TableIsComplete ==
  TableSpec => []TableComplete
<1>1. TableInv => TableComplete
  BY LookupWhole, TableWhole DEF TableComplete
<1>2. TableInit => TableInv
  BY TableStarts
<1>3. TableInv /\ [TableNext]_tableVars => TableInv'
  BY TableInductive
<1> QED BY <1>1, <1>2, <1>3, PTL DEF TableSpec

\* timer_event's walk, which removes nodes as it goes, visits every node that
\* was there when it started exactly once, and stands only at nodes in the table.
THEOREM WalkIsComplete ==
  TableSpec => []WalkComplete
<1>1. TableInv => WalkComplete
  BY WalkWhole
<1>2. TableInit => TableInv
  BY TableStarts
<1>3. TableInv /\ [TableNext]_tableVars => TableInv'
  BY TableInductive
<1> QED BY <1>1, <1>2, <1>3, PTL DEF TableSpec
=============================================================================
