-------------------------------- MODULE IdPool --------------------------------
(***************************************************************************)
(* The pool of compact flow ids (lib/idpool.c): a ring of the free ids     *)
(* with one flag that tells the empty ring from the full one.              *)
(*                                                                         *)
(* Each call is atomic.  (compact.c calls get_id from the tun thread       *)
(* without the lock under which timer_event calls release_id: see README.) *)
(***************************************************************************)
EXTENDS Integers, FiniteSets

CONSTANT NumIds             \* size of the pool: 1 << N_ID_BITS

ASSUME NumIdsAssumption == NumIds \in Nat \ {0}

Ids == 0..(NumIds - 1)

NoId == -1

VARIABLES
  pool,                     \* idpool_t.pool
  head,                     \* the next id to give
  tail,                     \* the id given back last
  empty,
  id,                       \* what the last get_id returned
  held                      \* history: ids given and not given back

poolVars == <<pool, head, tail, empty, id, held>>

After(i) == (i + 1) % NumIds

\* init_idpool
PoolInit ==
  /\ pool = [i \in Ids |-> i]
  /\ head = 0 /\ tail = NumIds - 1 /\ empty = FALSE
  /\ id = NoId
  /\ held = {}

\* Mutations of GetId: the ring is found empty one id too late (the indices
\* are compared after the step), or a failing call steps on.
GetIdComparesLate ==
  /\ id' = IF empty THEN NoId ELSE pool[head]
  /\ held' = IF empty THEN held ELSE held \cup {pool[head]}
  /\ head' = IF empty THEN head ELSE After(head)
  /\ empty' = IF empty THEN empty ELSE (After(head) = tail)
  /\ UNCHANGED <<pool, tail>>

GetIdIgnoresEmpty ==
  /\ id' = pool[head]
  /\ held' = held \cup {pool[head]}
  /\ head' = After(head)
  /\ empty' = (head = tail)
  /\ UNCHANGED <<pool, tail>>

\* get_id
GetId ==
  /\ IF empty
     THEN id' = NoId /\ UNCHANGED <<head, empty, held>>
     ELSE /\ id' = pool[head]
          /\ held' = held \cup {pool[head]}
          /\ head' = After(head)
          /\ empty' = (head = tail)
  /\ UNCHANGED <<pool, tail>>

IsFull == ~empty /\ After(tail) = head

\* Mutation of ReleaseId: the flag of the empty ring stays up.
ReleaseIdKeepsEmpty(i) ==
  /\ i \in held
  /\ held' = held \ {i}
  /\ IF IsFull
     THEN UNCHANGED <<pool, tail>>
     ELSE /\ tail' = After(tail)
          /\ pool' = [pool EXCEPT ![tail'] = i]
  /\ UNCHANGED <<head, id, empty>>

\* release_id, of an id that get_id has given
ReleaseId(i) ==
  /\ i \in held
  /\ held' = held \ {i}
  /\ IF IsFull
     THEN UNCHANGED <<pool, tail, empty>>
     ELSE /\ tail' = After(tail)
          /\ pool' = [pool EXCEPT ![tail'] = i]
          /\ empty' = FALSE
  /\ UNCHANGED <<head, id>>

PoolNext == GetId \/ \E i \in Ids : ReleaseId(i)

PoolSpec == PoolInit /\ [][PoolNext]_poolVars

-----------------------------------------------------------------------------
\* The places of the ring that hold a free id.
Occupied ==
  {p \in Ids : /\ ~empty
               /\ IF head <= tail THEN head <= p /\ p <= tail
                                  ELSE head <= p \/ p <= tail}

\* Type invariant.
PoolTypeOK ==
  /\ pool \in [Ids -> Ids]
  /\ head \in Ids /\ tail \in Ids
  /\ empty \in BOOLEAN
  /\ id \in Ids \cup {NoId}
  /\ held \subseteq Ids

\* No id is lost and none is doubled: each is either with one holder or lies
\* at one place of the ring, whatever the order in which ids come back.
EachIdOnce ==
  \A i \in Ids :
    /\ i \in held <=> ~\E p \in Occupied : pool[p] = i
    /\ \A p, q \in Occupied : pool[p] = i /\ pool[q] = i => p = q

\* get_id gives no id that is still with a holder, and fails only when all are.
FreshOrExhausted ==
  [][GetId => IF id' = NoId THEN held = Ids ELSE id' \notin held]_poolVars

\* The free ids, in the order of the ring.
FreeIds == [k \in 1..Cardinality(Occupied) |-> pool[(head + k - 1) % NumIds]]

\* The ring is the queue of the abstract pool.
Fifo == INSTANCE IdFifo WITH free <- FreeIds

ImplementsFifo == Fifo!Spec
=============================================================================
