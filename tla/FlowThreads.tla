------------------------------ MODULE FlowThreads -------------------------------
(***************************************************************************)
(* The sender's flows of compact.c and their id pool, cut wherever a       *)
(* thread can be preempted: recv_tun runs xmit_compress, the main loop     *)
(* timer_event, recv_unsplit the CTL_ACK branch of recv_compress.          *)
(* xmit_compress holds sflow_lock for the look-up and for the insertion    *)
(* only; get_id takes no lock, while timer_event calls release_id under    *)
(* sflow_lock; recv_compress follows sflow_rindex with no lock.            *)
(*                                                                         *)
(* A flow may become due as soon as it is in the table: a thread may be    *)
(* preempted for any time, and deadlines that exceed an int have passed    *)
(* when they are set (FlowClock).  After undefined behaviour (fault) the   *)
(* process stops.                                                          *)
(***************************************************************************)
EXTENDS Integers, FiniteSets

CONSTANTS
  Keys,                     \* flow keys (skey_t)
  NumIds,                   \* size of the pool: 256
  NumFlows                  \* bound: flows built

NumsAssumption == NumIds \in Nat \ {0} /\ NumFlows \in Nat \ {0}

VARIABLES
  pool, head, tail, empty,  \* idpool_t
  flow,                     \* the sflow_node_t objects
  table,                    \* sflow_hmap: the flows in it
  rindex,                   \* sflow_rindex
  owner,                    \* who holds sflow_lock between steps
  tun,                      \* recv_tun: pc and local variables
  timer,                    \* the main loop
  ack,                      \* recv_unsplit
  asked,                    \* ids that a request was sent for
  crossed,                  \* history: get_id and release_id met at the last id
  fault                     \* the undefined behaviour met, if any

vars == <<pool, head, tail, empty, flow, table, rindex, owner, tun, timer, ack,
          asked, crossed, fault>>
ring == <<pool, head, tail, empty>>
flows == <<flow, table, rindex>>

Ids == 0..(NumIds - 1)
Flows == 1..NumFlows
None == 0                   \* the NULL pointer
NoKey == "no key"

After(i) == (i + 1) % NumIds

Unused == [mem |-> "unused", key |-> NoKey, fid |-> 0, state |-> "new",
           due |-> FALSE, early |-> FALSE]

TunOut == [pc |-> "out", key |-> NoKey, f |-> None, id |-> 0, last |-> FALSE]
TimerOut == [pc |-> "out", f |-> None]
AckOut == [pc |-> "out", id |-> 0, f |-> None]

Init ==
  /\ pool = [i \in Ids |-> i] /\ head = 0 /\ tail = NumIds - 1 /\ empty = FALSE
  /\ flow = [f \in Flows |-> Unused] /\ table = {} /\ rindex = [i \in Ids |-> None]
  /\ owner = "none" /\ tun = TunOut /\ timer = TimerOut /\ ack = AckOut
  /\ asked = {} /\ crossed = FALSE /\ fault = "none"

\* A step on a flow that may have been freed.
Touching(f, step) ==
  IF flow[f].mem = "freed"
  THEN fault' = "freed flow" /\ UNCHANGED <<flow, asked>>
  ELSE step /\ UNCHANGED fault

-----------------------------------------------------------------------------
(* recv_tun: xmit_compress. *)

Lookup(key) ==
  /\ tun.pc = "out" /\ owner = "none"
  /\ \/ \E f \in table : flow[f].key = key /\ tun' = [TunOut EXCEPT !.pc = "use", !.f = f]
     \/ /\ \A f \in table : flow[f].key # key
        /\ tun' = [TunOut EXCEPT !.pc = "compare", !.key = key]
  /\ UNCHANGED <<ring, flows, owner, timer, ack, asked, crossed, fault>>

\* No id is left once the head has passed the tail.
RanOut == head = After(tail)

\* release_id will yet store the flag.
Releasing == timer.pc \in {"store", "flag"}

\* get_id: getting_empty is computed, the id taken, the flag stored.  What it
\* stores may be wrong by then, if ids were released since it was computed.
GetCompare ==
  /\ tun.pc = "compare"
  /\ tun' = [tun EXCEPT !.pc = "take", !.last = (head = tail)]
  /\ UNCHANGED <<ring, flows, owner, timer, ack, asked, crossed, fault>>

GetTake ==
  /\ tun.pc = "take"
  /\ IF empty
     THEN tun' = TunOut /\ UNCHANGED head
     ELSE /\ tun' = [tun EXCEPT !.pc = "flag", !.id = pool[head]]
          /\ head' = After(head)
  /\ UNCHANGED <<pool, tail, empty, flows, owner, timer, ack, asked, crossed, fault>>

GetFlag ==
  /\ tun.pc = "flag"
  /\ empty' = tun.last
  /\ crossed' = (crossed \/ (tun.last # RanOut /\ ~Releasing))
  /\ tun' = [tun EXCEPT !.pc = "insert"]
  /\ UNCHANGED <<pool, head, tail, flows, owner, timer, ack, asked, fault>>

\* build_sflow_by_hash
Build ==
  /\ tun.pc = "insert" /\ owner = "none"
  /\ \E f \in Flows :
       /\ flow[f].mem = "unused" /\ \A g \in 1..(f - 1) : flow[g].mem # "unused"
       /\ flow' = [flow EXCEPT ![f] = [Unused EXCEPT !.mem = "live", !.key = tun.key,
                                                     !.fid = tun.id]]
       /\ table' = table \cup {f}
       /\ tun' = [tun EXCEPT !.pc = "index", !.f = f]
  /\ UNCHANGED <<ring, rindex, owner, timer, ack, asked, crossed, fault>>

Index ==
  /\ tun.pc = "index"
  /\ rindex' = [rindex EXCEPT ![tun.id] = tun.f]
  /\ tun' = [tun EXCEPT !.pc = "use"]
  /\ UNCHANGED <<ring, flow, table, owner, timer, ack, asked, crossed, fault>>

\* The switch over the state: a new flow sends its request.
Use ==
  /\ tun.pc = "use"
  /\ Touching(tun.f,
       IF flow[tun.f].state = "new"
       THEN /\ flow' = [flow EXCEPT ![tun.f].state = "pending"]
            /\ asked' = asked \cup {flow[tun.f].fid}
       ELSE UNCHANGED <<flow, asked>>)
  /\ tun' = [tun EXCEPT !.pc = "touch"]
  /\ UNCHANGED <<ring, table, rindex, owner, timer, ack, crossed>>

TouchSflow ==
  /\ tun.pc = "touch"
  /\ Touching(tun.f,
       /\ flow' = [flow EXCEPT ![tun.f].due = FALSE]
       /\ UNCHANGED asked)
  /\ tun' = TunOut
  /\ UNCHANGED <<ring, table, rindex, owner, timer, ack, crossed>>

-----------------------------------------------------------------------------
(* The main loop: timer_event. *)

TimerLock ==
  /\ timer.pc = "out" /\ owner = "none"
  /\ \E f \in table : flow[f].due
  /\ owner' = "timer" /\ timer' = [timer EXCEPT !.pc = "walk"]
  /\ UNCHANGED <<ring, flows, tun, ack, asked, crossed, fault>>

\* Mutation of TimerRemove: the reverse index keeps the flow.
TimerRemoveKeepsIndex(f) ==
  /\ timer.pc = "walk" /\ f \in table /\ flow[f].due
  /\ table' = table \ {f}
  /\ flow' = [flow EXCEPT ![f].early = (tun.pc = "index" /\ tun.f = f)]
  /\ timer' = [pc |-> "full", f |-> f]
  /\ UNCHANGED <<ring, rindex, owner, tun, ack, asked, crossed, fault>>

\* A flow that is due leaves both indexes.  If recv_tun has yet to enter it in
\* the reverse index, it will do so too late (early).
TimerRemove(f) ==
  /\ timer.pc = "walk" /\ f \in table /\ flow[f].due
  /\ table' = table \ {f}
  /\ rindex' = [rindex EXCEPT ![flow[f].fid] = None]
  /\ flow' = [flow EXCEPT ![f].early = (tun.pc = "index" /\ tun.f = f)]
  /\ timer' = [pc |-> "full", f |-> f]
  /\ UNCHANGED <<ring, owner, tun, ack, asked, crossed, fault>>

\* release_id: is_full is computed, then tail, the id and the flag stored.  A
\* ring that get_id has just emptied looks full until it stores the flag.
ReleaseFull ==
  /\ timer.pc = "full"
  /\ timer' = [timer EXCEPT !.pc = IF ~empty /\ RanOut THEN "free" ELSE "tail"]
  /\ crossed' = (crossed \/ (tun.pc = "flag" /\ RanOut))
  /\ UNCHANGED <<ring, flows, owner, tun, ack, asked, fault>>

ReleaseTail ==
  /\ timer.pc = "tail"
  /\ tail' = After(tail)
  /\ timer' = [timer EXCEPT !.pc = "store"]
  /\ UNCHANGED <<pool, head, empty, flows, owner, tun, ack, asked, crossed, fault>>

ReleaseStore ==
  /\ timer.pc = "store"
  /\ pool' = [pool EXCEPT ![tail] = flow[timer.f].fid]
  /\ timer' = [timer EXCEPT !.pc = "flag"]
  /\ UNCHANGED <<head, tail, empty, flows, owner, tun, ack, asked, crossed, fault>>

ReleaseFlag ==
  /\ timer.pc = "flag"
  /\ empty' = FALSE
  /\ timer' = [timer EXCEPT !.pc = "free"]
  /\ UNCHANGED <<pool, head, tail, flows, owner, tun, ack, asked, crossed, fault>>

TimerFree ==
  /\ timer.pc = "free"
  /\ flow' = [flow EXCEPT ![timer.f].mem = "freed"]
  /\ timer' = [pc |-> "walk", f |-> None]
  /\ UNCHANGED <<ring, table, rindex, owner, tun, ack, asked, crossed, fault>>

TimerUnlock ==
  /\ timer.pc = "walk"
  /\ owner' = "none" /\ timer' = TimerOut
  /\ UNCHANGED <<ring, flows, tun, ack, asked, crossed, fault>>

\* The flow's deadline has passed.
Elapse(f) ==
  /\ f \in table /\ ~flow[f].due
  /\ flow' = [flow EXCEPT ![f].due = TRUE]
  /\ UNCHANGED <<ring, table, rindex, owner, tun, timer, ack, asked, crossed, fault>>

-----------------------------------------------------------------------------
(* recv_unsplit: CTL_ACK in recv_compress. *)

AckTest(i) ==
  /\ ack.pc = "out" /\ i \in asked
  /\ rindex[i] # None
  /\ ack' = [pc |-> "follow", id |-> i, f |-> rindex[i]]
  /\ UNCHANGED <<ring, flows, owner, tun, timer, asked, crossed, fault>>

\* The build may keep the pointer it tested or read it again.
AckFollow ==
  /\ ack.pc = "follow"
  /\ \E f \in {ack.f, rindex[ack.id]} :
       \/ f = None /\ fault' = "null flow" /\ UNCHANGED <<flow, asked>>
       \/ f # None /\ Touching(f, /\ flow' = [flow EXCEPT ![f].state = "established"]
                                  /\ UNCHANGED asked)
  /\ ack' = AckOut
  /\ UNCHANGED <<ring, table, rindex, owner, tun, timer, crossed>>

-----------------------------------------------------------------------------
Tun == \/ \E key \in Keys : Lookup(key)
       \/ GetCompare \/ GetTake \/ GetFlag \/ Build \/ Index \/ Use \/ TouchSflow

Timer == \/ TimerLock \/ TimerUnlock \/ \E f \in Flows : TimerRemove(f)
         \/ ReleaseFull \/ ReleaseTail \/ ReleaseStore \/ ReleaseFlag \/ TimerFree

Ack == AckFollow \/ \E i \in Ids : AckTest(i)

Next ==
  /\ fault = "none"
  /\ Tun \/ Timer \/ Ack \/ \E f \in Flows : Elapse(f)

Spec == Init /\ [][Next]_vars

-----------------------------------------------------------------------------
TypeOK ==
  /\ pool \in [Ids -> Ids] /\ head \in Ids /\ tail \in Ids /\ empty \in BOOLEAN
  /\ table \subseteq Flows /\ rindex \in [Ids -> Flows \cup {None}]
  /\ owner \in {"none", "timer"} /\ asked \subseteq Ids /\ crossed \in BOOLEAN
  /\ fault \in {"none", "freed flow", "null flow"}

\* The ids in use: those of the flows in the table and the one that recv_tun has
\* taken for the next.
InUse == {flow[f].fid : f \in table} \cup (IF tun.pc \in {"flag", "insert"} THEN {tun.id} ELSE {})

\* The places of the ring that hold a free id.
Occupied ==
  {p \in Ids : /\ ~empty
               /\ IF head <= tail THEN head <= p /\ p <= tail
                                  ELSE head <= p \/ p <= tail}

\* No id is lost: when no thread is inside the pool, each is in use or in the
\* ring, once.
IdsKept ==
  (tun.pc # "flag" /\ timer.pc \in {"out", "walk", "free"}) =>
    \A i \in Ids :
      Cardinality({p \in Occupied : pool[p] = i}) = (IF i \in InUse THEN 0 ELSE 1)

\* The reverse index leads to the flow that has the id.  That flow is in the table
\* unless timer_event removed it before recv_tun entered it in the index.
IndexLeads ==
  /\ \A i \in Ids : rindex[i] # None =>
       /\ flow[rindex[i]].fid = i
       /\ rindex[i] \in table \/ flow[rindex[i]].early
  /\ \A f \in table : flow[f].mem = "live"

\* It leads to all flows of the table but the one that is being built.
AllIndexed ==
  \A f \in table : rindex[flow[f].fid] = f \/ (tun.pc = "index" /\ tun.f = f)

\* The three places that know of a flow (the table, its reverse index and the id
\* pool) agree, in whatever order the threads' steps come, until get_id and
\* release_id cross at the last id; and what the index leads to, even then.
FlowTablesSound == TypeOK /\ IndexLeads /\ (~crossed => IdsKept /\ AllIndexed)
=============================================================================
