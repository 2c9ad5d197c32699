----------------------------- MODULE SplitThreads -----------------------------
(***************************************************************************)
(* The sending sessions of split.c at the grain of their locks: what Split *)
(* takes as one step is here cut wherever a thread can be preempted with   *)
(* the shared state open to the others.  The threads are those of test.c:  *)
(* recv_tun and recv_unsplit call upper_send, recv_udp calls proc_ack_all  *)
(* and proc_ack_part, the main loop calls proc_timer.                      *)
(*                                                                         *)
(* get_sse looks a session up under sse_lock and uses it afterwards; only  *)
(* proc_timer holds sse_lock for longer than one step.  upper_send numbers *)
(* its packet and tries to send it without the lock of the session.        *)
(*                                                                         *)
(* Abstractions.  One peer.  A thread may be preempted for any time, hence *)
(* a session may become idle and an armed timer expire at any moment; how  *)
(* often a packet was retried is left open.  The critical sections of      *)
(* lower_send_lock take no other lock and are single steps.  A step on     *)
(* memory that was freed, and one that takes the front of an empty list,   *)
(* are undefined behaviour: fault says so and the process stops there.     *)
(***************************************************************************)
EXTENDS Integers, Sequences, FiniteSets

CONSTANTS
  Senders,          \* threads that call upper_send
  NumPkts,          \* bound: packets accepted
  NumSess,          \* bound: sessions created
  NumSeq,           \* sequence numbers: 256 in the code
  Idles             \* TRUE: sessions may become idle

ASSUME ConstantsAssumption ==
  /\ IsFiniteSet(Senders)
  /\ NumPkts \in Nat \ {0} /\ NumSess \in Nat \ {0} /\ NumSeq \in Nat \ {0}
  /\ Idles \in BOOLEAN
  /\ "udp" \notin Senders /\ "main" \notin Senders /\ "none" \notin Senders

Threads == Senders \cup {"udp", "main"}
Pkts == 1..NumPkts
Sessions == 1..NumSess
SeqNos == 0..(NumSeq - 1)

None == 0                   \* the NULL pointer

VARIABLES
  loc,                      \* per thread: pc and local variables
  sess,                     \* the sse_t objects
  table,                    \* sse[k->mac]
  tableOwner,               \* who holds sse_lock between steps
  pkt,                      \* the send_node_t objects; by: who pushes it (history)
  taken,                    \* packets that upper_send was called with
  sent,                     \* numbers of the DATA frames put on lower_send_list
  fault                     \* the undefined behaviour met, if any

vars == <<loc, sess, table, tableOwner, pkt, taken, sent, fault>>

-----------------------------------------------------------------------------
NewSession ==
  [state |-> "live", seq |-> 0, q |-> <<>>, waiting |-> FALSE,
   armed |-> FALSE, idle |-> FALSE, owner |-> "none"]

Unused == [NewSession EXCEPT !.state = "unused"]

Outside ==
  [pc |-> "out", next |-> "out", se |-> None, old |-> None,
   pk |-> None, front |-> None, num |-> 0]

At(t, pc) == loc[t].pc = pc

Goto(t, pc) == loc' = [loc EXCEPT ![t].pc = pc]

Return(t) == loc' = [loc EXCEPT ![t] = Outside]

\* The thread's session, and an update of it.
Mine(t) == sess[loc[t].se]

Update(t, se) == sess' = [sess EXCEPT ![loc[t].se] = se]

FreePkts(S) == pkt' = [p \in Pkts |-> IF p \in S THEN [pkt[p] EXCEPT !.state = "freed"]
                                                 ELSE pkt[p]]

InQueue(q) == {q[i] : i \in DOMAIN q}

-----------------------------------------------------------------------------
(* get_sse and create_sse. *)

\* The part of get_sse under sse_lock; next is what the caller does with it.
Lookup(t, next, num, pk) ==
  /\ At(t, "out")
  /\ tableOwner = "none"
  /\ loc' = [loc EXCEPT ![t] =
       [Outside EXCEPT !.se = table, !.next = next, !.num = num, !.pk = pk,
          !.pc = IF table # None THEN "refresh"
                 ELSE IF t \in Senders THEN "create" ELSE "out"]]
  /\ UNCHANGED <<sess, table, tableOwner, pkt, sent, fault>>

\* The part of get_sse after it: the idle deadline is pushed back.
Refresh(t) ==
  /\ At(t, "refresh")
  /\ Update(t, [Mine(t) EXCEPT !.idle = FALSE])
  /\ Goto(t, loc[t].next)
  /\ UNCHANGED <<table, tableOwner, pkt, taken, sent, fault>>

Create(t) ==
  /\ At(t, "create")
  /\ tableOwner = "none"
  /\ \E s \in Sessions :
       /\ sess[s].state = "unused"
       /\ \A r \in 1..(s - 1) : sess[r].state # "unused"
       /\ sess' = [sess EXCEPT ![s] = NewSession]
       /\ table' = s
       /\ loc' = [loc EXCEPT ![t].se = s, ![t].old = table,
                    ![t].pc = IF table = None THEN "number" ELSE "replace"]
  /\ UNCHANGED <<tableOwner, pkt, taken, sent, fault>>

\* Mutation of Replace: the packets of the session are not freed.
ReplaceKeepsPkts(t) ==
  /\ At(t, "replace")
  /\ tableOwner = "none"
  /\ sess' = [sess EXCEPT ![loc[t].old].state = "freed"]
  /\ Goto(t, "number")
  /\ UNCHANGED <<table, tableOwner, pkt, taken, sent, fault>>

\* Mutation of Replace: the session itself is not freed.
ReplaceKeepsSession(t) ==
  /\ At(t, "replace")
  /\ tableOwner = "none"
  /\ FreePkts(InQueue(sess[loc[t].old].q))
  /\ Goto(t, "number")
  /\ UNCHANGED <<sess, table, tableOwner, taken, sent, fault>>

\* create_sse frees the session that it replaced in the table.
Replace(t) ==
  /\ At(t, "replace")
  /\ tableOwner = "none"
  /\ sess' = [sess EXCEPT ![loc[t].old].state = "freed"]
  /\ FreePkts(InQueue(sess[loc[t].old].q))
  /\ Goto(t, "number")
  /\ UNCHANGED <<table, tableOwner, taken, sent, fault>>

-----------------------------------------------------------------------------
(* upper_send. *)

\* The bound on sessions: one is left for each thread that is to create one.
SessionsLeft ==
  table = None => Cardinality({u \in Senders : At(u, "create")})
                    < Cardinality({s \in Sessions : sess[s].state = "unused"})

UpperSend(t) ==
  /\ t \in Senders
  /\ taken < NumPkts /\ SessionsLeft
  /\ taken' = taken + 1
  /\ Lookup(t, "number", 0, taken + 1)

\* mh->seq = se->seq
ReadSeq(t) ==
  /\ At(t, "number")
  /\ pkt' = [pkt EXCEPT ![loc[t].pk] =
               [state |-> "live", num |-> Mine(t).seq, by |-> t]]
  /\ loc' = [loc EXCEPT ![t].num = Mine(t).seq, ![t].pc = "advance"]
  /\ UNCHANGED <<sess, table, tableOwner, taken, sent, fault>>

\* se->seq = (se->seq + 1) & 0xff, with the value read before or read again
WriteSeq(t) ==
  /\ At(t, "advance")
  /\ \E n \in {loc[t].num, Mine(t).seq} :
       Update(t, [Mine(t) EXCEPT !.seq = (n + 1) % NumSeq])
  /\ Goto(t, "push")
  /\ UNCHANGED <<table, tableOwner, pkt, taken, sent, fault>>

\* The push, under se->lock.
Push(t) ==
  /\ At(t, "push")
  /\ Mine(t).owner = "none"
  /\ Update(t, [Mine(t) EXCEPT !.q = Append(@, loc[t].pk)])
  /\ loc' = [loc EXCEPT ![t].pk = None, ![t].pc = "test"]
  /\ UNCHANGED <<table, tableOwner, pkt, taken, sent, fault>>

-----------------------------------------------------------------------------
(* try_lower_send: by upper_send without the lock, by proc_ack_all and     *)
(* proc_sse_ack_timeout with it.                                           *)

Leave(t) ==
  IF t \in Senders THEN Return(t) ELSE Goto(t, "unlock")

TestWaiting(t) ==
  /\ At(t, "test")
  /\ IF Mine(t).waiting THEN Leave(t) ELSE Goto(t, "empty")
  /\ UNCHANGED <<sess, table, tableOwner, pkt, taken, sent, fault>>

TestEmpty(t) ==
  /\ At(t, "empty")
  /\ IF Mine(t).q = <<>> THEN Leave(t) ELSE Goto(t, "front")
  /\ UNCHANGED <<sess, table, tableOwner, pkt, taken, sent, fault>>

\* list_front, on a list that another thread may have emptied since
TakeFront(t) ==
  /\ At(t, "front")
  /\ Mine(t).q # <<>>
  /\ loc' = [loc EXCEPT ![t].front = Head(Mine(t).q), ![t].pc = "put"]
  /\ UNCHANGED <<sess, table, tableOwner, pkt, taken, sent, fault>>

PutLower(t) ==
  /\ At(t, "put")
  /\ sent' = sent \cup {pkt[loc[t].front].num}
  /\ Goto(t, "arm")
  /\ UNCHANGED <<sess, table, tableOwner, pkt, taken, fault>>

Arm(t) ==
  /\ At(t, "arm")
  /\ Update(t, [Mine(t) EXCEPT !.armed = TRUE])
  /\ Goto(t, "wait")
  /\ UNCHANGED <<table, tableOwner, pkt, taken, sent, fault>>

SetWaiting(t) ==
  /\ At(t, "wait")
  /\ Update(t, [Mine(t) EXCEPT !.waiting = TRUE])
  /\ Leave(t)
  /\ UNCHANGED <<table, tableOwner, pkt, taken, sent, fault>>

-----------------------------------------------------------------------------
(* proc_ack_all and proc_ack_part, in the udp thread. *)

\* The peer acknowledges a DATA frame that was sent, early, late or again.
AckArrives ==
  /\ \E n \in sent, next \in {"ackall", "ackpart"} : Lookup("udp", next, n, None)
  /\ table # None
  /\ UNCHANGED taken

Locked(t, se) == [se EXCEPT !.owner = t]

HeadNum(se) == pkt[Head(se.q)].num

\* Mutation of PopAcked: the session is replaced by a fresh one, under its lock.
PopAckedRenews(t) ==
  /\ At(t, "ackall")
  /\ Mine(t).owner = "none"
  /\ Mine(t).q # <<>> /\ HeadNum(Mine(t)) = loc[t].num
  /\ Update(t, Locked(t, [Mine(t) EXCEPT !.q = Tail(@), !.waiting = FALSE]))
  /\ loc' = [loc EXCEPT ![t].pk = Head(Mine(t).q), ![t].pc = "create"]
  /\ UNCHANGED <<table, tableOwner, pkt, taken, sent, fault>>

\* Mutation of PopAcked: the packet is freed and left in the queue.
PopAckedLeaves(t) ==
  /\ At(t, "ackall")
  /\ Mine(t).owner = "none"
  /\ IF Mine(t).q # <<>> /\ HeadNum(Mine(t)) = loc[t].num
     THEN /\ Update(t, Locked(t, [Mine(t) EXCEPT !.waiting = FALSE]))
          /\ loc' = [loc EXCEPT ![t].pk = Head(Mine(t).q), ![t].pc = "clear"]
     ELSE Return(t) /\ UNCHANGED sess
  /\ UNCHANGED <<table, tableOwner, pkt, taken, sent, fault>>

\* Under se->lock: the acknowledged packet leaves the queue.
PopAcked(t) ==
  /\ At(t, "ackall")
  /\ Mine(t).owner = "none"
  /\ IF Mine(t).q # <<>> /\ HeadNum(Mine(t)) = loc[t].num
     THEN /\ Update(t, Locked(t, [Mine(t) EXCEPT !.q = Tail(@), !.waiting = FALSE]))
          /\ loc' = [loc EXCEPT ![t].pk = Head(Mine(t).q), ![t].pc = "clear"]
     ELSE Return(t) /\ UNCHANGED sess
  /\ UNCHANGED <<table, tableOwner, pkt, taken, sent, fault>>

\* The ack timer is removed, then the next packet is tried.
ClearTimer(t) ==
  /\ At(t, "clear")
  /\ Update(t, [Mine(t) EXCEPT !.armed = FALSE])
  /\ Goto(t, "test")
  /\ UNCHANGED <<table, tableOwner, pkt, taken, sent, fault>>

\* proc_ack_part, under se->lock: the timer starts again, slices are sent.
AckPart(t) ==
  /\ At(t, "ackpart")
  /\ Mine(t).owner = "none"
  /\ Update(t, [Mine(t) EXCEPT
       !.armed = @ \/ (Mine(t).q # <<>> /\ HeadNum(Mine(t)) = loc[t].num)])
  /\ Return(t)
  /\ UNCHANGED <<table, tableOwner, pkt, taken, sent, fault>>

Unlock(t) ==
  /\ At(t, "unlock")
  /\ Update(t, [Mine(t) EXCEPT !.owner = "none"])
  /\ IF loc[t].pk # None THEN Goto(t, "free")
     ELSE Goto(t, "reap")
  /\ UNCHANGED <<table, tableOwner, pkt, taken, sent, fault>>

FreePkt(t) ==
  /\ At(t, "free")
  /\ FreePkts({loc[t].pk})
  /\ IF t = "main" THEN Goto(t, "reap") ELSE Return(t)
  /\ UNCHANGED <<sess, table, tableOwner, taken, sent, fault>>

-----------------------------------------------------------------------------
(* proc_timer, in the main thread, under sse_lock. *)

TimerIdle ==
  /\ At("main", "out") /\ tableOwner = "none" /\ table = None
  /\ UNCHANGED vars

TimerStart ==
  /\ At("main", "out")
  /\ tableOwner = "none"
  /\ table # None
  /\ tableOwner' = "main"
  /\ loc' = [loc EXCEPT !["main"].se = table, !["main"].pc = "expired"]
  /\ UNCHANGED <<sess, table, pkt, taken, sent, fault>>

\* An armed timer has expired or not.
TimerTest ==
  /\ At("main", "expired")
  /\ \/ Mine("main").armed /\ Goto("main", "timeout")
     \/ Goto("main", "reap")
  /\ UNCHANGED <<sess, table, tableOwner, pkt, taken, sent, fault>>

\* proc_sse_ack_timeout, under se->lock: ask again, send again or give up.
AckTimeout ==
  /\ At("main", "timeout")
  /\ LET se == [Mine("main") EXCEPT !.idle = FALSE]
     IN /\ se.owner = "none"
        /\ se.q # <<>>
        /\ \/ /\ Update("main", Locked("main", se))
              /\ Goto("main", "unlock")
           \/ /\ Update("main", Locked("main", [se EXCEPT !.waiting = FALSE]))
              /\ Goto("main", "test")
           \/ /\ Update("main", Locked("main",
                   [se EXCEPT !.q = Tail(@), !.waiting = FALSE]))
              /\ loc' = [loc EXCEPT !["main"].pk = Head(se.q), !["main"].pc = "clear"]
  /\ UNCHANGED <<table, tableOwner, pkt, taken, sent, fault>>

\* The rest of proc_timer: an idle session is freed, lock, packets and all.
Reap ==
  /\ At("main", "reap")
  /\ IF Mine("main").idle
     THEN /\ table' = None
          /\ Update("main", [Mine("main") EXCEPT !.state = "freed"])
          /\ FreePkts(InQueue(Mine("main").q))
     ELSE UNCHANGED <<table, sess, pkt>>
  /\ tableOwner' = "none"
  /\ Return("main")
  /\ UNCHANGED <<taken, sent, fault>>

\* Time passes the idle deadline of a session.
IdleExpires(s) ==
  /\ Idles
  /\ sess[s].state = "live" /\ ~sess[s].idle
  /\ sess' = [sess EXCEPT ![s].idle = TRUE]
  /\ UNCHANGED <<loc, table, tableOwner, pkt, taken, sent, fault>>

-----------------------------------------------------------------------------
(* Undefined behaviour. *)

UsesSession ==
  {"refresh", "number", "advance", "push", "test", "empty", "front", "arm", "wait",
   "ackall", "clear", "ackpart", "unlock", "expired", "timeout", "reap"}

Fault(t) ==
  \/ /\ loc[t].pc \in UsesSession /\ Mine(t).state = "freed"
     /\ fault' = "freed session"
  \/ /\ At(t, "put") /\ pkt[loc[t].front].state = "freed"
     /\ fault' = "freed packet"
  \/ /\ At(t, "front") \/ (At(t, "timeout") /\ Mine(t).owner = "none")
     /\ Mine(t).state = "live" /\ Mine(t).q = <<>>
     /\ fault' = "empty list"

Sound(t) ==
  /\ loc[t].pc \in UsesSession => Mine(t).state = "live"
  /\ At(t, "put") => pkt[loc[t].front].state = "live"

Crash == \E t \in Threads : Fault(t) /\ UNCHANGED <<loc, sess, table, tableOwner, pkt, taken, sent>>

Stopped == fault # "none" /\ UNCHANGED vars

-----------------------------------------------------------------------------
\* split_init
Init ==
  /\ loc = [t \in Threads |-> Outside]
  /\ sess = [s \in Sessions |-> Unused]
  /\ table = None /\ tableOwner = "none"
  /\ pkt = [p \in Pkts |-> [state |-> "unused", num |-> 0, by |-> "none"]]
  /\ taken = 0 /\ sent = {}
  /\ fault = "none"

TrySend(t) ==
  TestWaiting(t) \/ TestEmpty(t) \/ TakeFront(t) \/ PutLower(t) \/ Arm(t) \/ SetWaiting(t)

Sender(t) ==
  UpperSend(t) \/ Create(t) \/ Replace(t) \/ ReadSeq(t) \/ WriteSeq(t) \/ Push(t)

Acks == AckArrives \/ PopAcked("udp") \/ AckPart("udp")

Timer == TimerIdle \/ TimerStart \/ TimerTest \/ AckTimeout \/ Reap

Step(t) ==
  \/ t \in Senders /\ Sender(t)
  \/ t = "udp" /\ Acks
  \/ t = "main" /\ Timer
  \/ Refresh(t) \/ TrySend(t) \/ ClearTimer(t) \/ Unlock(t) \/ FreePkt(t)

Next ==
  \/ fault = "none" /\ \E t \in Threads : Sound(t) /\ Step(t)
  \/ fault = "none" /\ \E s \in Sessions : IdleExpires(s)
  \/ fault = "none" /\ Crash
  \/ Stopped

Spec == Init /\ [][Next]_vars

-----------------------------------------------------------------------------
\* Type invariant.
TypeOK ==
  /\ loc \in [Threads ->
       [pc : UsesSession \cup {"out", "create", "replace", "put", "free"},
        next : {"out", "number", "ackall", "ackpart"},
        se : 0..NumSess, old : 0..NumSess, pk : 0..NumPkts, front : 0..NumPkts,
        num : SeqNos]]
  /\ sess \in [Sessions ->
       [state : {"unused", "live", "freed"}, seq : SeqNos, q : Seq(Pkts),
        waiting : BOOLEAN, armed : BOOLEAN, idle : BOOLEAN,
        owner : {"none", "udp", "main"}]]
  /\ pkt \in [Pkts -> [state : {"unused", "live", "freed"}, num : SeqNos,
                     by : Senders \cup {"none"}]]
  /\ table \in 0..NumSess /\ tableOwner \in {"none", "main"}
  /\ taken \in 0..NumPkts /\ sent \subseteq SeqNos
  /\ fault \in {"none", "freed session", "freed packet", "empty list"}

\* What a thread needs next of the locks that are held between steps.
WaitsForTable(t) ==
  /\ loc[t].pc \in {"create", "replace"} \/ (t = "main" /\ At(t, "out"))
  /\ tableOwner # "none"

WaitsForSession(t) ==
  /\ loc[t].pc \in {"push", "ackall", "ackpart", "timeout"}
  /\ Mine(t).owner # "none"

\* proc_timer takes a session's lock while it holds sse_lock; no thread does
\* it the other way round, so that no two wait for each other.
NoCircularWait ==
  \A t, u \in Threads :
    ~ /\ WaitsForTable(t) /\ tableOwner = u
      /\ WaitsForSession(u) /\ Mine(u).owner = t

\* Packets are numbered as upper_send is called with them.
InOrder(q) ==
  \A i, j \in DOMAIN q : i < j /\ pkt[q[i]].by = pkt[q[j]].by => q[i] < q[j]

\* Whatever the threads do to a queue, a packet is in it once, those of one
\* thread are in the order of its calls, and none is freed before it has left.
QueuesSound ==
  \A s \in Sessions : sess[s].state = "live" =>
    /\ InOrder(sess[s].q)
    /\ \A i, j \in DOMAIN sess[s].q : sess[s].q[i] = sess[s].q[j] => i = j
    /\ \A p \in InQueue(sess[s].q) : pkt[p].state = "live"
    /\ \A t \in Threads : At(t, "free") => loc[t].pk \notin InQueue(sess[s].q)

\* No packet leaks: one that is allocated waits in the queue of a session or is
\* in the hands of one thread, which will queue or free it.
PacketsKept ==
  \A p \in Pkts : pkt[p].state = "live" =>
    \/ \E s \in Sessions : sess[s].state = "live" /\ p \in InQueue(sess[s].q)
    \/ Cardinality({t \in Threads : loc[t].pk = p}) = 1

\* No session is lost: one that is not in the table is about to be freed by
\* the thread that replaced it.
NoSessionLost ==
  \A s \in Sessions : sess[s].state = "live" =>
    s = table \/ \E t \in Threads : At(t, "replace") /\ loc[t].old = s

\* Two packets that wait in one queue have different numbers, so that an ACKA
\* is for one of them (upper_send takes a number with no lock).
NumbersDiffer ==
  \A s \in Sessions : sess[s].state = "live" =>
    \A i, j \in DOMAIN sess[s].q :
      pkt[sess[s].q[i]].num = pkt[sess[s].q[j]].num => i = j

\* No thread uses a session that another freed (get_sse returns a pointer).
NoFreedSession == fault # "freed session"

\* When all calls have returned, a packet that is queued waits with its timer
\* armed (try_lower_send); otherwise nothing will ever send it.
QueueServed ==
  (table # None /\ \A t \in Threads : At(t, "out")) =>
    (sess[table].q # <<>> => sess[table].waiting /\ sess[table].armed)

\* list_front is not called on an empty list (its debug check): the ack timer
\* finds a packet to send again, and so does upper_send after its test.
FrontFound == fault # "empty list"

\* upper_send is "thread safe" (the comment above it).
ThreadSafe == NumbersDiffer /\ NoFreedSession /\ QueueServed /\ FrontFound

=============================================================================
