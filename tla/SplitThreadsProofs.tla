--------------------------- MODULE SplitThreadsProofs ---------------------------
(***************************************************************************)
(* Proofs about SplitThreads for any number of senders, packets, sessions  *)
(* and sequence numbers: what holds although upper_send uses a session     *)
(* without its lock, up to the moment at which a thread meets undefined    *)
(* behaviour.                                                              *)
(***************************************************************************)
EXTENDS SplitThreads, FiniteSetTheorems, SequenceTheorems, TLAPS

\* Where a thread is while it still has its packet, or has one to free.
Trying == {"test", "empty", "front", "put", "arm", "wait"}
Fresh == {"refresh", "create", "replace", "number"}
Queuing == Fresh \cup {"advance", "push"}
Releasing == {"clear", "unlock", "free"} \cup Trying

\* What the locals of each thread can be: where it is, that it has a session
\* when it uses one, and whether it has a packet in its hands.
LocalsOf(t, l) ==
  /\ l.pc \in UsesSession \cup {"put", "replace"} => l.se # None
  /\ l.pc = "put" => l.front # None
  /\ t \in Senders =>
       /\ l.pc \in {"out"} \cup Queuing \cup Trying
       /\ l.pc = "refresh" => l.next = "number"
       /\ l.pk # None <=> l.pc \in Queuing
  /\ t = "udp" =>
       /\ l.pc \in {"out", "refresh", "ackall", "ackpart"} \cup Releasing
       /\ l.pc = "refresh" => l.next \in {"ackall", "ackpart"}
       /\ l.pk # None <=> l.pc \in Releasing
  /\ t = "main" =>
       /\ l.pc \in {"out", "expired", "timeout", "reap"} \cup Releasing
       /\ l.pk # None => l.pc \in {"reap"} \cup Releasing
       /\ l.pc = "free" => l.pk # None

Locals == \A t \in Threads : LocalsOf(t, loc[t])

\* proc_timer holds sse_lock as long as it runs, and works on the session that
\* is in the table; each session that was replaced has one thread to free it.
TimerHolds ==
  /\ tableOwner = IF At("main", "out") THEN "none" ELSE "main"
  /\ ~At("main", "out") => loc["main"].se = table /\ table # None

TableLive == table # None => sess[table].state = "live"

ReplacedOnce ==
  \A t \in Threads : At(t, "replace") =>
    /\ loc[t].old # None /\ loc[t].old # table
    /\ sess[loc[t].old].state = "live"
    /\ \A u \in Threads :
         At(u, "replace") /\ loc[u].old = loc[t].old => u = t

\* A packet in somebody's hands is in nobody else's, and is allocated from the
\* numbering of it (mem_malloc) to its release.
StateInHand(l) == IF l.pc \in Fresh THEN "unused"
                  ELSE IF l.pc = "reap" THEN "freed" ELSE "live"

Hands ==
  /\ \A t \in Threads :
       loc[t].pk # None => /\ pkt[loc[t].pk].state = StateInHand(loc[t])
                           /\ loc[t].pk <= taken
  /\ \A t, u \in Threads : loc[t].pk = loc[u].pk /\ loc[t].pk # None => t = u
  /\ \A p \in Pkts : p > taken => pkt[p].state = "unused"

\* One in the queue of a session is there once, in no other queue and in
\* nobody's hands.
Holds(s, p) == sess[s].state = "live" /\ \E i \in 1..Len(sess[s].q) : sess[s].q[i] = p

NoDuplicates(q) == \A i, j \in 1..Len(q) : q[i] = q[j] => i = j

Queues ==
  /\ \A s \in Sessions : sess[s].state = "live" => NoDuplicates(sess[s].q)
  /\ \A s \in Sessions : \A p \in Pkts : Holds(s, p) =>
       /\ pkt[p].state = "live"
       /\ \A t \in Threads : loc[t].pk # p
       /\ \A r \in Sessions : Holds(r, p) => r = s

\* An allocated packet is in a queue or in somebody's hands.
Somewhere ==
  \A p \in Pkts : pkt[p].state = "live" =>
    (\E s \in Sessions : Holds(s, p)) \/ \E t \in Threads : loc[t].pk = p

IInv ==
  /\ TypeOK /\ Locals
  /\ TimerHolds /\ TableLive /\ ReplacedOnce /\ NoSessionLost
  /\ Hands /\ Queues /\ Somewhere

-----------------------------------------------------------------------------
(* The threads, their locals and the sessions as sets. *)

LocType ==
  [pc : UsesSession \cup {"out", "create", "replace", "put", "free"},
   next : {"out", "number", "ackall", "ackpart"},
   se : 0..NumSess, old : 0..NumSess, pk : 0..NumPkts, front : 0..NumPkts,
   num : SeqNos]

SessType ==
  [state : {"unused", "live", "freed"}, seq : SeqNos, q : Seq(Pkts),
   waiting : BOOLEAN, armed : BOOLEAN, idle : BOOLEAN,
   owner : {"none", "udp", "main"}]

LEMMA Roles ==
  /\ \A t \in Threads : t \in Senders \/ t = "udp" \/ t = "main"
  /\ "udp" \in Threads /\ "main" \in Threads
  /\ "udp" \notin Senders /\ "main" \notin Senders
  /\ \A t \in Senders : t \in Threads
  /\ "none" \notin Threads
BY ConstantsAssumption DEF Threads

LEMMA Numbers ==
  /\ NumPkts \in Nat /\ NumSess \in Nat /\ NumSeq \in Nat \ {0}
  /\ 0 \in 0..NumSess /\ 0 \in 0..NumPkts /\ 0 \in SeqNos
  /\ \A s \in 0..NumSess : s # None => s \in Sessions
  /\ \A p \in 0..NumPkts : p # None => p \in Pkts
  /\ \A s \in Sessions : s \in 0..NumSess /\ s # None
  /\ \A p \in Pkts : p \in 0..NumPkts /\ p # None
BY ConstantsAssumption DEF SeqNos, Sessions, Pkts, None

LEMMA OutsideType == Outside \in LocType
BY Numbers DEF Outside, LocType, None

LEMMA NewSessionType == NewSession \in SessType /\ Unused \in SessType
BY Numbers, EmptySeq DEF NewSession, Unused, SessType

LEMMA Typed ==
  TypeOK <=> /\ loc \in [Threads -> LocType]
             /\ sess \in [Sessions -> SessType]
             /\ pkt \in [Pkts -> [state : {"unused", "live", "freed"}, num : SeqNos,
                                 by : Senders \cup {"none"}]]
             /\ table \in 0..NumSess /\ tableOwner \in {"none", "main"}
             /\ taken \in 0..NumPkts /\ sent \subseteq SeqNos
             /\ fault \in {"none", "freed session", "freed packet", "empty list"}
BY DEF TypeOK, LocType, SessType

LEMMA Counted ==
  ASSUME TypeOK
  PROVE  taken \in Nat /\ taken \in 0..NumPkts
<1>1. taken \in 0..NumPkts
  BY DEF TypeOK
<1>2. NumPkts \in Nat
  BY Numbers
<1> QED BY <1>1, <1>2

\* What the thread t may do next with its session: it is allocated.
LEMMA MineLive ==
  ASSUME IInv, NEW t \in Threads, Sound(t), loc[t].pc \in UsesSession
  PROVE  loc[t].se \in Sessions /\ sess[loc[t].se].state = "live"
         /\ Mine(t) \in SessType /\ Mine(t) = sess[loc[t].se]
<1>1. loc[t] \in LocType /\ loc[t].se # None
  BY Typed DEF IInv, Locals, LocalsOf
<1>2. loc[t].se \in Sessions
  BY <1>1, Numbers DEF LocType
<1> QED BY <1>2, Typed DEF IInv, Sound, Mine

\* Changing the locals of one thread.
LEMMA OneMoves ==
  ASSUME TypeOK, NEW t \in Threads, NEW l, loc' = [loc EXCEPT ![t] = l]
  PROVE  \A u \in Threads : loc'[u] = IF u = t THEN l ELSE loc[u]
BY Typed

LEMMA GotoMoves ==
  ASSUME TypeOK, NEW t \in Threads, NEW pc, Goto(t, pc)
  PROVE  loc' = [loc EXCEPT ![t] = [loc[t] EXCEPT !.pc = pc]]
BY Typed DEF Goto

\* The steps that neither replace a session nor free one, nor start or end
\* proc_timer.
LEMMA TableKept ==
  ASSUME IInv, NEW t \in Threads, NEW l, loc' = [loc EXCEPT ![t] = l],
         UNCHANGED table,
         \A s \in Sessions : sess'[s].state = sess[s].state,
         l.pc # "replace" /\ loc[t].pc # "replace"
  PROVE  /\ TableLive' /\ ReplacedOnce' /\ NoSessionLost'
         /\ /\ UNCHANGED tableOwner
            /\ t = "main" => (l.pc = "out" <=> loc[t].pc = "out") /\ l.se = loc[t].se
            => TimerHolds'
<1>1. \A u \in Threads : loc'[u] = IF u = t THEN l ELSE loc[u]
  BY OneMoves DEF IInv
<1>2. ASSUME UNCHANGED tableOwner,
             t = "main" => (l.pc = "out" <=> loc[t].pc = "out") /\ l.se = loc[t].se
      PROVE  TimerHolds'
  BY <1>1, <1>2, Roles DEF IInv, TimerHolds, At
<1>3. table \in Sessions \/ table = None
  BY Typed, Numbers DEF IInv
<1>4. TableLive'
  BY <1>3 DEF IInv, TableLive
<1>5. \A u \in Threads : /\ At(u, "replace")' <=> At(u, "replace")
                         /\ At(u, "replace") => loc'[u].old = loc[u].old
  BY <1>1 DEF At
<1>6. \A u \in Threads : loc[u].old # None => loc[u].old \in Sessions
  BY Typed, Numbers DEF IInv, LocType
<1>7. ReplacedOnce'
  BY <1>5, <1>6 DEF IInv, ReplacedOnce
<1>8. NoSessionLost'
  BY <1>5 DEF IInv, NoSessionLost
<1> QED BY <1>2, <1>4, <1>7, <1>8

\* The steps that move no packet.
LEMMA HandsStay ==
  ASSUME IInv, NEW t \in Threads, NEW l, loc' = [loc EXCEPT ![t] = l],
         l.pk = loc[t].pk,
         l.pk # None => StateInHand(l) = StateInHand(loc[t]),
         \A s \in Sessions : \A p \in Pkts : Holds(s, p)' <=> Holds(s, p),
         \A s \in Sessions : sess'[s].state = "live" => NoDuplicates(sess'[s].q),
         UNCHANGED <<pkt, taken>>
  PROVE  Hands' /\ Queues' /\ Somewhere'
<1>1. \A u \in Threads : loc'[u] = IF u = t THEN l ELSE loc[u]
  BY OneMoves DEF IInv
<1>2. \A u \in Threads : loc'[u].pk = loc[u].pk
  BY <1>1
<1>3. \A u \in Threads : loc[u].pk # None =>
                           StateInHand(loc'[u]) = StateInHand(loc[u])
  BY <1>1
<1>4. Hands'
  BY <1>2, <1>3 DEF IInv, Hands
<1>5. Queues'
  BY <1>2 DEF IInv, Queues, NoDuplicates
<1>6. Somewhere'
  BY <1>2 DEF IInv, Somewhere
<1> QED BY <1>4, <1>5, <1>6

LEMMA HandsKept ==
  ASSUME IInv, NEW t \in Threads, NEW l, loc' = [loc EXCEPT ![t] = l],
         l.pk = loc[t].pk,
         l.pk # None => StateInHand(l) = StateInHand(loc[t]),
         \A s \in Sessions : /\ sess'[s].state = sess[s].state
                             /\ sess'[s].q = sess[s].q,
         UNCHANGED <<pkt, taken>>
  PROVE  Hands' /\ Queues' /\ Somewhere'
<1>1. \A s \in Sessions : \A p \in Pkts : Holds(s, p)' <=> Holds(s, p)
  BY DEF Holds
<1>2. \A s \in Sessions : sess'[s].state = "live" => NoDuplicates(sess'[s].q)
  BY DEF IInv, Queues
<1> QED BY <1>1, <1>2, HandsStay

\* The steps in which a thread goes on with what it has in its hands, and that
\* leave the packets, the queues and the table alone.
Quiet(t, l) ==
  /\ loc' = [loc EXCEPT ![t] = l]
  /\ \A s \in Sessions : /\ sess'[s].state = sess[s].state
                         /\ sess'[s].q = sess[s].q
  /\ UNCHANGED <<table, tableOwner, pkt, taken>>

LEMMA QuietInv ==
  ASSUME IInv, NEW t \in Threads, NEW l \in LocType, Quiet(t, l), LocalsOf(t, l),
         TypeOK',
         l.pk = loc[t].pk,
         l.pk # None => StateInHand(l) = StateInHand(loc[t]),
         l.pc # "replace" /\ loc[t].pc # "replace",
         t = "main" => (l.pc = "out" <=> loc[t].pc = "out") /\ l.se = loc[t].se
  PROVE  IInv'
<1>1. \A u \in Threads : loc'[u] = IF u = t THEN l ELSE loc[u]
  BY OneMoves DEF IInv, Quiet
<1>3. Locals'
  BY <1>1 DEF IInv, Locals
<1>4. TimerHolds' /\ TableLive' /\ ReplacedOnce' /\ NoSessionLost'
  BY TableKept DEF Quiet
<1>5. Hands' /\ Queues' /\ Somewhere'
  BY HandsKept DEF Quiet
<1> QED BY <1>3, <1>4, <1>5 DEF IInv

-----------------------------------------------------------------------------
(* The quiet steps. *)

LEMMA UpdateKeeps ==
  ASSUME IInv, NEW t \in Threads, Sound(t), loc[t].pc \in UsesSession,
         NEW se \in SessType, Update(t, se),
         se.state = Mine(t).state, se.q = Mine(t).q
  PROVE  /\ sess' \in [Sessions -> SessType]
         /\ \A s \in Sessions : /\ sess'[s].state = sess[s].state
                                /\ sess'[s].q = sess[s].q
<1>1. loc[t].se \in Sessions /\ Mine(t) = sess[loc[t].se]
  BY MineLive
<1>2. sess \in [Sessions -> SessType] /\ sess' = [sess EXCEPT ![loc[t].se] = se]
  BY Typed DEF IInv, Update
<1> QED BY <1>1, <1>2

\* A step of a thread that changes its place in the code only, and perhaps
\* more of its session than the state and the queue.
LEMMA GotoInv ==
  ASSUME IInv, NEW t \in Threads, NEW pc \in UsesSession \cup {"out", "put", "free"},
         Goto(t, pc), LocalsOf(t, [loc[t] EXCEPT !.pc = pc]),
         loc[t].pk # None => StateInHand([loc[t] EXCEPT !.pc = pc]) = StateInHand(loc[t]),
         loc[t].pc # "replace",
         t = "main" => (pc = "out" <=> loc[t].pc = "out"),
         sess' \in [Sessions -> SessType],
         \A s \in Sessions : /\ sess'[s].state = sess[s].state
                             /\ sess'[s].q = sess[s].q,
         UNCHANGED <<table, tableOwner, pkt, taken, fault>>,
         sent' \subseteq SeqNos
  PROVE  IInv'
<1> DEFINE l == [loc[t] EXCEPT !.pc = pc]
<1>1. loc' = [loc EXCEPT ![t] = l]
  BY GotoMoves DEF IInv
<1>2. loc[t] \in LocType /\ loc \in [Threads -> LocType]
  BY Typed DEF IInv
<1>3. /\ l \in LocType /\ l.pc = pc /\ l.pk = loc[t].pk /\ l.se = loc[t].se
  BY <1>2 DEF LocType
<1>4. pc # "replace"
  BY DEF UsesSession
<1>5. LocalsOf(t, l) /\ (l.pk # None => StateInHand(l) = StateInHand(loc[t]))
  BY <1>3
<1> HIDE DEF l
<1>6. Quiet(t, l)
  BY <1>1 DEF Quiet
<1>7. TypeOK'
  <2>1. loc' \in [Threads -> LocType]
    BY <1>1, <1>2, <1>3
  <2> QED BY <2>1, Typed DEF IInv, TypeOK, LocType, SessType
<1> QED BY <1>3, <1>4, <1>5, <1>6, <1>7, QuietInv

\* What the locals say of a thread that goes from one place to another.
LEMMA LocalsAt ==
  ASSUME IInv, NEW t \in Threads
  PROVE  LocalsOf(t, loc[t]) /\ loc[t] \in LocType
         /\ \A pc : /\ [loc[t] EXCEPT !.pc = pc].pc = pc
                    /\ [loc[t] EXCEPT !.pc = pc].se = loc[t].se
                    /\ [loc[t] EXCEPT !.pc = pc].pk = loc[t].pk
                    /\ [loc[t] EXCEPT !.pc = pc].next = loc[t].next
                    /\ [loc[t] EXCEPT !.pc = pc].front = loc[t].front
BY Typed DEF IInv, Locals, LocType

LEMMA RefreshInv ==
  ASSUME IInv, NEW t \in Threads, Sound(t), Refresh(t)
  PROVE  IInv'
<1>1. loc[t].pc = "refresh" /\ loc[t].pc \in UsesSession
  BY DEF Refresh, At, UsesSession
<1>2. loc[t].next \in {"number", "ackall", "ackpart"}
  BY <1>1, LocalsAt, Roles DEF LocalsOf, Releasing, Trying
<1>3. /\ LocalsOf(t, [loc[t] EXCEPT !.pc = loc[t].next])
      /\ t # "main"
      /\ loc[t].pk # None => StateInHand([loc[t] EXCEPT !.pc = loc[t].next])
                               = StateInHand(loc[t])
  BY <1>1, <1>2, LocalsAt, Roles
     DEF LocalsOf, UsesSession, Queuing, Fresh, Releasing, Trying, StateInHand
<1>4. [Mine(t) EXCEPT !.idle = FALSE] \in SessType
  BY <1>1, MineLive DEF SessType
<1>5. /\ sess' \in [Sessions -> SessType]
      /\ \A s \in Sessions : /\ sess'[s].state = sess[s].state
                             /\ sess'[s].q = sess[s].q
  <2>1. /\ [Mine(t) EXCEPT !.idle = FALSE].state = Mine(t).state
        /\ [Mine(t) EXCEPT !.idle = FALSE].q = Mine(t).q
    BY <1>1, MineLive DEF SessType
  <2> QED BY <1>1, <1>4, <2>1, UpdateKeeps DEF Refresh
<1>6. loc[t].next \in UsesSession
  BY <1>2 DEF UsesSession
<1> QED BY <1>1, <1>3, <1>5, <1>6, GotoInv DEF Refresh, IInv, TypeOK

LEMMA WriteSeqInv ==
  ASSUME IInv, NEW t \in Threads, Sound(t), WriteSeq(t)
  PROVE  IInv'
<1>1. loc[t].pc = "advance" /\ loc[t].pc \in UsesSession
  BY DEF WriteSeq, At, UsesSession
<1>2. /\ LocalsOf(t, [loc[t] EXCEPT !.pc = "push"])
      /\ t # "main"
      /\ loc[t].pk # None => StateInHand([loc[t] EXCEPT !.pc = "push"])
                               = StateInHand(loc[t])
  BY <1>1, LocalsAt, Roles
     DEF LocalsOf, UsesSession, Queuing, Fresh, Releasing, Trying, StateInHand
<1>3. PICK n \in {loc[t].num, Mine(t).seq} :
        Update(t, [Mine(t) EXCEPT !.seq = (n + 1) % NumSeq])
  BY DEF WriteSeq
<1>4. n \in SeqNos
  BY <1>1, LocalsAt, MineLive DEF LocType, SessType
<1>5. (n + 1) % NumSeq \in SeqNos
  BY <1>4, Numbers DEF SeqNos
<1>6. /\ [Mine(t) EXCEPT !.seq = (n + 1) % NumSeq] \in SessType
      /\ [Mine(t) EXCEPT !.seq = (n + 1) % NumSeq].state = Mine(t).state
      /\ [Mine(t) EXCEPT !.seq = (n + 1) % NumSeq].q = Mine(t).q
  BY <1>1, <1>5, MineLive DEF SessType
<1>7. /\ sess' \in [Sessions -> SessType]
      /\ \A s \in Sessions : /\ sess'[s].state = sess[s].state
                             /\ sess'[s].q = sess[s].q
  BY <1>1, <1>3, <1>6, UpdateKeeps
<1>8. "push" \in UsesSession
  BY DEF UsesSession
<1> QED BY <1>1, <1>2, <1>7, <1>8, GotoInv DEF WriteSeq, IInv, TypeOK

\* A thread that returns, with nothing in its hands.
LEMMA ReturnInv ==
  ASSUME IInv, NEW t \in Threads, Return(t), t # "main",
         loc[t].pk = None, loc[t].pc # "replace",
         sess' \in [Sessions -> SessType],
         \A s \in Sessions : /\ sess'[s].state = sess[s].state
                             /\ sess'[s].q = sess[s].q,
         UNCHANGED <<table, tableOwner, pkt, taken, sent, fault>>
  PROVE  IInv'
<1>1. /\ Outside.pc = "out" /\ Outside.pk = None /\ Outside \in LocType
  BY OutsideType DEF Outside
<1>2. LocalsOf(t, Outside)
  BY <1>1 DEF LocalsOf, UsesSession, Queuing, Fresh, Releasing, Trying
<1>3. Quiet(t, Outside)
  BY DEF Quiet, Return
<1>4. TypeOK'
  BY <1>1, Typed DEF IInv, TypeOK, LocType, SessType, Return
<1> QED BY <1>1, <1>2, <1>3, <1>4, QuietInv

\* try_lower_send comes back to its caller.
LEMMA LeaveInv ==
  ASSUME IInv, NEW t \in Threads, loc[t].pc \in Trying, Leave(t),
         sess' \in [Sessions -> SessType],
         \A s \in Sessions : /\ sess'[s].state = sess[s].state
                             /\ sess'[s].q = sess[s].q,
         UNCHANGED <<table, tableOwner, pkt, taken, sent, fault>>
  PROVE  IInv'
<1>0. LocalsOf(t, loc[t]) /\ loc[t].pc # "replace" /\ loc[t].pc # "out"
  BY LocalsAt DEF Trying
<1>1. CASE t \in Senders
  <2>1. loc[t].pk = None
    BY <1>0, <1>1 DEF LocalsOf, Queuing, Fresh, Trying
  <2> QED BY <1>0, <1>1, <2>1, Roles, ReturnInv DEF Leave
<1>2. CASE t \notin Senders
  <2>1. Goto(t, "unlock") /\ "unlock" \in UsesSession
    BY <1>2 DEF Leave, UsesSession
  <2>2. loc[t].se # None
    BY <1>0 DEF LocalsOf, Trying, UsesSession
  <2>3. LocalsOf(t, [loc[t] EXCEPT !.pc = "unlock"])
    BY <1>0, <1>2, <2>2, LocalsAt
       DEF LocalsOf, UsesSession, Queuing, Fresh, Releasing, Trying
  <2>4. StateInHand([loc[t] EXCEPT !.pc = "unlock"]) = StateInHand(loc[t])
    BY LocalsAt DEF StateInHand, Fresh, Trying
  <2> QED BY <1>0, <2>1, <2>3, <2>4, GotoInv DEF IInv, TypeOK
<1> QED BY <1>1, <1>2

\* try_lower_send goes on.
LEMMA TryOn ==
  ASSUME IInv, NEW t \in Threads, loc[t].pc \in Trying,
         NEW pc \in UsesSession \cap Trying, Goto(t, pc),
         sess' \in [Sessions -> SessType],
         \A s \in Sessions : /\ sess'[s].state = sess[s].state
                             /\ sess'[s].q = sess[s].q,
         UNCHANGED <<table, tableOwner, pkt, taken, sent, fault>>
  PROVE  IInv'
<1>1. LocalsOf(t, loc[t]) /\ loc[t].pc # "replace" /\ loc[t].pc # "out"
      /\ pc # "out" /\ loc[t].se # None
  BY LocalsAt DEF LocalsOf, Trying, UsesSession
<1>2. LocalsOf(t, [loc[t] EXCEPT !.pc = pc])
  BY <1>1, LocalsAt, Roles
     DEF LocalsOf, UsesSession, Queuing, Fresh, Releasing, Trying
<1>3. StateInHand([loc[t] EXCEPT !.pc = pc]) = StateInHand(loc[t])
  BY LocalsAt DEF StateInHand, Fresh, Trying
<1> QED BY <1>1, <1>2, <1>3, GotoInv DEF IInv, TypeOK

LEMMA SameSessions ==
  ASSUME IInv, UNCHANGED sess
  PROVE  /\ sess' \in [Sessions -> SessType]
         /\ \A s \in Sessions : /\ sess'[s].state = sess[s].state
                                /\ sess'[s].q = sess[s].q
BY Typed DEF IInv

LEMMA TrySendInv ==
  ASSUME IInv, NEW t \in Threads, Sound(t), TrySend(t)
  PROVE  IInv'
<1>1. LocalsOf(t, loc[t]) /\ loc[t] \in LocType
  BY LocalsAt
<1>2. CASE TestWaiting(t)
  <2>1. loc[t].pc = "test" /\ loc[t].pc \in Trying /\ "empty" \in UsesSession \cap Trying
    BY <1>2 DEF TestWaiting, At, UsesSession, Trying
  <2>2. CASE Leave(t)
    BY <1>2, <2>1, <2>2, SameSessions, LeaveInv DEF TestWaiting
  <2>3. CASE Goto(t, "empty")
    BY <1>2, <2>1, <2>3, SameSessions, TryOn DEF TestWaiting
  <2> QED BY <1>2, <2>2, <2>3 DEF TestWaiting
<1>6. CASE TestEmpty(t)
  <2>1. loc[t].pc = "empty" /\ loc[t].pc \in Trying /\ "front" \in UsesSession \cap Trying
    BY <1>6 DEF TestEmpty, At, UsesSession, Trying
  <2>2. CASE Leave(t)
    BY <1>6, <2>1, <2>2, SameSessions, LeaveInv DEF TestEmpty
  <2>3. CASE Goto(t, "front")
    BY <1>6, <2>1, <2>3, SameSessions, TryOn DEF TestEmpty
  <2> QED BY <1>6, <2>2, <2>3 DEF TestEmpty
<1>7. CASE TakeFront(t)
  <2>1. loc[t].pc = "front" /\ loc[t].pc \in UsesSession /\ loc[t].pc \in Trying
    BY <1>7 DEF TakeFront, At, UsesSession, Trying
  <2>2. /\ Mine(t).q # <<>>
        /\ loc' = [loc EXCEPT ![t].front = Head(Mine(t).q), ![t].pc = "put"]
    BY <1>7 DEF TakeFront
  <2> DEFINE l == [loc[t] EXCEPT !.front = Head(Mine(t).q), !.pc = "put"]
  <2>3. Head(Mine(t).q) \in 0..NumPkts /\ Head(Mine(t).q) # None
    <3>1. Head(Mine(t).q) \in Pkts
      BY <2>1, <2>2, MineLive, HeadTailProperties DEF SessType
    <3> QED BY <3>1, Numbers
  <2>4. /\ l \in LocType /\ l.pc = "put" /\ l.front # None /\ l.pk = loc[t].pk
        /\ l.se = loc[t].se
    BY <1>1, <2>3 DEF LocType
  <2>5. loc' = [loc EXCEPT ![t] = l]
    BY <2>2, Typed DEF IInv
  <2> HIDE DEF l
  <2>6. LocalsOf(t, l) /\ StateInHand(l) = StateInHand(loc[t])
    BY <1>1, <2>1, <2>4
       DEF LocalsOf, UsesSession, Queuing, Fresh, Releasing, Trying, StateInHand
  <2>7. Quiet(t, l)
    BY <1>7, <2>5 DEF Quiet, TakeFront
  <2>8. TypeOK'
    <3>1. loc' \in [Threads -> LocType]
      BY <2>4, <2>5, Typed DEF IInv
    <3> QED BY <1>7, <3>1 DEF TakeFront, IInv, TypeOK, LocType
  <2> QED BY <2>1, <2>4, <2>6, <2>7, <2>8, QuietInv
<1>3. CASE PutLower(t)
  <2>1. loc[t].pc = "put" /\ "arm" \in UsesSession
    BY <1>3 DEF PutLower, At, UsesSession
  <2>2. loc[t].front \in Pkts
    BY <1>1, <2>1, Numbers DEF LocalsOf, LocType
  <2>3. pkt[loc[t].front].num \in SeqNos
    BY <2>2, Typed DEF IInv
  <2>4. sent' \subseteq SeqNos
    BY <1>3, <2>3 DEF PutLower, IInv, TypeOK
  <2>5. loc[t].se # None
    BY <1>1, <2>1 DEF LocalsOf, UsesSession
  <2>6. LocalsOf(t, [loc[t] EXCEPT !.pc = "arm"])
    BY <1>1, <2>1, <2>5, LocalsAt
       DEF LocalsOf, UsesSession, Queuing, Fresh, Releasing, Trying
  <2>7. StateInHand([loc[t] EXCEPT !.pc = "arm"]) = StateInHand(loc[t])
    BY <2>1, LocalsAt DEF StateInHand, Fresh
  <2> QED BY <1>3, <2>1, <2>4, <2>6, <2>7, SameSessions, GotoInv DEF PutLower
<1>4. CASE Arm(t)
  <2>1. loc[t].pc = "arm" /\ loc[t].pc \in UsesSession /\ "wait" \in UsesSession
    BY <1>4 DEF Arm, At, UsesSession
  <2>2. LocalsOf(t, [loc[t] EXCEPT !.pc = "wait"])
    BY <1>1, <2>1, LocalsAt
       DEF LocalsOf, UsesSession, Queuing, Fresh, Releasing, Trying
  <2>3. StateInHand([loc[t] EXCEPT !.pc = "wait"]) = StateInHand(loc[t])
    BY <2>1, LocalsAt DEF StateInHand, Fresh
  <2>4. /\ [Mine(t) EXCEPT !.armed = TRUE] \in SessType
        /\ [Mine(t) EXCEPT !.armed = TRUE].state = Mine(t).state
        /\ [Mine(t) EXCEPT !.armed = TRUE].q = Mine(t).q
    BY <2>1, MineLive DEF SessType
  <2>5. /\ sess' \in [Sessions -> SessType]
        /\ \A s \in Sessions : /\ sess'[s].state = sess[s].state
                               /\ sess'[s].q = sess[s].q
    BY <1>4, <2>1, <2>4, UpdateKeeps DEF Arm
  <2> QED BY <1>4, <2>1, <2>2, <2>3, <2>5, GotoInv DEF Arm, IInv, TypeOK
<1>5. CASE SetWaiting(t)
  <2>1. loc[t].pc = "wait" /\ loc[t].pc \in UsesSession /\ loc[t].pc \in Trying
    BY <1>5 DEF SetWaiting, At, UsesSession, Trying
  <2>2. /\ [Mine(t) EXCEPT !.waiting = TRUE] \in SessType
        /\ [Mine(t) EXCEPT !.waiting = TRUE].state = Mine(t).state
        /\ [Mine(t) EXCEPT !.waiting = TRUE].q = Mine(t).q
    BY <2>1, MineLive DEF SessType
  <2>3. /\ sess' \in [Sessions -> SessType]
        /\ \A s \in Sessions : /\ sess'[s].state = sess[s].state
                               /\ sess'[s].q = sess[s].q
    BY <1>5, <2>1, <2>2, UpdateKeeps DEF SetWaiting
  <2> QED BY <1>5, <2>1, <2>3, LeaveInv DEF SetWaiting
<1> QED BY <1>2, <1>3, <1>4, <1>5, <1>6, <1>7 DEF TrySend

LEMMA ClearTimerInv ==
  ASSUME IInv, NEW t \in Threads, Sound(t), ClearTimer(t)
  PROVE  IInv'
<1>1. /\ loc[t].pc = "clear" /\ loc[t].pc \in UsesSession
      /\ "test" \in UsesSession
  BY DEF ClearTimer, At, UsesSession
<1>2. LocalsOf(t, [loc[t] EXCEPT !.pc = "test"])
  BY <1>1, LocalsAt DEF LocalsOf, UsesSession, Queuing, Fresh, Releasing, Trying
<1>3. StateInHand([loc[t] EXCEPT !.pc = "test"]) = StateInHand(loc[t])
  BY <1>1, LocalsAt DEF StateInHand, Fresh
<1>4. /\ [Mine(t) EXCEPT !.armed = FALSE] \in SessType
      /\ [Mine(t) EXCEPT !.armed = FALSE].state = Mine(t).state
      /\ [Mine(t) EXCEPT !.armed = FALSE].q = Mine(t).q
  BY <1>1, MineLive DEF SessType
<1>5. /\ sess' \in [Sessions -> SessType]
      /\ \A s \in Sessions : /\ sess'[s].state = sess[s].state
                             /\ sess'[s].q = sess[s].q
  BY <1>1, <1>4, UpdateKeeps DEF ClearTimer
<1> QED BY <1>1, <1>2, <1>3, <1>5, GotoInv DEF ClearTimer, IInv, TypeOK

LEMMA UnlockInv ==
  ASSUME IInv, NEW t \in Threads, Sound(t), Unlock(t)
  PROVE  IInv'
<1>1. loc[t].pc = "unlock" /\ loc[t].pc \in UsesSession /\ "reap" \in UsesSession
  BY DEF Unlock, At, UsesSession
<1>2. LocalsOf(t, loc[t]) /\ loc[t] \in LocType
  BY LocalsAt
<1>3. t \notin Senders
  BY <1>1, <1>2 DEF LocalsOf, Queuing, Fresh, Trying
<1>4. /\ [Mine(t) EXCEPT !.owner = "none"] \in SessType
      /\ [Mine(t) EXCEPT !.owner = "none"].state = Mine(t).state
      /\ [Mine(t) EXCEPT !.owner = "none"].q = Mine(t).q
  BY <1>1, MineLive DEF SessType
<1>5. /\ sess' \in [Sessions -> SessType]
      /\ \A s \in Sessions : /\ sess'[s].state = sess[s].state
                             /\ sess'[s].q = sess[s].q
  BY <1>1, <1>4, UpdateKeeps DEF Unlock
<1>6. CASE loc[t].pk # None
  <2>1. LocalsOf(t, [loc[t] EXCEPT !.pc = "free"])
    BY <1>1, <1>2, <1>3, <1>6, LocalsAt
       DEF LocalsOf, UsesSession, Queuing, Fresh, Releasing, Trying
  <2>2. StateInHand([loc[t] EXCEPT !.pc = "free"]) = StateInHand(loc[t])
    BY <1>1, LocalsAt DEF StateInHand, Fresh
  <2> QED BY <1>1, <1>5, <1>6, <2>1, <2>2, GotoInv DEF Unlock, IInv, TypeOK
<1>7. CASE loc[t].pk = None
  <2>1. t = "main"
    BY <1>1, <1>2, <1>3, <1>7, Roles DEF LocalsOf, Releasing
  <2>2. LocalsOf(t, [loc[t] EXCEPT !.pc = "reap"])
    BY <1>1, <1>2, <1>7, <2>1, LocalsAt, Roles
       DEF LocalsOf, UsesSession, Queuing, Fresh, Releasing, Trying
  <2> QED BY <1>1, <1>5, <1>7, <2>2, GotoInv DEF Unlock, IInv, TypeOK
<1> QED BY <1>6, <1>7

LEMMA AckPartInv ==
  ASSUME IInv, Sound("udp"), AckPart("udp")
  PROVE  IInv'
<1> DEFINE armed == Mine("udp").armed \/ (Mine("udp").q # <<>>
                      /\ HeadNum(Mine("udp")) = loc["udp"].num)
<1>1. loc["udp"].pc = "ackpart" /\ loc["udp"].pc \in UsesSession
  BY DEF AckPart, At, UsesSession
<1>2. LocalsOf("udp", loc["udp"]) /\ "udp" \in Threads /\ "udp" # "main"
  BY LocalsAt, Roles
<1>3. loc["udp"].pk = None
  BY <1>1, <1>2 DEF LocalsOf, Releasing, Trying
<1>4. Update("udp", [Mine("udp") EXCEPT !.armed = armed])
  BY <1>1, <1>2, MineLive DEF AckPart, SessType
<1>5. armed \in BOOLEAN
  BY <1>1, <1>2, MineLive DEF SessType
<1> HIDE DEF armed
<1>6. /\ [Mine("udp") EXCEPT !.armed = armed] \in SessType
      /\ [Mine("udp") EXCEPT !.armed = armed].state = Mine("udp").state
      /\ [Mine("udp") EXCEPT !.armed = armed].q = Mine("udp").q
  BY <1>1, <1>2, <1>5, MineLive DEF SessType
<1>7. /\ sess' \in [Sessions -> SessType]
      /\ \A s \in Sessions : /\ sess'[s].state = sess[s].state
                             /\ sess'[s].q = sess[s].q
  BY <1>1, <1>2, <1>4, <1>6, UpdateKeeps
<1> QED BY <1>1, <1>2, <1>3, <1>7, ReturnInv DEF AckPart

LEMMA AckArrivesInv ==
  ASSUME IInv, AckArrives
  PROVE  IInv'
<1>1. PICK n \in sent, next \in {"ackall", "ackpart"} : Lookup("udp", next, n, None)
  BY DEF AckArrives
<1> DEFINE l == [Outside EXCEPT !.se = table, !.next = next, !.num = n, !.pk = None,
                   !.pc = "refresh"]
<1>2. loc' = [loc EXCEPT !["udp"] = l] /\ loc["udp"].pc = "out"
  BY <1>1 DEF AckArrives, Lookup, At
<1>3. /\ l \in LocType /\ l.pc = "refresh" /\ l.pk = None /\ l.next = next
      /\ l.se = table /\ table # None
  BY OutsideType, Typed DEF IInv, AckArrives, LocType, UsesSession, Outside
<1> HIDE DEF l
<1>4. LocalsOf("udp", l) /\ "udp" \in Threads /\ "udp" # "main"
  BY <1>3, Roles DEF LocalsOf, Releasing, Trying
<1>5. loc["udp"].pk = None
  BY <1>2, <1>4, LocalsAt DEF LocalsOf, Releasing, Trying
<1>6. Quiet("udp", l)
  BY <1>1, <1>2 DEF Quiet, Lookup, AckArrives
<1>7. TypeOK'
  <2>1. loc' \in [Threads -> LocType]
    BY <1>2, <1>3, Typed DEF IInv
  <2> QED BY <1>1, <2>1 DEF Lookup, AckArrives, IInv, TypeOK, LocType
<1> QED BY <1>2, <1>3, <1>4, <1>5, <1>6, <1>7, QuietInv

LEMMA IdleExpiresInv ==
  ASSUME IInv, NEW s \in Sessions, IdleExpires(s)
  PROVE  IInv'
<1> DEFINE l == loc["main"]
<1>1. /\ sess' \in [Sessions -> SessType]
      /\ \A r \in Sessions : /\ sess'[r].state = sess[r].state
                             /\ sess'[r].q = sess[r].q
  BY Typed DEF IdleExpires, IInv, SessType
<1>2. /\ "main" \in Threads /\ l \in LocType /\ LocalsOf("main", l)
      /\ loc' = [loc EXCEPT !["main"] = l]
  BY Roles, LocalsAt, Typed DEF IdleExpires, IInv
<1>3. l.pc # "replace"
  BY <1>2, Roles DEF LocalsOf, Releasing, Trying
<1>4. Quiet("main", l)
  BY <1>1, <1>2 DEF Quiet, IdleExpires
<1>5. TypeOK'
  BY <1>1, Typed DEF IInv, TypeOK, SessType, IdleExpires
<1> QED BY <1>2, <1>3, <1>4, <1>5, QuietInv

\* One thread puts away what it had in its hands and takes a packet that is in
\* nobody's.
LEMMA TakesInHand ==
  ASSUME IInv, NEW t \in Threads, NEW l, NEW h \in Pkts, l.pk = h,
         \A u \in Threads : loc'[u] = IF u = t THEN l ELSE loc[u],
         \A u \in Threads : loc[u].pk # h,
         UNCHANGED pkt, taken' \in Nat, taken <= taken',
         pkt[h].state = StateInHand(l), h <= taken'
  PROVE  Hands'
<1>1. ASSUME NEW u \in Threads, loc'[u].pk # None
      PROVE  pkt'[loc'[u].pk].state = StateInHand(loc'[u]) /\ loc'[u].pk <= taken'
  <2>1. CASE u = t
    BY <2>1
  <2>2. CASE u # t
    <3>1. loc[u].pk <= taken /\ loc[u].pk \in Nat /\ taken \in Nat
      BY <1>1, <2>2, Counted, Numbers, LocalsAt DEF IInv, Hands, LocType
    <3> QED BY <1>1, <2>2, <3>1 DEF IInv, Hands
  <2> QED BY <2>1, <2>2
<1>2. ASSUME NEW u \in Threads, NEW v \in Threads,
             loc'[u].pk = loc'[v].pk, loc'[u].pk # None
      PROVE  u = v
  <2>1. CASE u = t /\ v # t
    BY <1>2, <2>1
  <2>2. CASE u # t /\ v = t
    BY <1>2, <2>2
  <2>3. CASE u # t /\ v # t
    BY <1>2, <2>3 DEF IInv, Hands
  <2> QED BY <2>1, <2>2, <2>3
<1>3. ASSUME NEW p \in Pkts, p > taken' PROVE pkt'[p].state = "unused"
  <2>1. p \in Nat /\ taken \in Nat
    BY Counted, Numbers DEF IInv, Pkts
  <2>2. p > taken
    BY <1>3, <2>1
  <2> QED BY <2>2 DEF IInv, Hands
<1> QED BY <1>1, <1>2, <1>3 DEF Hands

\* A packet that leaves a queue comes into the hands of the thread.
LEMMA PopInv ==
  ASSUME IInv, NEW t \in Threads, t \notin Senders, Sound(t),
         loc[t].pc \in {"ackall", "timeout"},
         NEW se \in SessType, Update(t, se), se.state = Mine(t).state,
         Mine(t).q # <<>>, se.q = Tail(Mine(t).q),
         loc' = [loc EXCEPT ![t].pk = Head(Mine(t).q), ![t].pc = "clear"],
         UNCHANGED <<table, tableOwner, pkt, taken, sent, fault>>
  PROVE  IInv'
<1> DEFINE k == loc[t].se
           q == Mine(t).q
           h == Head(q)
           l == [loc[t] EXCEPT !.pk = h, !.pc = "clear"]
<1>1. /\ k \in Sessions /\ Mine(t) = sess[k] /\ sess[k].state = "live"
      /\ q \in Seq(Pkts) /\ q = sess[k].q
  BY MineLive DEF SessType, UsesSession
<1>2. LocalsOf(t, loc[t]) /\ loc[t] \in LocType /\ k # None
  BY <1>1, LocalsAt, Numbers
<1>3. /\ sess' = [sess EXCEPT ![k] = se] /\ sess \in [Sessions -> SessType]
      /\ \A s \in Sessions : sess'[s] = IF s = k THEN se ELSE sess[s]
  BY <1>1, Typed DEF IInv, Update
<1>4. h \in Pkts /\ h \in 0..NumPkts /\ h # None
  BY <1>1, HeadTailProperties, Numbers
<1>5. /\ l \in LocType /\ l.pk = h /\ l.pc = "clear" /\ l.se = k
      /\ loc' = [loc EXCEPT ![t] = l]
  BY <1>2, <1>4, Typed DEF IInv, LocType, UsesSession
<1>6. /\ Len(q) \in Nat /\ Len(q) >= 1 /\ q[1] = h
      /\ Len(Tail(q)) = Len(q) - 1
      /\ \A i \in 1..Len(Tail(q)) : Tail(q)[i] = q[i + 1]
  BY <1>1, HeadTailProperties, LenProperties, EmptySeq
<1>7. NoDuplicates(q)
  BY <1>1 DEF IInv, Queues
<1> HIDE DEF k, q, h, l
<1>8. 1 \in 1..Len(q)
  BY <1>6
<1>9. Holds(k, h)
  BY <1>1, <1>6, <1>8 DEF Holds
<1>10. \A u \in Threads : loc'[u] = IF u = t THEN l ELSE loc[u]
  BY <1>5, OneMoves DEF IInv
<1>11. TypeOK'
  <2>1. loc' \in [Threads -> LocType] /\ sess' \in [Sessions -> SessType]
    <3>1. loc' \in [Threads -> LocType]
      BY <1>5, Typed DEF IInv
    <3>2. sess' \in [Sessions -> SessType]
      BY <1>1, <1>3
    <3> QED BY <3>1, <3>2
  <2> QED BY <2>1 DEF IInv, TypeOK, LocType, SessType
<1>12. Locals'
  <2>1. LocalsOf(t, l)
    BY <1>2, <1>4, <1>5 DEF LocalsOf, UsesSession, Releasing
  <2> QED BY <1>10, <2>1 DEF IInv, Locals
<1>13. \A s \in Sessions : sess'[s].state = sess[s].state
  BY <1>1, <1>3
<1>15. TimerHolds' /\ TableLive' /\ ReplacedOnce' /\ NoSessionLost'
  BY <1>5, <1>13, TableKept DEF k
<1>16. /\ pkt[h].state = "live" /\ \A u \in Threads : loc[u].pk # h
       /\ \A s \in Sessions : Holds(s, h) => s = k
  BY <1>1, <1>4, <1>9 DEF IInv, Queues
<1>17. h <= taken
  <2>1. h \in Nat
    BY <1>4
  <2>2. taken \in Nat
    BY Counted DEF IInv
  <2>3. ~(h > taken)
    BY <1>4, <1>16 DEF IInv, Hands
  <2> QED BY <2>1, <2>2, <2>3
<1>18. Hands'
  <2>1. StateInHand(l) = "live"
    BY <1>5 DEF StateInHand, Fresh
  <2>2. UNCHANGED pkt /\ taken' \in Nat /\ taken <= taken' /\ h <= taken'
    BY <1>17, Counted DEF IInv
  <2>3. l.pk = h /\ h \in Pkts /\ pkt[h].state = StateInHand(l)
    BY <1>4, <1>5, <1>16, <2>1
  <2>4. \A u \in Threads : loc[u].pk # h
    BY <1>16
  <2> QED BY <1>10, <2>2, <2>3, <2>4, TakesInHand
<1>19. NoDuplicates(Tail(q)) /\ \A i \in 1..Len(Tail(q)) : Tail(q)[i] # h
  <2>1. \A i \in 1..Len(Tail(q)) : i + 1 \in 1..Len(q) /\ i + 1 # 1
    BY <1>6
  <2>2. \A i \in 1..Len(Tail(q)) : Tail(q)[i] # h
    BY <1>6, <1>7, <1>8, <2>1 DEF NoDuplicates
  <2>3. ASSUME NEW i \in 1..Len(Tail(q)), NEW j \in 1..Len(Tail(q)),
               Tail(q)[i] = Tail(q)[j]
        PROVE  i = j
    <3>1. q[i + 1] = q[j + 1]
      BY <1>6, <2>3
    <3>2. i + 1 = j + 1
      BY <1>7, <2>1, <3>1 DEF NoDuplicates
    <3> QED BY <3>2
  <2> QED BY <2>2, <2>3 DEF NoDuplicates
<1>20. ASSUME NEW p \in Pkts
       PROVE  (\E i \in 1..Len(Tail(q)) : Tail(q)[i] = p)
                <=> (\E i \in 1..Len(q) : q[i] = p) /\ p # h
  <2>1. ASSUME NEW i \in 1..Len(Tail(q)), Tail(q)[i] = p
        PROVE  (\E j \in 1..Len(q) : q[j] = p) /\ p # h
    <3>1. i + 1 \in 1..Len(q) /\ q[i + 1] = p
      BY <1>6, <2>1
    <3> QED BY <1>19, <2>1, <3>1
  <2>2. ASSUME NEW j \in 1..Len(q), q[j] = p, p # h
        PROVE  \E i \in 1..Len(Tail(q)) : Tail(q)[i] = p
    <3>1. j # 1
      BY <1>6, <2>2
    <3>2. j - 1 \in 1..Len(Tail(q)) /\ (j - 1) + 1 = j
      BY <1>6, <3>1
    <3> QED BY <1>6, <2>2, <3>2
  <2> QED BY <2>1, <2>2
<1>21. ASSUME NEW s \in Sessions, NEW p \in Pkts
       PROVE  Holds(s, p)' <=> Holds(s, p) /\ p # h
  <2>1. CASE s = k
    <3>1. sess'[s].q = Tail(q) /\ sess[s].q = q /\ sess'[s].state = sess[s].state
      BY <1>1, <1>3, <1>13, <2>1 DEF q
    <3> QED BY <1>20, <3>1 DEF Holds
  <2>2. CASE s # k
    BY <1>3, <1>16, <2>2 DEF Holds
  <2> QED BY <2>1, <2>2
<1>22. \A s \in Sessions : sess'[s].state = "live" => NoDuplicates(sess'[s].q)
  BY <1>1, <1>3, <1>13, <1>19 DEF IInv, Queues, q
<1>23. Queues'
  <2>1. \A u \in Threads : loc'[u].pk \in {loc[u].pk, h}
    BY <1>5, <1>10
  <2> QED BY <1>21, <1>22, <2>1 DEF IInv, Queues, NoDuplicates
<1>24. Somewhere'
  <2>1. loc'[t].pk = h
    BY <1>5, <1>10
  <2>2. loc[t].pk = None
    BY <1>2, Roles DEF LocalsOf, Releasing, Trying
  <2>3. \A p \in Pkts : \A u \in Threads : loc[u].pk = p => loc'[u].pk = p
    BY <1>10, <2>2, Numbers
  <2> QED BY <1>21, <2>1, <2>3 DEF IInv, Somewhere
<1> QED BY <1>11, <1>12, <1>15, <1>18, <1>23, <1>24 DEF IInv

\* What a thread makes of its session when it takes a packet from the queue.
LEMMA PoppedType ==
  ASSUME IInv, NEW t \in {"udp", "main"}, Sound(t), loc[t].pc \in UsesSession,
         Mine(t).q # <<>>, NEW b \in BOOLEAN,
         NEW se, se = [Mine(t) EXCEPT !.q = Tail(@), !.waiting = FALSE,
                                      !.idle = b, !.owner = t]
  PROVE  se \in SessType /\ se.state = Mine(t).state /\ se.q = Tail(Mine(t).q)
<1>1. t \in Threads
  BY Roles
<1>2. Mine(t) \in SessType /\ Mine(t).q \in Seq(Pkts)
  BY <1>1, MineLive DEF SessType
<1>3. Tail(Mine(t).q) \in Seq(Pkts)
  BY <1>2, HeadTailProperties
<1> QED BY <1>2, <1>3 DEF SessType

LEMMA PopAckedInv ==
  ASSUME IInv, Sound("udp"), PopAcked("udp")
  PROVE  IInv'
<1>1. loc["udp"].pc = "ackall" /\ loc["udp"].pc \in UsesSession
  BY DEF PopAcked, At, UsesSession
<1>2. /\ LocalsOf("udp", loc["udp"]) /\ "udp" \in Threads /\ "udp" # "main"
      /\ "udp" \notin Senders /\ Mine("udp") \in SessType
  BY <1>1, LocalsAt, Roles, MineLive
<1>3. CASE Mine("udp").q # <<>> /\ HeadNum(Mine("udp")) = loc["udp"].num
  <2> DEFINE se == [Mine("udp") EXCEPT !.q = Tail(@), !.waiting = FALSE,
                                       !.idle = Mine("udp").idle, !.owner = "udp"]
  <2>1. Mine("udp").idle \in BOOLEAN
    BY <1>2 DEF SessType
  <2>2. se \in SessType /\ se.state = Mine("udp").state /\ se.q = Tail(Mine("udp").q)
    BY <1>1, <1>3, <2>1, PoppedType
  <2>3. Update("udp", se)
    BY <1>2, <1>3 DEF PopAcked, Locked, SessType
  <2> HIDE DEF se
  <2> QED BY <1>1, <1>2, <1>3, <2>2, <2>3, PopInv DEF PopAcked
<1>4. CASE ~(Mine("udp").q # <<>> /\ HeadNum(Mine("udp")) = loc["udp"].num)
  <2>1. loc["udp"].pk = None
    BY <1>1, <1>2 DEF LocalsOf, Releasing, Trying
  <2> QED BY <1>1, <1>2, <1>4, <2>1, SameSessions, ReturnInv DEF PopAcked
<1> QED BY <1>3, <1>4

LEMMA TimerTestInv ==
  ASSUME IInv, Sound("main"), TimerTest
  PROVE  IInv'
<1>1. loc["main"].pc = "expired" /\ {"timeout", "reap"} \subseteq UsesSession
  BY DEF TimerTest, At, UsesSession
<1>2. /\ LocalsOf("main", loc["main"]) /\ "main" \in Threads
      /\ "main" \notin Senders /\ loc["main"].pk = None
  BY <1>1, LocalsAt, Roles DEF LocalsOf, Releasing, Trying
<1>3. PICK pc \in {"timeout", "reap"} : Goto("main", pc)
  BY DEF TimerTest
<1>4. LocalsOf("main", [loc["main"] EXCEPT !.pc = pc])
  BY <1>1, <1>2, LocalsAt
     DEF LocalsOf, UsesSession, Queuing, Fresh, Releasing, Trying
<1> QED BY <1>1, <1>2, <1>3, <1>4, SameSessions, GotoInv DEF TimerTest, IInv, TypeOK

\* From here on proc_timer holds sse_lock, and has the session in the table.
LEMMA TimerStartInv ==
  ASSUME IInv, TimerStart
  PROVE  IInv'
<1> DEFINE l == [loc["main"] EXCEPT !.se = table, !.pc = "expired"]
<1>1. /\ loc["main"].pc = "out" /\ table # None
      /\ LocalsOf("main", loc["main"]) /\ "main" \in Threads
      /\ loc["main"] \in LocType /\ table \in 0..NumSess
  BY LocalsAt, Roles, Typed DEF TimerStart, At, IInv
<1>2. loc["main"].pk = None /\ "main" \notin Senders
  BY <1>1, Roles DEF LocalsOf, Releasing, Trying
<1>3. /\ l \in LocType /\ l.pc = "expired" /\ l.se = table /\ l.pk = None
      /\ loc' = [loc EXCEPT !["main"] = l]
  BY <1>1, <1>2, Typed DEF TimerStart, LocType, UsesSession, IInv
<1> HIDE DEF l
<1>4. \A u \in Threads : loc'[u] = IF u = "main" THEN l ELSE loc[u]
  BY <1>1, <1>3, OneMoves DEF IInv
<1>5. TypeOK'
  <2>1. loc' \in [Threads -> LocType]
    BY <1>3, Typed DEF IInv
  <2> QED BY <2>1 DEF TimerStart, IInv, TypeOK, LocType
<1>6. Locals'
  <2>1. LocalsOf("main", l)
    BY <1>1, <1>3, Roles DEF LocalsOf, UsesSession, Releasing
  <2> QED BY <1>4, <2>1 DEF IInv, Locals
<1>7. TimerHolds'
  BY <1>1, <1>3, <1>4 DEF TimerHolds, TimerStart, At
<1>8. UNCHANGED <<sess, table, pkt, taken>> /\ loc["main"].pc # "replace"
  BY <1>1 DEF TimerStart
<1>9. TableLive' /\ ReplacedOnce' /\ NoSessionLost'
  BY <1>1, <1>3, <1>8, TableKept
<1>10. Hands' /\ Queues' /\ Somewhere'
  BY <1>1, <1>2, <1>3, <1>8, HandsKept
<1> QED BY <1>5, <1>6, <1>7, <1>9, <1>10 DEF IInv

LEMMA AckTimeoutInv ==
  ASSUME IInv, Sound("main"), AckTimeout
  PROVE  IInv'
<1> DEFINE m == Mine("main")
<1>1. /\ loc["main"].pc = "timeout" /\ loc["main"].pc \in UsesSession
      /\ {"unlock", "test"} \subseteq UsesSession
  BY DEF AckTimeout, At, UsesSession
<1>2. /\ LocalsOf("main", loc["main"]) /\ "main" \in Threads
      /\ "main" \notin Senders /\ loc["main"].pk = None
  BY <1>1, LocalsAt, Roles DEF LocalsOf, Releasing, Trying
<1>3. m \in SessType
  BY <1>1, <1>2, MineLive
<1>4. m.q # <<>>
  BY <1>3 DEF AckTimeout, SessType
<1>5. ASSUME NEW pc \in {"unlock", "test"}, NEW w \in BOOLEAN, Goto("main", pc),
             Update("main", [m EXCEPT !.idle = FALSE, !.waiting = w, !.owner = "main"])
      PROVE  IInv'
  <2> DEFINE se == [m EXCEPT !.idle = FALSE, !.waiting = w, !.owner = "main"]
  <2>1. LocalsOf("main", [loc["main"] EXCEPT !.pc = pc])
    BY <1>1, <1>2, LocalsAt
       DEF LocalsOf, UsesSession, Queuing, Fresh, Releasing, Trying
  <2>2. se \in SessType /\ se.state = m.state /\ se.q = m.q
    BY <1>3 DEF SessType
  <2> HIDE DEF se
  <2>3. /\ sess' \in [Sessions -> SessType]
        /\ \A s \in Sessions : /\ sess'[s].state = sess[s].state
                               /\ sess'[s].q = sess[s].q
    BY <1>1, <1>2, <1>5, <2>2, UpdateKeeps DEF se
  <2> QED BY <1>1, <1>2, <1>5, <2>1, <2>3, GotoInv DEF AckTimeout, IInv, TypeOK
<1>6. CASE /\ Update("main", Locked("main", [m EXCEPT !.idle = FALSE]))
           /\ Goto("main", "unlock")
  <2>1. /\ m.waiting \in BOOLEAN
        /\ Locked("main", [m EXCEPT !.idle = FALSE])
             = [m EXCEPT !.idle = FALSE, !.waiting = m.waiting, !.owner = "main"]
    BY <1>3 DEF SessType, Locked
  <2> HIDE DEF m
  <2> QED BY <1>5, <1>6, <2>1
<1>7. CASE /\ Update("main", Locked("main",
                [[m EXCEPT !.idle = FALSE] EXCEPT !.waiting = FALSE]))
           /\ Goto("main", "test")
  <2>1. Locked("main", [[m EXCEPT !.idle = FALSE] EXCEPT !.waiting = FALSE])
          = [m EXCEPT !.idle = FALSE, !.waiting = FALSE, !.owner = "main"]
    BY <1>3 DEF SessType, Locked
  <2> HIDE DEF m
  <2> QED BY <1>5, <1>7, <2>1
<1>8. CASE /\ Update("main", Locked("main",
                [[m EXCEPT !.idle = FALSE] EXCEPT !.q = Tail(@), !.waiting = FALSE]))
           /\ loc' = [loc EXCEPT !["main"].pk = Head([m EXCEPT !.idle = FALSE].q),
                                 !["main"].pc = "clear"]
  <2> DEFINE se == [m EXCEPT !.q = Tail(@), !.waiting = FALSE, !.idle = FALSE,
                             !.owner = "main"]
  <2>1. se \in SessType /\ se.state = m.state /\ se.q = Tail(m.q)
    BY <1>1, <1>4, PoppedType
  <2>2. /\ Locked("main", [[m EXCEPT !.idle = FALSE] EXCEPT !.q = Tail(@), !.waiting = FALSE])
             = se
        /\ [m EXCEPT !.idle = FALSE].q = m.q
    BY <1>3 DEF SessType, Locked
  <2> HIDE DEF se
  <2>3. Update("main", se) /\ loc' = [loc EXCEPT !["main"].pk = Head(m.q),
                                                !["main"].pc = "clear"]
    BY <1>8, <2>2
  <2> QED BY <1>1, <1>2, <1>4, <2>1, <2>3, PopInv DEF AckTimeout
<1> QED BY <1>6, <1>7, <1>8 DEF AckTimeout

-----------------------------------------------------------------------------
(* upper_send. *)

LEMMA UpperSendInv ==
  ASSUME IInv, NEW t \in Threads, UpperSend(t)
  PROVE  IInv'
<1> DEFINE h == taken + 1
           l == [Outside EXCEPT !.se = table, !.next = "number", !.num = 0, !.pk = h,
                   !.pc = IF table # None THEN "refresh"
                          ELSE IF t \in Senders THEN "create" ELSE "out"]
<1>1. /\ t \in Senders /\ t # "main" /\ t # "udp" /\ loc[t].pc = "out"
      /\ loc' = [loc EXCEPT ![t] = l] /\ taken' = h
      /\ UNCHANGED <<sess, table, tableOwner, pkt, sent, fault>>
  BY Roles DEF UpperSend, Lookup, At
<1>2. taken < NumPkts /\ taken \in Nat /\ h \in Nat /\ taken <= h /\ h > taken
  BY Counted DEF IInv, UpperSend
<1>3. h \in Pkts /\ h \in 0..NumPkts /\ h # None
  BY <1>2, Numbers DEF Pkts, None
<1>4. table \in 0..NumSess
  BY Typed DEF IInv
<1>5. /\ l \in LocType /\ l.pk = h /\ l.next = "number" /\ l.se = table
      /\ l.pc = IF table # None THEN "refresh" ELSE "create"
  BY <1>1, <1>3, <1>4, OutsideType DEF LocType, Outside, UsesSession
<1> HIDE DEF h, l
<1>6. \A u \in Threads : loc'[u] = IF u = t THEN l ELSE loc[u]
  BY <1>1, OneMoves DEF IInv
<1>7. TypeOK'
  <2>1. loc' \in [Threads -> LocType]
    BY <1>1, <1>5, Typed DEF IInv
  <2> QED BY <1>1, <1>3, <2>1 DEF IInv, TypeOK, LocType
<1>8. Locals'
  <2>1. LocalsOf(t, l)
    BY <1>1, <1>3, <1>5 DEF LocalsOf, UsesSession, Queuing, Fresh
  <2> QED BY <1>6, <2>1 DEF IInv, Locals
<1>9. TimerHolds' /\ TableLive' /\ ReplacedOnce' /\ NoSessionLost'
  BY <1>1, <1>5, TableKept
<1>10. \A u \in Threads : loc[u].pk # h
  <2>1. ASSUME NEW u \in Threads, loc[u].pk = h PROVE FALSE
    <3>1. h <= taken
      BY <1>3, <2>1 DEF IInv, Hands
    <3> QED BY <1>2, <3>1
  <2> QED BY <2>1
<1>11. pkt[h].state = "unused" /\ StateInHand(l) = "unused"
  BY <1>2, <1>3, <1>5 DEF IInv, Hands, StateInHand, Fresh
<1>12. Hands'
  <2>1. taken' \in Nat /\ taken <= taken' /\ h <= taken'
    BY <1>1, <1>2
  <2> QED BY <1>1, <1>3, <1>5, <1>6, <1>10, <1>11, <2>1, TakesInHand
<1>13. \A s \in Sessions : \A p \in Pkts : Holds(s, p)' <=> Holds(s, p)
  BY <1>1 DEF Holds
<1>14. loc[t].pk = None
  BY <1>1, LocalsAt DEF LocalsOf, Queuing, Fresh
<1>15. Queues'
  <2>1. \A s \in Sessions : sess'[s].state = "live" => NoDuplicates(sess'[s].q)
    BY <1>1 DEF IInv, Queues
  <2>2. ASSUME NEW s \in Sessions, NEW p \in Pkts, Holds(s, p)
        PROVE  /\ pkt'[p].state = "live"
               /\ \A u \in Threads : loc'[u].pk # p
               /\ \A r \in Sessions : Holds(r, p) => r = s
    <3>1. pkt[p].state = "live" /\ p # h
      BY <1>11, <2>2 DEF IInv, Queues
    <3> QED BY <1>1, <1>5, <1>6, <2>2, <3>1 DEF IInv, Queues
  <2> QED BY <1>13, <2>1, <2>2 DEF Queues, NoDuplicates
<1>16. Somewhere'
  <2>1. \A p \in Pkts : \A u \in Threads : loc[u].pk = p => loc'[u].pk = p
    BY <1>6, <1>14, Numbers
  <2> QED BY <1>1, <1>13, <2>1 DEF IInv, Somewhere
<1> QED BY <1>7, <1>8, <1>9, <1>12, <1>15, <1>16 DEF IInv

\* The session in the table, if there is one, is now its creator's to free.
LEMMA CreateInv ==
  ASSUME IInv, NEW t \in Senders, Create(t)
  PROVE  IInv'
<1>1. PICK s \in Sessions :
        /\ sess[s].state = "unused"
        /\ sess' = [sess EXCEPT ![s] = NewSession]
        /\ table' = s
        /\ loc' = [loc EXCEPT ![t].se = s, ![t].old = table,
                     ![t].pc = IF table = None THEN "number" ELSE "replace"]
  BY DEF Create
<1> DEFINE l == [loc[t] EXCEPT !.se = s, !.old = table,
                   !.pc = IF table = None THEN "number" ELSE "replace"]
<1>2. /\ t \in Threads /\ t # "main" /\ t # "udp" /\ loc[t].pc = "create"
      /\ LocalsOf(t, loc[t]) /\ loc[t] \in LocType
      /\ UNCHANGED <<tableOwner, pkt, taken, sent, fault>> /\ tableOwner = "none"
  BY LocalsAt, Roles DEF Create, At
<1>3. table \in 0..NumSess /\ s \in 0..NumSess /\ s # None
  BY Typed, Numbers DEF IInv
<1>4. /\ l \in LocType /\ l.pk = loc[t].pk /\ l.se = s /\ l.old = table
      /\ l.pc = IF table = None THEN "number" ELSE "replace"
      /\ loc' = [loc EXCEPT ![t] = l]
  BY <1>1, <1>2, <1>3, Typed DEF LocType, UsesSession, IInv
<1> HIDE DEF l
<1>5. \A u \in Threads : loc'[u] = IF u = t THEN l ELSE loc[u]
  BY <1>2, <1>4, OneMoves DEF IInv
<1>6. \A r \in Sessions : sess'[r] = IF r = s THEN NewSession ELSE sess[r]
  BY <1>1, Typed DEF IInv
<1>7. NewSession.state = "live" /\ NewSession.q = <<>> /\ NewSession \in SessType
  BY NewSessionType DEF NewSession
<1>8. TypeOK'
  <2>1. loc' \in [Threads -> LocType]
    BY <1>4, Typed DEF IInv
  <2>2. sess' \in [Sessions -> SessType]
    BY <1>1, <1>7, Typed DEF IInv
  <2>3. table' \in 0..NumSess
    BY <1>1, <1>3
  <2> QED BY <1>2, <2>1, <2>2, <2>3 DEF IInv, TypeOK, LocType, SessType
<1>9. Locals'
  <2>1. LocalsOf(t, l)
    BY <1>2, <1>3, <1>4 DEF LocalsOf, UsesSession, Queuing, Fresh
  <2> QED BY <1>5, <2>1 DEF IInv, Locals
<1>10. TimerHolds'
  <2>1. At("main", "out") /\ loc'["main"] = loc["main"]
    BY <1>2, <1>5, Roles DEF IInv, TimerHolds
  <2> QED BY <1>2, <2>1 DEF TimerHolds, At
<1>11. TableLive'
  BY <1>1, <1>6, <1>7 DEF TableLive
<1>12. table # None => table \in Sessions /\ table # s /\ sess[table].state = "live"
  BY <1>1, <1>3, Numbers DEF IInv, TableLive
<1>13. ASSUME NEW u \in Threads, u # t, loc[u].pc = "replace"
       PROVE  /\ loc[u].old \in Sessions /\ loc[u].old # s /\ loc[u].old # table
              /\ sess[loc[u].old].state = "live"
  <2>1. /\ loc[u].old # None /\ loc[u].old # table
        /\ sess[loc[u].old].state = "live"
    BY <1>13 DEF IInv, ReplacedOnce, At
  <2>2. loc[u].old \in Sessions
    BY <2>1, LocalsAt, Numbers DEF LocType
  <2> QED BY <1>1, <2>1, <2>2
<1>14. ReplacedOnce'
  <2> SUFFICES ASSUME NEW u \in Threads, loc'[u].pc = "replace"
               PROVE  /\ loc'[u].old # None /\ loc'[u].old # table'
                      /\ sess'[loc'[u].old].state = "live"
                      /\ \A v \in Threads : loc'[v].pc = "replace"
                           /\ loc'[v].old = loc'[u].old => v = u
    BY DEF ReplacedOnce, At
  <2>1. CASE u = t
    <3>1. loc'[u] = l /\ table # None /\ l.old = table
      BY <1>4, <1>5, <2>1
    <3>2. \A v \in Threads : loc'[v].pc = "replace" /\ loc'[v].old = table => v = u
      BY <1>5, <1>13, <2>1
    <3> QED BY <1>1, <1>6, <1>12, <3>1, <3>2
  <2>2. CASE u # t
    <3>1. loc'[u] = loc[u]
      BY <1>5, <2>2
    <3>2. /\ loc[u].old \in Sessions /\ loc[u].old # s /\ loc[u].old # table
          /\ sess[loc[u].old].state = "live"
      BY <1>13, <2>2, <3>1
    <3>3. \A v \in Threads : loc'[v].pc = "replace" /\ loc'[v].old = loc[u].old => v = u
      <4> SUFFICES ASSUME NEW v \in Threads, loc'[v].pc = "replace",
                          loc'[v].old = loc[u].old
                   PROVE  v = u
        OBVIOUS
      <4>1. v # t /\ loc'[v] = loc[v]
        BY <1>4, <1>5, <3>2
      <4> QED BY <3>1, <4>1 DEF IInv, ReplacedOnce, At
    <3> QED BY <1>1, <1>6, <3>1, <3>2, <3>3, Numbers
  <2> QED BY <2>1, <2>2
<1>15. NoSessionLost'
  <2> SUFFICES ASSUME NEW r \in Sessions, sess'[r].state = "live", r # table'
               PROVE  \E u \in Threads : loc'[u].pc = "replace" /\ loc'[u].old = r
    BY DEF NoSessionLost, At
  <2>1. r # s /\ sess[r].state = "live"
    BY <1>1, <1>6
  <2>2. CASE r = table
    <3>1. loc'[t] = l /\ l.pc = "replace" /\ l.old = r
      BY <1>2, <1>4, <1>5, <2>2, Numbers
    <3> QED BY <1>2, <3>1
  <2>3. CASE r # table
    <3>1. PICK u \in Threads : loc[u].pc = "replace" /\ loc[u].old = r
      BY <2>1, <2>3 DEF IInv, NoSessionLost, At
    <3>2. u # t
      BY <1>2, <3>1
    <3> QED BY <1>5, <3>1, <3>2
  <2> QED BY <2>2, <2>3
<1>16. \A r \in Sessions : \A p \in Pkts : Holds(r, p)' <=> Holds(r, p)
  <2> SUFFICES ASSUME NEW r \in Sessions, NEW p \in Pkts
               PROVE  Holds(r, p)' <=> Holds(r, p)
    OBVIOUS
  <2>1. CASE r = s
    <3>1. ~Holds(r, p)
      BY <1>1, <2>1 DEF Holds
    <3>2. Len(sess'[r].q) = 0
      BY <1>6, <1>7, <2>1, EmptySeq
    <3> QED BY <3>1, <3>2 DEF Holds
  <2>2. CASE r # s
    BY <1>6, <2>2 DEF Holds
  <2> QED BY <2>1, <2>2
<1>17. \A r \in Sessions : sess'[r].state = "live" => NoDuplicates(sess'[r].q)
  <2>1. NoDuplicates(<<>>)
    BY EmptySeq DEF NoDuplicates
  <2> QED BY <1>6, <1>7, <2>1 DEF IInv, Queues
<1>18. StateInHand(l) = StateInHand(loc[t])
  BY <1>2, <1>4 DEF StateInHand, Fresh
<1>19. Hands' /\ Queues' /\ Somewhere'
  BY <1>2, <1>4, <1>16, <1>17, <1>18, HandsStay
<1> QED BY <1>8, <1>9, <1>10, <1>11, <1>14, <1>15, <1>19 DEF IInv

\* The packet is allocated, and numbered from the session.
LEMMA ReadSeqInv ==
  ASSUME IInv, NEW t \in Senders, Sound(t), ReadSeq(t)
  PROVE  IInv'
<1> DEFINE h == loc[t].pk
           n == Mine(t).seq
           l == [loc[t] EXCEPT !.num = n, !.pc = "advance"]
<1>1. /\ t \in Threads /\ t # "main" /\ t # "udp"
      /\ loc[t].pc = "number" /\ loc[t].pc \in UsesSession
      /\ LocalsOf(t, loc[t]) /\ loc[t] \in LocType
      /\ UNCHANGED <<sess, table, tableOwner, taken, sent, fault>>
  BY LocalsAt, Roles DEF ReadSeq, At, UsesSession
<1>2. n \in SeqNos
  BY <1>1, MineLive DEF SessType
<1>3. h # None /\ h \in Pkts
  BY <1>1, Numbers DEF LocalsOf, Queuing, Fresh, LocType
<1>4. /\ l \in LocType /\ l.pk = h /\ l.se = loc[t].se /\ l.pc = "advance"
      /\ loc' = [loc EXCEPT ![t] = l]
      /\ pkt' = [pkt EXCEPT ![h] = [state |-> "live", num |-> n, by |-> t]]
  BY <1>1, <1>2, Typed DEF ReadSeq, LocType, UsesSession, IInv
<1> HIDE DEF h, n, l
<1>5. \A u \in Threads : loc'[u] = IF u = t THEN l ELSE loc[u]
  BY <1>1, <1>4, OneMoves DEF IInv
<1>6. \A p \in Pkts : pkt'[p].state = IF p = h THEN "live" ELSE pkt[p].state
  BY <1>3, <1>4, Typed DEF IInv
<1>7. TypeOK'
  <2>1. loc' \in [Threads -> LocType]
    BY <1>4, Typed DEF IInv
  <2>2. pkt' \in [Pkts -> [state : {"unused", "live", "freed"}, num : SeqNos,
                                 by : Senders \cup {"none"}]]
    BY <1>2, <1>4, Typed DEF IInv
  <2> QED BY <1>1, <2>1, <2>2 DEF IInv, TypeOK, LocType
<1>8. Locals'
  <2>1. LocalsOf(t, l)
    BY <1>1, <1>3, <1>4 DEF LocalsOf, UsesSession, Queuing, Fresh, h
  <2> QED BY <1>5, <2>1 DEF IInv, Locals
<1>9. TimerHolds' /\ TableLive' /\ ReplacedOnce' /\ NoSessionLost'
  BY <1>1, <1>4, TableKept
<1>10. \A u \in Threads : loc'[u].pk = loc[u].pk
  BY <1>4, <1>5 DEF h
<1>11. \A u \in Threads : u # t => loc[u].pk # h
  BY <1>1, <1>3 DEF IInv, Hands, h
<1>12. Hands'
  <2>1. ASSUME NEW u \in Threads, loc'[u].pk # None
        PROVE  pkt'[loc'[u].pk].state = StateInHand(loc'[u]) /\ loc'[u].pk <= taken'
    <3>1. loc[u].pk <= taken /\ pkt[loc[u].pk].state = StateInHand(loc[u])
      BY <1>10, <2>1 DEF IInv, Hands
    <3>2. loc[u].pk \in Pkts
      BY <1>10, <2>1, LocalsAt, Numbers DEF LocType
    <3>3. CASE u = t
      <4>1. StateInHand(l) = "live"
        BY <1>4 DEF StateInHand, Fresh
      <4> QED BY <1>1, <1>4, <1>5, <1>6, <1>10, <3>1, <3>2, <3>3, <4>1
    <3>4. CASE u # t
      BY <1>1, <1>5, <1>6, <1>11, <3>1, <3>2, <3>4
    <3> QED BY <3>3, <3>4
  <2>2. ASSUME NEW u \in Threads, NEW v \in Threads,
               loc'[u].pk = loc'[v].pk, loc'[u].pk # None
        PROVE  u = v
    BY <1>10, <2>2 DEF IInv, Hands
  <2>3. ASSUME NEW p \in Pkts, p > taken' PROVE pkt'[p].state = "unused"
    <3>1. h <= taken /\ p > taken /\ pkt[p].state = "unused"
      BY <1>1, <1>3, <2>3 DEF IInv, Hands, h
    <3>2. p # h
      <4>1. h \in Nat /\ taken \in Nat
        BY <1>3, Counted DEF IInv, Pkts
      <4> QED BY <3>1, <4>1
    <3> QED BY <1>6, <3>1, <3>2
  <2> QED BY <2>1, <2>2, <2>3 DEF Hands
<1>13. \A s \in Sessions : \A p \in Pkts : Holds(s, p)' <=> Holds(s, p)
  BY <1>1 DEF Holds
<1>14. Queues'
  <2>1. \A s \in Sessions : sess'[s].state = "live" => NoDuplicates(sess'[s].q)
    BY <1>1 DEF IInv, Queues
  <2>2. ASSUME NEW s \in Sessions, NEW p \in Pkts, Holds(s, p)
        PROVE  /\ pkt'[p].state = "live"
               /\ \A u \in Threads : loc'[u].pk # p
               /\ \A r \in Sessions : Holds(r, p) => r = s
    BY <1>6, <1>10, <2>2 DEF IInv, Queues
  <2> QED BY <1>13, <2>1, <2>2 DEF Queues, NoDuplicates
<1>15. Somewhere'
  <2> SUFFICES ASSUME NEW p \in Pkts, pkt'[p].state = "live"
               PROVE  (\E s \in Sessions : Holds(s, p)')
                        \/ \E u \in Threads : loc'[u].pk = p
    BY DEF Somewhere
  <2>1. CASE p = h
    BY <1>1, <1>10, <2>1 DEF h
  <2>2. CASE p # h
    BY <1>6, <1>10, <1>13, <2>2 DEF IInv, Somewhere
  <2> QED BY <2>1, <2>2
<1> QED BY <1>7, <1>8, <1>9, <1>12, <1>14, <1>15 DEF IInv

\* The packet goes from the hands of the thread to the queue of its session.
LEMMA PushInv ==
  ASSUME IInv, NEW t \in Senders, Sound(t), Push(t)
  PROVE  IInv'
<1> DEFINE k == loc[t].se
           h == loc[t].pk
           q == sess[k].q
           se == [sess[k] EXCEPT !.q = Append(q, h)]
           l == [loc[t] EXCEPT !.pk = None, !.pc = "test"]
<1>1. /\ t \in Threads /\ t # "main" /\ t # "udp"
      /\ loc[t].pc = "push" /\ loc[t].pc \in UsesSession
      /\ LocalsOf(t, loc[t]) /\ loc[t] \in LocType
      /\ UNCHANGED <<table, tableOwner, pkt, taken, sent, fault>>
  BY LocalsAt, Roles DEF Push, At, UsesSession
<1>2. /\ k \in Sessions /\ Mine(t) = sess[k] /\ sess[k].state = "live"
      /\ q \in Seq(Pkts) /\ sess[k] \in SessType
  BY <1>1, MineLive DEF SessType
<1>3. h # None /\ h \in Pkts
  BY <1>1, Numbers DEF LocalsOf, Queuing, Fresh, LocType
<1>4. /\ l \in LocType /\ l.pk = None /\ l.se = k /\ l.pc = "test"
      /\ loc' = [loc EXCEPT ![t] = l]
  BY <1>1, Typed, Numbers DEF Push, LocType, UsesSession, IInv, None
<1>5. /\ Append(q, h) \in Seq(Pkts) /\ Len(q) \in Nat
      /\ Len(Append(q, h)) = Len(q) + 1
      /\ \A i \in 1..Len(q) : Append(q, h)[i] = q[i]
      /\ Append(q, h)[Len(q) + 1] = h
  <2>1. q \in Seq(Pkts) /\ h \in Pkts
    BY <1>2, <1>3
  <2> HIDE DEF q, h, k
  <2> QED BY <2>1, AppendProperties, LenProperties
<1>6. /\ se \in SessType /\ se.q = Append(q, h) /\ se.state = "live"
      /\ sess' = [sess EXCEPT ![k] = se]
  BY <1>2, <1>5 DEF SessType, Push, Update
<1> HIDE DEF k, h, q, se, l
<1>7. \A u \in Threads : loc'[u] = IF u = t THEN l ELSE loc[u]
  BY <1>1, <1>4, OneMoves DEF IInv
<1>8. \A s \in Sessions : sess'[s] = IF s = k THEN se ELSE sess[s]
  BY <1>2, <1>6, Typed DEF IInv
<1>9. TypeOK'
  <2>1. loc' \in [Threads -> LocType] /\ sess' \in [Sessions -> SessType]
    BY <1>4, <1>6, Typed DEF IInv
  <2> QED BY <1>1, <2>1 DEF IInv, TypeOK, LocType, SessType
<1>10. Locals'
  <2>1. LocalsOf(t, l)
    BY <1>1, <1>2, <1>4, Numbers DEF LocalsOf, UsesSession, Queuing, Fresh, Trying
  <2> QED BY <1>7, <2>1 DEF IInv, Locals
<1>11. \A s \in Sessions : sess'[s].state = sess[s].state
  BY <1>2, <1>6, <1>8
<1>12. TimerHolds' /\ TableLive' /\ ReplacedOnce' /\ NoSessionLost'
  BY <1>1, <1>4, <1>11, TableKept
<1>13. /\ pkt[h].state = "live"
       /\ \A u \in Threads : loc[u].pk = h => u = t
       /\ \A s \in Sessions : ~Holds(s, h)
  <2>1. pkt[h].state = StateInHand(loc[t])
    BY <1>1, <1>3 DEF IInv, Hands, h
  <2>2. StateInHand(loc[t]) = "live"
    BY <1>1 DEF StateInHand, Fresh
  <2>3. \A u \in Threads : loc[u].pk = h => u = t
    BY <1>1, <1>3 DEF IInv, Hands, h
  <2>4. \A s \in Sessions : ~Holds(s, h)
    BY <1>1, <1>3 DEF IInv, Queues, h
  <2> QED BY <2>1, <2>2, <2>3, <2>4
<1>14. \A u \in Threads : loc'[u].pk = IF u = t THEN None ELSE loc[u].pk
  BY <1>4, <1>7
<1>15. Hands'
  <2>1. ASSUME NEW u \in Threads, loc'[u].pk # None
        PROVE  pkt'[loc'[u].pk].state = StateInHand(loc'[u]) /\ loc'[u].pk <= taken'
    BY <1>1, <1>7, <1>14, <2>1 DEF IInv, Hands
  <2>2. ASSUME NEW u \in Threads, NEW v \in Threads,
               loc'[u].pk = loc'[v].pk, loc'[u].pk # None
        PROVE  u = v
    BY <1>14, <2>2 DEF IInv, Hands
  <2> QED BY <1>1, <2>1, <2>2 DEF IInv, Hands
<1>16. \A i \in 1..Len(q) : q[i] # h
  BY <1>2, <1>13 DEF Holds, q
<1>17. NoDuplicates(Append(q, h))
  <2>1. NoDuplicates(q)
    BY <1>2 DEF IInv, Queues, q
  <2>2. ASSUME NEW i \in 1..(Len(q) + 1), NEW j \in 1..(Len(q) + 1),
               Append(q, h)[i] = Append(q, h)[j]
        PROVE  i = j
    <3>1. i \in 1..Len(q) \/ i = Len(q) + 1
      BY <1>5
    <3>2. j \in 1..Len(q) \/ j = Len(q) + 1
      BY <1>5
    <3> QED BY <1>5, <1>16, <2>1, <2>2, <3>1, <3>2 DEF NoDuplicates
  <2> QED BY <1>5, <2>2 DEF NoDuplicates
<1>18. ASSUME NEW s \in Sessions, NEW p \in Pkts
       PROVE  Holds(s, p)' <=> Holds(s, p) \/ (s = k /\ p = h)
  <2>1. CASE s = k
    <3>1. (\E i \in 1..(Len(q) + 1) : Append(q, h)[i] = p)
            <=> (\E i \in 1..Len(q) : q[i] = p) \/ p = h
      <4>1. \A i \in 1..Len(q) : i \in 1..(Len(q) + 1)
        BY <1>5
      <4>2. \A i \in 1..(Len(q) + 1) : i \in 1..Len(q) \/ i = Len(q) + 1
        BY <1>5
      <4>3. Len(q) + 1 \in 1..(Len(q) + 1)
        BY <1>5
      <4> QED BY <1>5, <4>1, <4>2, <4>3
    <3>2. sess'[s].q = Append(q, h) /\ sess'[s].state = "live"
      BY <1>6, <1>8, <2>1
    <3>3. Holds(s, p)' <=> \E i \in 1..(Len(q) + 1) : Append(q, h)[i] = p
      BY <1>5, <3>2 DEF Holds
    <3>4. Holds(s, p) <=> \E i \in 1..Len(q) : q[i] = p
      BY <1>2, <2>1 DEF Holds, q
    <3> QED BY <2>1, <3>1, <3>3, <3>4
  <2>2. CASE s # k
    BY <1>8, <2>2 DEF Holds
  <2> QED BY <2>1, <2>2
<1>19. Queues'
  <2>1. ASSUME NEW s \in Sessions, sess'[s].state = "live"
        PROVE  NoDuplicates(sess'[s].q)
    <3>1. CASE s = k
      BY <1>6, <1>8, <1>17, <3>1
    <3>2. CASE s # k
      BY <1>8, <2>1, <3>2 DEF IInv, Queues
    <3> QED BY <3>1, <3>2
  <2>2. ASSUME NEW s \in Sessions, NEW p \in Pkts, Holds(s, p)'
        PROVE  /\ pkt'[p].state = "live"
               /\ \A u \in Threads : loc'[u].pk # p
               /\ \A r \in Sessions : Holds(r, p)' => r = s
    <3>1. CASE p = h
      BY <1>1, <1>3, <1>13, <1>14, <1>18, <2>2, <3>1
    <3>2. CASE p # h
      <4>1. p # None
        BY Numbers
      <4> QED BY <1>1, <1>14, <1>18, <2>2, <3>2, <4>1 DEF IInv, Queues
    <3> QED BY <3>1, <3>2
  <2> QED BY <2>1, <2>2 DEF Queues, NoDuplicates
<1>20. Somewhere'
  <2> SUFFICES ASSUME NEW p \in Pkts, pkt'[p].state = "live"
               PROVE  (\E s \in Sessions : Holds(s, p)')
                        \/ \E u \in Threads : loc'[u].pk = p
    BY DEF Somewhere
  <2>1. CASE p = h
    BY <1>2, <1>3, <1>18, <2>1
  <2>2. CASE p # h
    <3>1. (\E s \in Sessions : Holds(s, p)) \/ \E u \in Threads : loc[u].pk = p
      BY <1>1 DEF IInv, Somewhere
    <3>2. \A u \in Threads : loc[u].pk = p => loc'[u].pk = p
      BY <1>14, <2>2 DEF h
    <3> QED BY <1>18, <3>1, <3>2
  <2> QED BY <2>1, <2>2
<1> QED BY <1>9, <1>10, <1>12, <1>15, <1>19, <1>20 DEF IInv

-----------------------------------------------------------------------------
(* What frees packets: a session that is freed, and a thread that has one. *)

\* Packets that are freed leave the queues with their session, or the hands of
\* the thread that freed them.
LEMMA FreesHands ==
  ASSUME IInv, NEW F \in SUBSET Pkts, FreePkts(F), UNCHANGED taken,
         \A p \in F : pkt[p].state = "live",
         \A s \in Sessions : \A p \in Pkts : Holds(s, p)' <=> Holds(s, p) /\ p \notin F,
         \A s \in Sessions : sess'[s].state = "live" => NoDuplicates(sess'[s].q),
         \A u \in Threads :
           /\ loc'[u].pk \in {loc[u].pk, None}
           /\ loc'[u].pk # None =>
                StateInHand(loc'[u]) = IF loc[u].pk \in F THEN "freed"
                                       ELSE StateInHand(loc[u])
           /\ loc[u].pk # None /\ loc'[u].pk = None =>
                loc[u].pk \in F \/ pkt[loc[u].pk].state = "freed"
  PROVE  Hands' /\ Queues' /\ Somewhere'
<1>1. \A p \in Pkts : pkt'[p].state = IF p \in F THEN "freed" ELSE pkt[p].state
  BY Typed DEF FreePkts, IInv
<1>2. \A u \in Threads : loc[u].pk # None => loc[u].pk \in Pkts
  BY LocalsAt, Numbers DEF LocType
<1>3. Hands'
  <2>1. ASSUME NEW u \in Threads, loc'[u].pk # None
        PROVE  pkt'[loc'[u].pk].state = StateInHand(loc'[u]) /\ loc'[u].pk <= taken'
    <3>1. /\ loc'[u].pk = loc[u].pk /\ loc[u].pk \in Pkts
          /\ pkt[loc[u].pk].state = StateInHand(loc[u]) /\ loc[u].pk <= taken
      BY <1>2, <2>1 DEF IInv, Hands
    <3> QED BY <1>1, <2>1, <3>1
  <2>2. ASSUME NEW u \in Threads, NEW v \in Threads,
               loc'[u].pk = loc'[v].pk, loc'[u].pk # None
        PROVE  u = v
    <3>1. loc[u].pk = loc[v].pk /\ loc[u].pk # None
      BY <2>2
    <3> QED BY <3>1 DEF IInv, Hands
  <2>3. ASSUME NEW p \in Pkts, p > taken' PROVE pkt'[p].state = "unused"
    <3>1. pkt[p].state = "unused"
      BY <2>3 DEF IInv, Hands
    <3> QED BY <1>1, <3>1
  <2> QED BY <2>1, <2>2, <2>3 DEF Hands
<1>4. Queues'
  <2>1. ASSUME NEW s \in Sessions, NEW p \in Pkts, Holds(s, p), p \notin F
        PROVE  /\ pkt'[p].state = "live"
               /\ \A u \in Threads : loc'[u].pk # p
               /\ \A r \in Sessions : Holds(r, p) => r = s
    <3>1. /\ pkt[p].state = "live" /\ \A u \in Threads : loc[u].pk # p
          /\ \A r \in Sessions : Holds(r, p) => r = s
      BY <2>1 DEF IInv, Queues
    <3> QED BY <1>1, <2>1, <3>1, Numbers
  <2> QED BY <2>1 DEF Queues, NoDuplicates
<1>5. Somewhere'
  <2> SUFFICES ASSUME NEW p \in Pkts, pkt'[p].state = "live"
               PROVE  (\E s \in Sessions : Holds(s, p)')
                        \/ \E u \in Threads : loc'[u].pk = p
    BY DEF Somewhere
  <2>1. p \notin F /\ pkt[p].state = "live"
    BY <1>1
  <2>2. CASE \E s \in Sessions : Holds(s, p)
    BY <2>1, <2>2
  <2>3. CASE \E u \in Threads : loc[u].pk = p
    <3>1. PICK u \in Threads : loc[u].pk = p
      BY <2>3
    <3>2. loc'[u].pk = p
      BY <2>1, <3>1, Numbers
    <3> QED BY <3>2
  <2> QED BY <2>1, <2>2, <2>3 DEF IInv, Somewhere
<1> QED BY <1>3, <1>4, <1>5

LEMMA FreesType ==
  ASSUME TypeOK, NEW F, FreePkts(F)
  PROVE  pkt' \in [Pkts -> [state : {"unused", "live", "freed"}, num : SeqNos,
                                 by : Senders \cup {"none"}]]
BY Typed DEF FreePkts

LEMMA FreePktInv ==
  ASSUME IInv, NEW t \in Threads, FreePkt(t)
  PROVE  IInv'
<1> DEFINE h == loc[t].pk
           l == IF t = "main" THEN [loc[t] EXCEPT !.pc = "reap"] ELSE Outside
<1>1. /\ loc[t].pc = "free" /\ LocalsOf(t, loc[t]) /\ loc[t] \in LocType
      /\ UNCHANGED <<sess, table, tableOwner, taken, sent, fault>> /\ FreePkts({h})
  BY LocalsAt DEF FreePkt, At
<1>2. h # None /\ h \in Pkts /\ t \notin Senders
  BY <1>1, Roles, Numbers DEF LocalsOf, Queuing, Fresh, Releasing, Trying, LocType
<1>3. loc' = [loc EXCEPT ![t] = l] /\ l \in LocType /\ l.pc # "replace"
  BY <1>1, GotoMoves, OutsideType
     DEF IInv, FreePkt, Return, LocType, UsesSession, Outside
<1>4. /\ l.pk = IF t = "main" THEN h ELSE None
      /\ l.pc = IF t = "main" THEN "reap" ELSE "out"
      /\ t = "main" => l.se = loc[t].se
  BY <1>1 DEF Outside, LocType
<1>5. LocalsOf(t, l)
  <2>1. t = "main" => loc[t].se # None
    BY <1>1, Roles DEF IInv, TimerHolds, At
  <2> QED BY <1>2, <1>4, <2>1, Roles
          DEF LocalsOf, UsesSession, Releasing, Trying
<1> HIDE DEF h, l
<1>6. \A u \in Threads : loc'[u] = IF u = t THEN l ELSE loc[u]
  BY <1>3, OneMoves DEF IInv
<1>7. TypeOK'
  <2>1. loc' \in [Threads -> LocType]
    BY <1>3, Typed DEF IInv
  <2>2. pkt' \in [Pkts -> [state : {"unused", "live", "freed"}, num : SeqNos,
                                 by : Senders \cup {"none"}]]
    BY <1>1, FreesType DEF IInv
  <2> QED BY <1>1, <2>1, <2>2 DEF IInv, TypeOK, LocType
<1>8. Locals'
  BY <1>5, <1>6 DEF IInv, Locals
<1>9. TimerHolds' /\ TableLive' /\ ReplacedOnce' /\ NoSessionLost'
  BY <1>1, <1>3, <1>4, TableKept
<1>10. /\ pkt[h].state = "live"
       /\ \A u \in Threads : loc[u].pk = h => u = t
       /\ \A s \in Sessions : ~Holds(s, h)
  <2>1. pkt[h].state = StateInHand(loc[t]) /\ \A u \in Threads : loc[u].pk = h => u = t
    BY <1>2 DEF IInv, Hands, h
  <2>2. StateInHand(loc[t]) = "live"
    BY <1>1 DEF StateInHand, Fresh
  <2>3. \A s \in Sessions : ~Holds(s, h)
    BY <1>2 DEF IInv, Queues, h
  <2> QED BY <2>1, <2>2, <2>3
<1>11. \A s \in Sessions : \A p \in Pkts : Holds(s, p)' <=> Holds(s, p) /\ p \notin {h}
  BY <1>1, <1>10 DEF Holds
<1>12. \A s \in Sessions : sess'[s].state = "live" => NoDuplicates(sess'[s].q)
  BY <1>1 DEF IInv, Queues
<1>13. \A u \in Threads :
         /\ loc'[u].pk \in {loc[u].pk, None}
         /\ loc'[u].pk # None =>
              StateInHand(loc'[u]) = IF loc[u].pk \in {h} THEN "freed"
                                     ELSE StateInHand(loc[u])
         /\ loc[u].pk # None /\ loc'[u].pk = None =>
              loc[u].pk \in {h} \/ pkt[loc[u].pk].state = "freed"
  <2>1. ASSUME NEW u \in Threads, u # t PROVE loc'[u] = loc[u] /\ loc[u].pk \notin {h}
    BY <1>6, <1>10, <2>1
  <2>2. loc'[t] = l /\ loc[t].pk = h
    BY <1>6 DEF h
  <2>3. l.pk # None => StateInHand(l) = "freed"
    BY <1>4 DEF StateInHand, Fresh
  <2> QED BY <1>4, <2>1, <2>2, <2>3
<1>14. Hands' /\ Queues' /\ Somewhere'
  BY <1>1, <1>2, <1>10, <1>11, <1>12, <1>13, FreesHands
<1> QED BY <1>7, <1>8, <1>9, <1>14 DEF IInv

\* The packets of a session that is freed, with it.
LEMMA FreesSession ==
  ASSUME IInv, NEW k \in Sessions, sess[k].state = "live",
         sess' = [sess EXCEPT ![k].state = "freed"],
         NEW F, F = InQueue(sess[k].q)
  PROVE  /\ sess' \in [Sessions -> SessType]
         /\ \A s \in Sessions : sess'[s].state = IF s = k THEN "freed" ELSE sess[s].state
         /\ F \in SUBSET Pkts
         /\ \A p \in F : pkt[p].state = "live" /\ \A u \in Threads : loc[u].pk # p
         /\ \A s \in Sessions : \A p \in Pkts : Holds(s, p)' <=> Holds(s, p) /\ p \notin F
         /\ \A s \in Sessions : sess'[s].state = "live" => NoDuplicates(sess'[s].q)
<1>1. sess \in [Sessions -> SessType] /\ sess[k].q \in Seq(Pkts)
  BY Typed DEF IInv, SessType
<1>2. sess' \in [Sessions -> SessType]
  BY <1>1 DEF SessType
<1>3. \A s \in Sessions : /\ sess'[s].q = sess[s].q
                          /\ sess'[s].state = IF s = k THEN "freed" ELSE sess[s].state
  BY <1>1 DEF SessType
<1>4. F \in SUBSET Pkts /\ \A p \in Pkts : p \in F <=> Holds(k, p)
  <2>1. DOMAIN sess[k].q = 1..Len(sess[k].q)
    BY <1>1, LenProperties
  <2>2. \A i \in 1..Len(sess[k].q) : sess[k].q[i] \in Pkts
    BY <1>1, ElementOfSeq
  <2> QED BY <2>1, <2>2 DEF InQueue, Holds
<1>5. \A p \in F : pkt[p].state = "live" /\ \A u \in Threads : loc[u].pk # p
  BY <1>4 DEF IInv, Queues
<1>6. ASSUME NEW s \in Sessions, NEW p \in Pkts
      PROVE  Holds(s, p)' <=> Holds(s, p) /\ p \notin F
  <2>1. CASE s = k
    BY <1>3, <1>4, <2>1 DEF Holds
  <2>2. CASE s # k
    <3>1. Holds(s, p)' <=> Holds(s, p)
      BY <1>3, <2>2 DEF Holds
    <3>2. ~(Holds(s, p) /\ Holds(k, p))
      BY <2>2 DEF IInv, Queues
    <3> QED BY <1>4, <3>1, <3>2
  <2> QED BY <2>1, <2>2
<1>7. \A s \in Sessions : sess'[s].state = "live" => NoDuplicates(sess'[s].q)
  BY <1>3 DEF IInv, Queues
<1> QED BY <1>2, <1>3, <1>4, <1>5, <1>6, <1>7

\* The session that was in the table is freed by the thread that replaced it.
LEMMA ReplaceInv ==
  ASSUME IInv, NEW t \in Senders, Replace(t)
  PROVE  IInv'
<1> DEFINE k == loc[t].old
           F == InQueue(sess[k].q)
           l == [loc[t] EXCEPT !.pc = "number"]
<1>1. /\ t \in Threads /\ t # "main" /\ t # "udp" /\ loc[t].pc = "replace"
      /\ LocalsOf(t, loc[t]) /\ loc[t] \in LocType
      /\ UNCHANGED <<table, tableOwner, taken, sent, fault>>
      /\ sess' = [sess EXCEPT ![k].state = "freed"] /\ FreePkts(F)
  BY LocalsAt, Roles DEF Replace, At
<1>2. k # None /\ k # table /\ sess[k].state = "live"
  BY <1>1 DEF IInv, ReplacedOnce, At
<1>3. k \in Sessions
  BY <1>1, <1>2, Numbers DEF LocType
<1>4. loc' = [loc EXCEPT ![t] = l]
  BY <1>1, GotoMoves DEF Replace, IInv
<1>5. /\ l \in LocType /\ l.pk = loc[t].pk /\ l.se = loc[t].se /\ l.pc = "number"
  BY <1>1 DEF LocType, UsesSession
<1>6. loc[t].se # None
  BY <1>1 DEF LocalsOf, UsesSession
<1> HIDE DEF k, F, l
<1>7. /\ sess' \in [Sessions -> SessType]
      /\ \A s \in Sessions : sess'[s].state = IF s = k THEN "freed" ELSE sess[s].state
      /\ F \in SUBSET Pkts
      /\ \A p \in F : pkt[p].state = "live" /\ \A u \in Threads : loc[u].pk # p
      /\ \A s \in Sessions : \A p \in Pkts : Holds(s, p)' <=> Holds(s, p) /\ p \notin F
      /\ \A s \in Sessions : sess'[s].state = "live" => NoDuplicates(sess'[s].q)
  BY <1>1, <1>2, <1>3, FreesSession DEF F
<1>8. \A u \in Threads : loc'[u] = IF u = t THEN l ELSE loc[u]
  BY <1>1, <1>4, OneMoves DEF IInv
<1>9. TypeOK'
  <2>1. loc' \in [Threads -> LocType]
    BY <1>4, <1>5, Typed DEF IInv
  <2>2. pkt' \in [Pkts -> [state : {"unused", "live", "freed"}, num : SeqNos,
                                 by : Senders \cup {"none"}]]
    BY <1>1, FreesType DEF IInv
  <2> QED BY <1>1, <1>7, <2>1, <2>2 DEF IInv, TypeOK, LocType, SessType
<1>10. Locals'
  <2>1. LocalsOf(t, l)
    BY <1>1, <1>5, <1>6 DEF LocalsOf, UsesSession, Queuing, Fresh
  <2> QED BY <1>8, <2>1 DEF IInv, Locals
<1>11. TimerHolds'
  BY <1>1, <1>8, Roles DEF IInv, TimerHolds, At
<1>12. TableLive'
  <2>1. table # None => table \in Sessions
    BY Typed, Numbers DEF IInv
  <2> QED BY <1>1, <1>2, <1>7, <2>1 DEF IInv, TableLive
<1>13. ReplacedOnce'
  <2> SUFFICES ASSUME NEW u \in Threads, loc'[u].pc = "replace"
               PROVE  /\ loc'[u].old # None /\ loc'[u].old # table'
                      /\ sess'[loc'[u].old].state = "live"
                      /\ \A v \in Threads : loc'[v].pc = "replace"
                           /\ loc'[v].old = loc'[u].old => v = u
    BY DEF ReplacedOnce, At
  <2>1. u # t /\ loc'[u] = loc[u]
    BY <1>5, <1>8
  <2>2. /\ loc[u].old # None /\ loc[u].old # table
        /\ sess[loc[u].old].state = "live"
        /\ \A v \in Threads : loc[v].pc = "replace" /\ loc[v].old = loc[u].old => v = u
    BY <2>1 DEF IInv, ReplacedOnce, At
  <2>3. loc[u].old # k
    BY <1>1, <2>1, <2>2 DEF k
  <2>4. loc[u].old \in Sessions
    BY <2>2, LocalsAt, Numbers DEF LocType
  <2>5. \A v \in Threads : loc'[v].pc = "replace" => loc'[v] = loc[v]
    BY <1>5, <1>8
  <2> QED BY <1>1, <1>7, <2>1, <2>2, <2>3, <2>4, <2>5
<1>14. NoSessionLost'
  <2> SUFFICES ASSUME NEW r \in Sessions, sess'[r].state = "live", r # table'
               PROVE  \E u \in Threads : loc'[u].pc = "replace" /\ loc'[u].old = r
    BY DEF NoSessionLost, At
  <2>1. r # k /\ sess[r].state = "live"
    BY <1>7
  <2>2. PICK u \in Threads : loc[u].pc = "replace" /\ loc[u].old = r
    BY <1>1, <2>1 DEF IInv, NoSessionLost, At
  <2>3. u # t
    BY <2>1, <2>2 DEF k
  <2> QED BY <1>8, <2>2, <2>3
<1>15. \A u \in Threads :
         /\ loc'[u].pk \in {loc[u].pk, None}
         /\ loc'[u].pk # None =>
              StateInHand(loc'[u]) = IF loc[u].pk \in F THEN "freed"
                                     ELSE StateInHand(loc[u])
         /\ loc[u].pk # None /\ loc'[u].pk = None =>
              loc[u].pk \in F \/ pkt[loc[u].pk].state = "freed"
  <2>1. StateInHand(l) = StateInHand(loc[t])
    BY <1>1, <1>5 DEF StateInHand, Fresh
  <2>2. \A u \in Threads : /\ loc'[u].pk = loc[u].pk /\ loc[u].pk \notin F
                           /\ StateInHand(loc'[u]) = StateInHand(loc[u])
    BY <1>5, <1>7, <1>8, <2>1
  <2> QED BY <2>2
<1>16. Hands' /\ Queues' /\ Somewhere'
  <2>1. \A p \in F : pkt[p].state = "live"
    BY <1>7
  <2> QED BY <1>1, <1>7, <1>15, <2>1, FreesHands
<1> QED BY <1>9, <1>10, <1>11, <1>12, <1>13, <1>14, <1>16 DEF IInv

\* The end of proc_timer: the session in the table is freed if it is idle.
LEMMA ReapInv ==
  ASSUME IInv, Sound("main"), Reap
  PROVE  IInv'
<1> DEFINE k == loc["main"].se
<1>1. /\ "main" \in Threads /\ "main" \notin Senders
      /\ loc["main"].pc = "reap" /\ loc["main"].pc \in UsesSession
      /\ LocalsOf("main", loc["main"])
      /\ loc' = [loc EXCEPT !["main"] = Outside]
      /\ UNCHANGED <<taken, sent, fault>> /\ tableOwner' = "none"
  BY LocalsAt, Roles DEF Reap, At, UsesSession, Return
<1>2. /\ Outside.pc = "out" /\ Outside.pk = None /\ Outside \in LocType
  BY OutsideType DEF Outside
<1>3. k \in Sessions /\ Mine("main") = sess[k] /\ sess[k].state = "live" /\ k = table
  <2>1. k = table
    BY <1>1 DEF IInv, TimerHolds, At
  <2> QED BY <1>1, <2>1, MineLive
<1>4. \A u \in Threads : loc'[u] = IF u = "main" THEN Outside ELSE loc[u]
  BY <1>1, OneMoves DEF IInv
<1>5. Locals'
  <2>1. LocalsOf("main", Outside)
    BY <1>1, <1>2 DEF LocalsOf, UsesSession, Queuing, Fresh, Releasing, Trying
  <2> QED BY <1>4, <2>1 DEF IInv, Locals
<1>6. TimerHolds'
  BY <1>1, <1>2, <1>4 DEF TimerHolds, At
<1>7. loc' \in [Threads -> LocType]
  BY <1>1, <1>2, Typed DEF IInv
<1>8. \A u \in Threads : loc'[u].pc = "replace" <=> loc[u].pc = "replace"
  BY <1>1, <1>2, <1>4
<1>9. \A u \in Threads : loc'[u].pc = "replace" => loc'[u] = loc[u]
  BY <1>2, <1>4
<1>10. loc["main"].pk # None => pkt[loc["main"].pk].state = "freed"
  <2>1. StateInHand(loc["main"]) = "freed"
    BY <1>1 DEF StateInHand, Fresh
  <2> QED BY <1>1, <2>1 DEF IInv, Hands
<1>11. CASE ~sess[k].idle
  <2>1. UNCHANGED <<table, sess, pkt>>
    BY <1>3, <1>11 DEF Reap
  <2>2. TypeOK'
    BY <1>1, <1>7, <2>1 DEF IInv, TypeOK, LocType
  <2>3. TableLive' /\ ReplacedOnce' /\ NoSessionLost'
    BY <1>1, <1>2, <2>1, TableKept
  <2>4. FreePkts({}) /\ {} \in SUBSET Pkts
    BY <2>1, Typed DEF FreePkts, IInv
  <2>5. \A s \in Sessions : \A p \in Pkts : Holds(s, p)' <=> Holds(s, p) /\ p \notin {}
    BY <2>1 DEF Holds
  <2>6. \A s \in Sessions : sess'[s].state = "live" => NoDuplicates(sess'[s].q)
    BY <2>1 DEF IInv, Queues
  <2>7. \A u \in Threads :
          /\ loc'[u].pk \in {loc[u].pk, None}
          /\ loc'[u].pk # None =>
               StateInHand(loc'[u]) = IF loc[u].pk \in {} THEN "freed"
                                      ELSE StateInHand(loc[u])
          /\ loc[u].pk # None /\ loc'[u].pk = None =>
               loc[u].pk \in {} \/ pkt[loc[u].pk].state = "freed"
    BY <1>2, <1>4, <1>10
  <2>8. Hands' /\ Queues' /\ Somewhere'
    BY <1>1, <2>4, <2>5, <2>6, <2>7, FreesHands
  <2> QED BY <1>5, <1>6, <2>2, <2>3, <2>8 DEF IInv
<1>12. CASE sess[k].idle
  <2>1. table' = None /\ FreePkts(InQueue(sess[k].q))
    BY <1>3, <1>12 DEF Reap
  <2>2. sess' = [sess EXCEPT ![k].state = "freed"]
    BY <1>3, <1>12, Typed DEF Reap, Update, IInv
  <2> DEFINE G == InQueue(sess[k].q)
  <2> HIDE DEF G
  <2>4. /\ sess' \in [Sessions -> SessType]
        /\ \A s \in Sessions : sess'[s].state = IF s = k THEN "freed" ELSE sess[s].state
        /\ G \in SUBSET Pkts
        /\ \A p \in G : pkt[p].state = "live" /\ \A u \in Threads : loc[u].pk # p
        /\ \A s \in Sessions : \A p \in Pkts : Holds(s, p)' <=> Holds(s, p) /\ p \notin G
        /\ \A s \in Sessions : sess'[s].state = "live" => NoDuplicates(sess'[s].q)
    <3>1. k \in Sessions /\ sess[k].state = "live"
      BY <1>3
    <3> HIDE DEF k
    <3> QED BY <2>2, <3>1, FreesSession DEF G
  <2>5. TypeOK'
    <3>1. pkt' \in [Pkts -> [state : {"unused", "live", "freed"}, num : SeqNos,
                                 by : Senders \cup {"none"}]]
      BY <2>1, FreesType DEF IInv
    <3>2. table' \in 0..NumSess
      BY <2>1, Numbers DEF None
    <3> QED BY <1>1, <1>7, <2>4, <3>1, <3>2 DEF IInv, TypeOK, LocType, SessType
  <2>6. TableLive'
    BY <2>1 DEF TableLive
  <2>7. ReplacedOnce'
    <3> SUFFICES ASSUME NEW u \in Threads, loc'[u].pc = "replace"
                 PROVE  /\ loc'[u].old # None /\ loc'[u].old # table'
                        /\ sess'[loc'[u].old].state = "live"
                        /\ \A v \in Threads : loc'[v].pc = "replace"
                             /\ loc'[v].old = loc'[u].old => v = u
      BY DEF ReplacedOnce, At
    <3>1. /\ loc'[u] = loc[u] /\ loc[u].old # None /\ loc[u].old # table
          /\ sess[loc[u].old].state = "live"
          /\ \A v \in Threads : loc[v].pc = "replace" /\ loc[v].old = loc[u].old => v = u
      BY <1>9 DEF IInv, ReplacedOnce, At
    <3>2. loc[u].old \in Sessions
      BY <3>1, LocalsAt, Numbers DEF LocType
    <3> QED BY <1>3, <1>9, <2>1, <2>4, <3>1, <3>2
  <2>8. NoSessionLost'
    <3> SUFFICES ASSUME NEW r \in Sessions, sess'[r].state = "live"
                 PROVE  \E u \in Threads : loc'[u].pc = "replace" /\ loc'[u].old = r
      BY DEF NoSessionLost, At
    <3>1. r # table /\ sess[r].state = "live"
      BY <1>3, <2>4
    <3> QED BY <1>8, <1>9, <3>1 DEF IInv, NoSessionLost, At
  <2>9. \A u \in Threads :
          /\ loc'[u].pk \in {loc[u].pk, None}
          /\ loc'[u].pk # None =>
               StateInHand(loc'[u]) = IF loc[u].pk \in G THEN "freed"
                                      ELSE StateInHand(loc[u])
          /\ loc[u].pk # None /\ loc'[u].pk = None =>
               loc[u].pk \in G \/ pkt[loc[u].pk].state = "freed"
    BY <1>2, <1>4, <1>10, <2>4
  <2>10. Hands' /\ Queues' /\ Somewhere'
    <3>1. \A p \in G : pkt[p].state = "live"
      BY <2>4
    <3>2. FreePkts(G)
      BY <2>1 DEF G
    <3> QED BY <1>1, <2>4, <2>9, <3>1, <3>2, FreesHands
  <2> QED BY <1>5, <1>6, <2>5, <2>6, <2>7, <2>8, <2>10 DEF IInv
<1> QED BY <1>11, <1>12

-----------------------------------------------------------------------------
(* The invariant. *)

LEMMA InitInv == Init => IInv
<1> SUFFICES ASSUME Init PROVE IInv
  OBVIOUS
<1>1. /\ Outside.pc = "out" /\ Outside.pk = None /\ Outside \in LocType
  BY OutsideType DEF Outside
<1>2. /\ Unused \in SessType /\ Unused.state = "unused"
  BY NewSessionType DEF Unused, NewSession
<1>3. \A t \in Threads : loc[t] = Outside
  BY DEF Init
<1>4. \A s \in Sessions : sess[s] = Unused
  BY DEF Init
<1>5. \A p \in Pkts : pkt[p].state = "unused"
  BY DEF Init
<1>6. TypeOK
  <2>1. loc \in [Threads -> LocType] /\ sess \in [Sessions -> SessType]
    BY <1>1, <1>2 DEF Init
  <2>2. pkt \in [Pkts -> [state : {"unused", "live", "freed"}, num : SeqNos,
                                 by : Senders \cup {"none"}]]
    BY Numbers DEF Init
  <2>3. table \in 0..NumSess /\ taken \in 0..NumPkts /\ sent \subseteq SeqNos
    BY Numbers DEF Init, None
  <2> QED BY <2>1, <2>2, <2>3 DEF Init, TypeOK, LocType, SessType
<1>7. Locals
  <2>1. \A t \in Threads : LocalsOf(t, Outside)
    BY <1>1, Roles DEF LocalsOf, UsesSession, Queuing, Fresh, Releasing, Trying
  <2> QED BY <1>3, <2>1 DEF Locals
<1>8. TimerHolds
  BY <1>1, <1>3, Roles DEF TimerHolds, At, Init
<1>9. TableLive /\ ReplacedOnce /\ NoSessionLost
  BY <1>1, <1>2, <1>3, <1>4 DEF TableLive, ReplacedOnce, NoSessionLost, At, Init
<1>10. Hands
  BY <1>1, <1>3, <1>5 DEF Hands
<1>11. Queues /\ Somewhere
  BY <1>2, <1>4, <1>5 DEF Queues, Somewhere, Holds
<1> QED BY <1>6, <1>7, <1>8, <1>9, <1>10, <1>11 DEF IInv

\* A thread that meets undefined behaviour stops the process; nothing moves.
LEMMA FaultInv ==
  ASSUME IInv, fault' \in {"freed session", "freed packet", "empty list"},
         UNCHANGED <<loc, sess, table, tableOwner, pkt, taken, sent>>
  PROVE  IInv'
<1>1. TypeOK'
  BY DEF IInv, TypeOK
<1>2. Locals' /\ TimerHolds' /\ TableLive' /\ ReplacedOnce' /\ NoSessionLost'
  BY DEF IInv, Locals, TimerHolds, TableLive, ReplacedOnce, NoSessionLost, At
<1>3. Hands' /\ Queues' /\ Somewhere'
  <2>1. UNCHANGED <<loc, sess, pkt, taken>>
    OBVIOUS
  <2>2. \A s \in Sessions : \A p \in Pkts : Holds(s, p)' <=> Holds(s, p)
    BY <2>1 DEF Holds
  <2>3. Hands'
    BY <2>1 DEF IInv, Hands
  <2>4. Queues'
    BY <2>1, <2>2 DEF IInv, Queues, NoDuplicates
  <2>5. Somewhere'
    BY <2>1, <2>2 DEF IInv, Somewhere
  <2> QED BY <2>3, <2>4, <2>5
<1> QED BY <1>1, <1>2, <1>3 DEF IInv

LEMMA StutterInv ==
  ASSUME IInv, UNCHANGED vars
  PROVE  IInv'
<1>1. TypeOK'
  BY DEF IInv, TypeOK, vars
<1>2. Locals' /\ TimerHolds' /\ TableLive' /\ ReplacedOnce' /\ NoSessionLost'
  BY DEF IInv, Locals, TimerHolds, TableLive, ReplacedOnce, NoSessionLost, At, vars
<1>3. Hands' /\ Queues' /\ Somewhere'
  <2>1. UNCHANGED <<loc, sess, pkt, taken>>
    BY DEF vars
  <2>2. \A s \in Sessions : \A p \in Pkts : Holds(s, p)' <=> Holds(s, p)
    BY <2>1 DEF Holds
  <2>3. Hands'
    BY <2>1 DEF IInv, Hands
  <2>4. Queues'
    BY <2>1, <2>2 DEF IInv, Queues, NoDuplicates
  <2>5. Somewhere'
    BY <2>1, <2>2 DEF IInv, Somewhere
  <2> QED BY <2>3, <2>4, <2>5
<1> QED BY <1>1, <1>2, <1>3 DEF IInv

LEMMA StepInv ==
  ASSUME IInv, NEW t \in Threads, Sound(t), Step(t)
  PROVE  IInv'
<1>1. CASE t \in Senders /\ Sender(t)
  BY <1>1, UpperSendInv, CreateInv, ReplaceInv, ReadSeqInv, WriteSeqInv, PushInv
     DEF Sender
<1>2. CASE t = "udp" /\ Acks
  BY <1>2, AckArrivesInv, PopAckedInv, AckPartInv DEF Acks
<1>3. CASE t = "main" /\ Timer
  <2>1. CASE TimerIdle
    BY <2>1, StutterInv DEF TimerIdle
  <2> QED BY <1>3, <2>1, TimerStartInv, TimerTestInv, AckTimeoutInv, ReapInv DEF Timer
<1>4. CASE Refresh(t)
  BY <1>4, RefreshInv
<1>5. CASE TrySend(t)
  BY <1>5, TrySendInv
<1>6. CASE ClearTimer(t)
  BY <1>6, ClearTimerInv
<1>7. CASE Unlock(t)
  BY <1>7, UnlockInv
<1>8. CASE FreePkt(t)
  BY <1>8, FreePktInv
<1> QED BY <1>1, <1>2, <1>3, <1>4, <1>5, <1>6, <1>7, <1>8 DEF Step

LEMMA NextInv == IInv /\ [Next]_vars => IInv'
<1> SUFFICES ASSUME IInv, [Next]_vars PROVE IInv'
  OBVIOUS
<1>1. CASE \E t \in Threads : Sound(t) /\ Step(t)
  BY <1>1, StepInv
<1>2. CASE \E s \in Sessions : IdleExpires(s)
  BY <1>2, IdleExpiresInv
<1>3. CASE Crash
  BY <1>3, FaultInv DEF Crash, Fault
<1>4. CASE Stopped \/ UNCHANGED vars
  BY <1>4, StutterInv DEF Stopped
<1> QED BY <1>1, <1>2, <1>3, <1>4 DEF Next

\* The invariant is one: split_init sets it up, and every step of every thread
\* of split.c keeps it.
THEOREM Inductive == Spec => []IInv
<1>1. Init => IInv
  BY InitInv
<1>2. IInv /\ [Next]_vars => IInv'
  BY NextInv
<1> QED BY <1>1, <1>2, PTL DEF Spec

\* The sessions, the queues and the locals of the threads of split.c keep their
\* types however the threads interleave, undefined behaviour included.
THEOREM TypeCorrect == Spec => []TypeOK
<1>1. IInv => TypeOK
  BY DEF IInv
<1> QED BY <1>1, Inductive, PTL

\* No thread waits for sse_lock with the lock of the session that the holder of
\* sse_lock waits for (proc_timer takes se->lock under sse_lock).
THEOREM LocksOrdered == Spec => []NoCircularWait
<1>1. IInv => NoCircularWait
  <2> SUFFICES ASSUME IInv, NEW t \in Threads, NEW u \in Threads,
                      WaitsForTable(t), tableOwner = u,
                      WaitsForSession(u), Mine(u).owner = t
               PROVE  FALSE
    BY DEF NoCircularWait
  <2>1. u = "main" /\ ~At("main", "out")
    BY Roles DEF IInv, TimerHolds, WaitsForTable
  <2>2. loc["main"].se \in Sessions
    <3>1. loc["main"].se = table /\ table # None
      BY <2>1 DEF IInv, TimerHolds
    <3>2. table \in 0..NumSess
      BY Typed DEF IInv
    <3> QED BY <3>1, <3>2, Numbers
  <2>3. Mine("main").owner \in {"none", "udp", "main"}
    BY <2>2, Typed DEF IInv, SessType, Mine
  <2>4. LocalsOf(t, loc[t]) /\ loc[t].pc \in {"create", "replace"}
    BY <2>1, LocalsAt DEF WaitsForTable
  <2>5. t \in Senders
    BY <2>4, Roles DEF LocalsOf, Releasing, Trying
  <2> QED BY <2>1, <2>3, <2>5, Roles
<1> QED BY <1>1, Inductive, PTL

-----------------------------------------------------------------------------
(* The order of a thread's packets: the one in its hands is the last that  *)
(* it was called with, those that it has pushed are before.                *)

Numbered == {"advance", "push"}

InOrderOf(q, packets) ==
  \A i, j \in DOMAIN q : i < j /\ packets[q[i]].by = packets[q[j]].by => q[i] < q[j]

Order ==
  /\ \A s \in Sessions : sess[s].state = "live" => InOrderOf(sess[s].q, pkt)
  /\ \A t \in Senders : loc[t].pk # None =>
       /\ \A p \in Pkts : pkt[p].by = t => p <= loc[t].pk
       /\ loc[t].pc \in Numbered => pkt[loc[t].pk].by = t
  /\ \A p \in Pkts : p > taken => pkt[p].by = "none"

\* Nothing is pushed to the queue of s.
NoPush(s) ==
  sess'[s].state = "live" =>
    \/ sess'[s].q = <<>>
    \/ /\ sess[s].state = "live"
       /\ sess'[s].q = sess[s].q \/ (sess[s].q # <<>> /\ sess'[s].q = Tail(sess[s].q))

LEMMA OrderKept ==
  ASSUME IInv, Order, NEW t \in Threads, NEW l, loc' = [loc EXCEPT ![t] = l],
         t \in Senders => \/ l.pk = None
                          \/ /\ l.pk = loc[t].pk
                             /\ l.pc \in Numbered => loc[t].pc \in Numbered,
         \A s \in Sessions : NoPush(s),
         \A p \in Pkts : pkt'[p].by = pkt[p].by,
         UNCHANGED taken
  PROVE  Order'
<1>1. \A u \in Threads : loc'[u] = IF u = t THEN l ELSE loc[u]
  BY OneMoves DEF IInv
<1>2. ASSUME NEW s \in Sessions, sess'[s].state = "live"
      PROVE  InOrderOf(sess'[s].q, pkt')
  <2>1. CASE sess'[s].q = <<>>
    BY <2>1 DEF InOrderOf
  <2>2. CASE sess[s].state = "live" /\ sess'[s].q = sess[s].q
    <3>1. InOrderOf(sess[s].q, pkt) /\ sess[s].q \in Seq(Pkts)
      BY <2>2, Typed DEF IInv, SessType, Order
    <3>2. \A i \in DOMAIN sess[s].q : sess[s].q[i] \in Pkts
      BY <3>1, ElementOfSeq, LenProperties
    <3> QED BY <2>2, <3>1, <3>2 DEF InOrderOf
  <2>3. CASE sess[s].state = "live" /\ sess[s].q # <<>> /\ sess'[s].q = Tail(sess[s].q)
    <3> DEFINE q == sess[s].q
    <3>1. InOrderOf(q, pkt) /\ q \in Seq(Pkts) /\ q # <<>>
      BY <2>3, Typed DEF IInv, SessType, Order
    <3>2. sess'[s].q = Tail(q)
      BY <2>3
    <3> HIDE DEF q
    <3>3. /\ Len(q) \in Nat /\ Len(Tail(q)) = Len(q) - 1 /\ Tail(q) \in Seq(Pkts)
          /\ \A i \in 1..(Len(q) - 1) : Tail(q)[i] = q[i + 1]
          /\ DOMAIN Tail(q) = 1..(Len(q) - 1) /\ DOMAIN q = 1..Len(q)
          /\ \A i \in 1..Len(q) : q[i] \in Pkts
      BY <3>1, HeadTailProperties, LenProperties
    <3>4. ASSUME NEW i \in DOMAIN Tail(q), NEW j \in DOMAIN Tail(q), i < j,
                 pkt'[Tail(q)[i]].by = pkt'[Tail(q)[j]].by
          PROVE  Tail(q)[i] < Tail(q)[j]
      <4>1. /\ i + 1 \in 1..Len(q) /\ j + 1 \in 1..Len(q) /\ i + 1 < j + 1
            /\ Tail(q)[i] = q[i + 1] /\ Tail(q)[j] = q[j + 1]
        BY <3>3, <3>4
      <4>2. pkt[q[i + 1]].by = pkt[q[j + 1]].by
        BY <3>3, <3>4, <4>1
      <4> QED BY <3>1, <3>3, <4>1, <4>2 DEF InOrderOf
    <3> QED BY <3>2, <3>4 DEF InOrderOf
  <2> QED BY <1>2, <2>1, <2>2, <2>3 DEF NoPush
<1>3. ASSUME NEW u \in Senders, loc'[u].pk # None
      PROVE  /\ \A p \in Pkts : pkt'[p].by = u => p <= loc'[u].pk
             /\ loc'[u].pc \in Numbered => pkt'[loc'[u].pk].by = u
  <2>1. u \in Threads /\ loc'[u].pk = loc[u].pk
        /\ (loc'[u].pc \in Numbered => loc[u].pc \in Numbered)
    BY <1>1, <1>3, Roles
  <2>2. loc[u].pk \in Pkts
    BY <1>3, <2>1, LocalsAt, Numbers DEF LocType
  <2> QED BY <1>3, <2>1, <2>2 DEF Order
<1> QED BY <1>2, <1>3 DEF Order

LEMMA OrderGoto ==
  ASSUME IInv, Order, NEW t \in Threads, NEW pc, Goto(t, pc),
         t \in Senders /\ pc \in Numbered => loc[t].pc \in Numbered,
         \A s \in Sessions : NoPush(s),
         \A p \in Pkts : pkt'[p].by = pkt[p].by,
         UNCHANGED taken
  PROVE  Order'
<1> DEFINE l == [loc[t] EXCEPT !.pc = pc]
<1>1. loc' = [loc EXCEPT ![t] = l] /\ l.pk = loc[t].pk /\ l.pc = pc
  BY GotoMoves, LocalsAt DEF IInv
<1> HIDE DEF l
<1> QED BY <1>1, OrderKept

LEMMA OrderReturn ==
  ASSUME IInv, Order, NEW t \in Threads, Return(t),
         \A s \in Sessions : NoPush(s),
         \A p \in Pkts : pkt'[p].by = pkt[p].by,
         UNCHANGED taken
  PROVE  Order'
<1>1. loc' = [loc EXCEPT ![t] = Outside] /\ Outside.pk = None
  BY DEF Return, Outside
<1> QED BY <1>1, OrderKept

LEMMA OrderLeave ==
  ASSUME IInv, Order, NEW t \in Threads, Leave(t),
         \A s \in Sessions : NoPush(s),
         \A p \in Pkts : pkt'[p].by = pkt[p].by,
         UNCHANGED taken
  PROVE  Order'
<1>1. CASE t \in Senders
  BY <1>1, OrderReturn DEF Leave
<1>2. CASE t \notin Senders
  BY <1>2, OrderGoto DEF Leave
<1> QED BY <1>1, <1>2

\* The queues after a step on the thread's own session, and after none.
LEMMA UpdatePushesNot ==
  ASSUME IInv, NEW t \in Threads, Sound(t), loc[t].pc \in UsesSession,
         NEW se, Update(t, se),
         se.q = Mine(t).q \/ (Mine(t).q # <<>> /\ se.q = Tail(Mine(t).q))
  PROVE  \A s \in Sessions : NoPush(s)
<1>1. loc[t].se \in Sessions /\ Mine(t) = sess[loc[t].se] /\ sess[loc[t].se].state = "live"
  BY MineLive
<1>2. \A s \in Sessions : sess'[s] = IF s = loc[t].se THEN se ELSE sess[s]
  BY <1>1, Typed DEF IInv, Update
<1> QED BY <1>1, <1>2 DEF NoPush

LEMMA NothingPushed ==
  ASSUME UNCHANGED sess
  PROVE  \A s \in Sessions : NoPush(s)
BY DEF NoPush

LEMMA FreePktsBy ==
  ASSUME TypeOK, NEW S, FreePkts(S)
  PROVE  \A p \in Pkts : pkt'[p].by = pkt[p].by
BY Typed DEF FreePkts

LEMMA FieldsKept ==
  ASSUME IInv, NEW s \in Sessions
  PROVE  /\ \A b : [sess[s] EXCEPT !.idle = b].q = sess[s].q
         /\ \A b : [sess[s] EXCEPT !.seq = b].q = sess[s].q
         /\ \A b : [sess[s] EXCEPT !.armed = b].q = sess[s].q
         /\ \A b : [sess[s] EXCEPT !.waiting = b].q = sess[s].q
         /\ \A b : [sess[s] EXCEPT !.owner = b].q = sess[s].q
         /\ \A b : [sess[s] EXCEPT !.state = b].q = sess[s].q
         /\ \A b : [sess[s] EXCEPT !.state = b].state = b
         /\ \A b : [sess[s] EXCEPT !.idle = b].state = sess[s].state
BY Typed DEF IInv, SessType

-----------------------------------------------------------------------------
(* The steps, for the order. *)

LEMMA UpperSendOrder ==
  ASSUME IInv, Order, NEW t \in Threads, Sound(t), UpperSend(t)
  PROVE  Order'
<1> DEFINE l == [Outside EXCEPT !.se = table, !.next = "number", !.num = 0,
                   !.pk = taken + 1, !.pc = IF table # None THEN "refresh" ELSE "create"]
<1>1. /\ taken' = taken + 1 /\ taken \in Nat /\ UNCHANGED <<sess, pkt>>
      /\ loc' = [loc EXCEPT ![t] = l] /\ t \in Senders
      /\ l.pk = taken + 1 /\ l.pc \notin Numbered
  BY Counted DEF IInv, UpperSend, Lookup, Outside, Numbered
<1> HIDE DEF l
<1>2. \A u \in Threads : loc'[u] = IF u = t THEN l ELSE loc[u]
  BY <1>1, OneMoves DEF IInv
<1>3. \A p \in Pkts : p \in Nat
  BY DEF Pkts
<1>4. \A p \in Pkts : pkt[p].by \in Senders => p <= taken
  BY <1>1, <1>3, Roles DEF Order
<1>5. ASSUME NEW u \in Senders, loc'[u].pk # None
      PROVE  /\ \A p \in Pkts : pkt'[p].by = u => p <= loc'[u].pk
             /\ loc'[u].pc \in Numbered => pkt'[loc'[u].pk].by = u
  <2>1. CASE u = t
    BY <1>1, <1>2, <1>3, <1>4, <2>1, Roles
  <2>2. CASE u # t
    BY <1>1, <1>2, <1>5, <2>2, Roles DEF Order
  <2> QED BY <2>1, <2>2
<1>6. \A p \in Pkts : p > taken' => pkt'[p].by = "none"
  BY <1>1, <1>3 DEF Order
<1> QED BY <1>1, <1>5, <1>6 DEF Order

LEMMA ReadSeqOrder ==
  ASSUME IInv, Order, NEW t \in Senders, Sound(t), ReadSeq(t)
  PROVE  Order'
<1> DEFINE h == loc[t].pk
           l == [loc[t] EXCEPT !.num = Mine(t).seq, !.pc = "advance"]
<1>1. /\ t \in Threads /\ At(t, "number") /\ LocalsOf(t, loc[t]) /\ loc[t] \in LocType
      /\ UNCHANGED <<sess, taken>>
  BY LocalsAt, Roles DEF ReadSeq
<1>2. h # None /\ h \in Pkts
  BY <1>1, Numbers DEF LocalsOf, Queuing, Fresh, LocType, At
<1>3. /\ loc' = [loc EXCEPT ![t] = l] /\ l.pk = h
      /\ pkt' = [pkt EXCEPT ![h] = [state |-> "live", num |-> Mine(t).seq, by |-> t]]
  BY <1>1, Typed DEF ReadSeq, LocType, IInv
<1> HIDE DEF h, l
<1>4. \A u \in Threads : loc'[u] = IF u = t THEN l ELSE loc[u]
  BY <1>1, <1>3, OneMoves DEF IInv
<1>5. \A p \in Pkts : pkt'[p].by = IF p = h THEN t ELSE pkt[p].by
  BY <1>2, <1>3, Typed DEF IInv
<1>6. \A u \in Threads : loc'[u].pk = loc[u].pk
  BY <1>3, <1>4 DEF h
<1>7. \A u \in Threads : u # t => loc[u].pk # h
  BY <1>1, <1>2 DEF IInv, Hands, h
<1>8. ASSUME NEW s \in Sessions, sess'[s].state = "live"
      PROVE  InOrderOf(sess'[s].q, pkt')
  <2> DEFINE q == sess[s].q
  <2>1. InOrderOf(q, pkt) /\ q \in Seq(Pkts) /\ sess'[s].q = q /\ sess[s].state = "live"
    BY <1>1, <1>8, Typed DEF IInv, SessType, Order
  <2>2. \A i \in DOMAIN q : q[i] \in Pkts /\ q[i] # h
    <3>1. DOMAIN q = 1..Len(q) /\ \A i \in DOMAIN q : q[i] \in Pkts
      BY <2>1, ElementOfSeq, LenProperties
    <3>2. ~Holds(s, h)
      BY <1>1, <1>2 DEF IInv, Queues, h
    <3> QED BY <2>1, <3>1, <3>2 DEF Holds
  <2> HIDE DEF q
  <2> QED BY <1>5, <2>1, <2>2 DEF InOrderOf
<1>9. ASSUME NEW u \in Senders, loc'[u].pk # None
      PROVE  /\ \A p \in Pkts : pkt'[p].by = u => p <= loc'[u].pk
             /\ loc'[u].pc \in Numbered => pkt'[loc'[u].pk].by = u
  <2>1. u \in Threads /\ loc[u].pk \in Pkts
    BY <1>6, <1>9, Roles, LocalsAt, Numbers DEF LocType
  <2>2. CASE u = t
    <3>1. loc'[u].pk = h /\ h \in Nat
      BY <1>2, <1>3, <1>4, <2>1, <2>2 DEF Pkts
    <3>2. \A p \in Pkts : pkt[p].by = u => p <= h
      BY <1>2, <2>2 DEF Order, h
    <3> QED BY <1>2, <1>5, <2>2, <3>1, <3>2
  <2>3. CASE u # t
    BY <1>4, <1>5, <1>7, <1>9, <2>1, <2>3 DEF Order
  <2> QED BY <2>2, <2>3
<1>10. \A p \in Pkts : p > taken' => pkt'[p].by = "none"
  <2>1. h <= taken /\ h \in Nat /\ taken \in Nat
    BY <1>1, <1>2, Counted DEF IInv, Hands, h, Pkts
  <2> QED BY <1>1, <1>5, <2>1 DEF Order
<1> QED BY <1>8, <1>9, <1>10 DEF Order

\* The one pushed is the last that its thread was called with.
LEMMA PushOrder ==
  ASSUME IInv, Order, NEW t \in Senders, Sound(t), Push(t)
  PROVE  Order'
<1> DEFINE k == loc[t].se
           h == loc[t].pk
           q == sess[k].q
           l == [loc[t] EXCEPT !.pk = None, !.pc = "test"]
<1>1. /\ t \in Threads /\ loc[t].pc = "push" /\ loc[t].pc \in UsesSession
      /\ LocalsOf(t, loc[t]) /\ loc[t] \in LocType
      /\ UNCHANGED <<pkt, taken>>
  BY LocalsAt, Roles DEF Push, At, UsesSession
<1>2. /\ k \in Sessions /\ Mine(t) = sess[k] /\ sess[k].state = "live"
      /\ q \in Seq(Pkts) /\ sess[k] \in SessType
  BY <1>1, MineLive DEF SessType
<1>3. h # None /\ h \in Pkts
  BY <1>1, Numbers DEF LocalsOf, Queuing, Fresh, LocType
<1>4. l.pk = None /\ loc' = [loc EXCEPT ![t] = l]
  BY <1>1, Typed DEF Push, LocType, IInv
<1>5. sess' = [sess EXCEPT ![k] = [sess[k] EXCEPT !.q = Append(q, h)]]
  BY <1>2 DEF Push, Update
<1>6. /\ pkt[h].by = t /\ \A p \in Pkts : pkt[p].by = t => p <= h
      /\ InOrderOf(q, pkt) /\ ~Holds(k, h)
  BY <1>1, <1>2, <1>3 DEF Order, Numbered, IInv, Queues, h, q
<1>7. \A i \in 1..Len(q) : q[i] \in Pkts /\ q[i] # h
  BY <1>2, <1>6, ElementOfSeq DEF Holds, q
<1>8. \A s \in Sessions : /\ sess'[s].q = IF s = k THEN Append(q, h) ELSE sess[s].q
                          /\ sess'[s].state = sess[s].state
  BY <1>2, <1>5, Typed DEF IInv, SessType
<1> HIDE DEF k, h, q, l
<1>9. \A u \in Threads : loc'[u] = IF u = t THEN l ELSE loc[u]
  BY <1>1, <1>4, OneMoves DEF IInv
<1>10. InOrderOf(Append(q, h), pkt)
  <2>1. /\ Len(q) \in Nat /\ DOMAIN q = 1..Len(q)
        /\ DOMAIN Append(q, h) = 1..(Len(q) + 1)
        /\ \A i \in 1..Len(q) : Append(q, h)[i] = q[i]
        /\ Append(q, h)[Len(q) + 1] = h
    BY <1>2, <1>3, AppendProperties, LenProperties
  <2>2. ASSUME NEW i \in 1..(Len(q) + 1), NEW j \in 1..(Len(q) + 1), i < j,
               pkt[Append(q, h)[i]].by = pkt[Append(q, h)[j]].by
        PROVE  Append(q, h)[i] < Append(q, h)[j]
    <3>1. i \in 1..Len(q) /\ (j \in 1..Len(q) \/ j = Len(q) + 1)
      BY <2>1, <2>2
    <3>2. CASE j \in 1..Len(q)
      BY <1>6, <2>1, <2>2, <3>1, <3>2 DEF InOrderOf
    <3>3. CASE j = Len(q) + 1
      <4>1. q[i] <= h /\ q[i] # h
        BY <1>6, <1>7, <2>1, <2>2, <3>1, <3>3
      <4>2. q[i] \in Nat /\ h \in Nat
        BY <1>3, <1>7, <3>1 DEF Pkts
      <4>3. q[i] < h
        BY <4>1, <4>2
      <4> QED BY <2>1, <3>1, <3>3, <4>3
    <3> QED BY <3>1, <3>2, <3>3
  <2> QED BY <2>1, <2>2 DEF InOrderOf
<1>11. \A s \in Sessions : sess'[s].state = "live" => InOrderOf(sess'[s].q, pkt')
  BY <1>1, <1>8, <1>10 DEF Order
<1>12. ASSUME NEW u \in Senders, loc'[u].pk # None
       PROVE  /\ \A p \in Pkts : pkt'[p].by = u => p <= loc'[u].pk
              /\ loc'[u].pc \in Numbered => pkt'[loc'[u].pk].by = u
  BY <1>1, <1>4, <1>9, <1>12, Roles DEF Order
<1> QED BY <1>1, <1>11, <1>12 DEF Order

\* A step of no thread.
LEMMA OrderStays ==
  ASSUME IInv, Order, UNCHANGED <<loc, taken, pkt>>, \A s \in Sessions : NoPush(s)
  PROVE  Order'
<1>1. "main" \in Threads /\ "main" \notin Senders
  BY Roles
<1>2. loc' = [loc EXCEPT !["main"] = loc["main"]]
  BY <1>1, Typed DEF IInv
<1> QED BY <1>1, <1>2, OrderKept

LEMMA StutterOrder ==
  ASSUME IInv, Order, UNCHANGED vars
  PROVE  Order'
BY OrderStays, NothingPushed DEF vars

LEMMA TrySendOrder ==
  ASSUME IInv, Order, NEW t \in Threads, Sound(t), TrySend(t)
  PROVE  Order'
<1>1. {"empty", "front", "put", "arm", "wait"} \cap Numbered = {}
  BY DEF Numbered
<1>2. CASE TestWaiting(t)
  <2>1. (Leave(t) \/ Goto(t, "empty")) /\ UNCHANGED <<sess, pkt, taken>>
    BY <1>2 DEF TestWaiting
  <2> QED BY <1>1, <2>1, OrderGoto, OrderLeave, NothingPushed
<1>3. CASE TestEmpty(t)
  <2>1. (Leave(t) \/ Goto(t, "front")) /\ UNCHANGED <<sess, pkt, taken>>
    BY <1>3 DEF TestEmpty
  <2> QED BY <1>1, <2>1, OrderGoto, OrderLeave, NothingPushed
<1>4. CASE TakeFront(t)
  <2> DEFINE l == [loc[t] EXCEPT !.front = Head(Mine(t).q), !.pc = "put"]
  <2>1. loc' = [loc EXCEPT ![t] = l] /\ l.pk = loc[t].pk /\ l.pc = "put"
    BY <1>4, Typed, LocalsAt DEF TakeFront, IInv, LocType
  <2>2. UNCHANGED <<sess, pkt, taken>>
    BY <1>4 DEF TakeFront
  <2> HIDE DEF l
  <2> QED BY <1>1, <2>1, <2>2, OrderKept, NothingPushed
<1>5. CASE PutLower(t)
  <2>1. Goto(t, "arm") /\ UNCHANGED <<sess, pkt, taken>>
    BY <1>5 DEF PutLower
  <2> QED BY <1>1, <2>1, OrderGoto, NothingPushed
<1>6. CASE Arm(t)
  <2>1. /\ Goto(t, "wait") /\ UNCHANGED <<pkt, taken>> /\ loc[t].pc \in UsesSession
        /\ Update(t, [Mine(t) EXCEPT !.armed = TRUE])
    BY <1>6 DEF Arm, At, UsesSession
  <2>2. [Mine(t) EXCEPT !.armed = TRUE].q = Mine(t).q
    BY <2>1, MineLive, FieldsKept
  <2> QED BY <1>1, <2>1, <2>2, OrderGoto, UpdatePushesNot
<1>7. CASE SetWaiting(t)
  <2>1. /\ Leave(t) /\ UNCHANGED <<pkt, taken>> /\ loc[t].pc \in UsesSession
        /\ Update(t, [Mine(t) EXCEPT !.waiting = TRUE])
    BY <1>7 DEF SetWaiting, At, UsesSession
  <2>2. [Mine(t) EXCEPT !.waiting = TRUE].q = Mine(t).q
    BY <2>1, MineLive, FieldsKept
  <2> QED BY <2>1, <2>2, OrderLeave, UpdatePushesNot
<1> QED BY <1>2, <1>3, <1>4, <1>5, <1>6, <1>7 DEF TrySend

LEMMA SenderOrder ==
  ASSUME IInv, Order, NEW t \in Senders, Sound(t), Sender(t)
  PROVE  Order'
<1>0. t \in Threads
  BY Roles
<1>1. CASE Create(t)
  <2>1. PICK s \in Sessions :
          /\ sess' = [sess EXCEPT ![s] = NewSession]
          /\ loc' = [loc EXCEPT ![t].se = s, ![t].old = table,
                       ![t].pc = IF table = None THEN "number" ELSE "replace"]
    BY <1>1 DEF Create
  <2> DEFINE l == [loc[t] EXCEPT !.se = s, !.old = table,
                     !.pc = IF table = None THEN "number" ELSE "replace"]
  <2>2. loc' = [loc EXCEPT ![t] = l] /\ l.pk = loc[t].pk /\ l.pc \notin Numbered
    BY <1>0, <2>1, Typed DEF IInv, LocType, Numbered
  <2>3. \A r \in Sessions : NoPush(r)
    BY <2>1, Typed DEF IInv, NoPush, NewSession
  <2>4. UNCHANGED <<pkt, taken>>
    BY <1>1 DEF Create
  <2> HIDE DEF l
  <2> QED BY <1>0, <2>2, <2>3, <2>4, OrderKept
<1>2. CASE Replace(t)
  <2>1. /\ Goto(t, "number") /\ UNCHANGED taken
        /\ \A p \in Pkts : pkt'[p].by = pkt[p].by
    BY <1>2, FreePktsBy DEF Replace, IInv
  <2>2. \A s \in Sessions : NoPush(s)
    BY <1>2, Typed DEF Replace, IInv, NoPush, SessType
  <2> QED BY <1>0, <2>1, <2>2, OrderGoto DEF Numbered
<1>3. CASE WriteSeq(t)
  <2>1. PICK n \in {loc[t].num, Mine(t).seq} :
          Update(t, [Mine(t) EXCEPT !.seq = (n + 1) % NumSeq])
    BY <1>3 DEF WriteSeq
  <2>2. Goto(t, "push") /\ UNCHANGED <<pkt, taken>> /\ loc[t].pc = "advance"
    BY <1>3 DEF WriteSeq, At
  <2>3. [Mine(t) EXCEPT !.seq = (n + 1) % NumSeq].q = Mine(t).q
    BY <1>0, <2>2, MineLive, FieldsKept DEF UsesSession
  <2> QED BY <1>0, <2>1, <2>2, <2>3, OrderGoto, UpdatePushesNot DEF UsesSession, Numbered
<1> QED BY <1>0, <1>1, <1>2, <1>3, UpperSendOrder, ReadSeqOrder, PushOrder DEF Sender

LEMMA AcksOrder ==
  ASSUME IInv, Order, Sound("udp"), Acks
  PROVE  Order'
<1>0. "udp" \in Threads /\ "udp" \notin Senders
  BY Roles
<1>1. CASE AckArrives
  <2>1. UNCHANGED <<sess, pkt, taken>>
    BY <1>1 DEF AckArrives, Lookup
  <2>2. \E l : loc' = [loc EXCEPT !["udp"] = l]
    BY <1>1 DEF AckArrives, Lookup
  <2> QED BY <1>0, <2>1, <2>2, OrderKept, NothingPushed
<1>2. CASE PopAcked("udp")
  <2> DEFINE se == [Mine("udp") EXCEPT !.q = Tail(@), !.waiting = FALSE]
  <2>1. loc["udp"].pc \in UsesSession /\ UNCHANGED <<pkt, taken>>
    BY <1>2 DEF PopAcked, At, UsesSession
  <2>2. CASE Return("udp") /\ UNCHANGED sess
    BY <1>0, <2>1, <2>2, OrderReturn, NothingPushed
  <2>3. CASE /\ Mine("udp").q # <<>>
             /\ Update("udp", Locked("udp", se))
             /\ loc' = [loc EXCEPT !["udp"].pk = Head(Mine("udp").q), !["udp"].pc = "clear"]
    <3>1. Locked("udp", se).q = Tail(Mine("udp").q)
      BY <1>0, <2>1, MineLive DEF Locked, SessType
    <3>2. \A s \in Sessions : NoPush(s)
      BY <1>0, <2>1, <2>3, <3>1, UpdatePushesNot
    <3>3. loc' = [loc EXCEPT !["udp"] =
                    [loc["udp"] EXCEPT !.pk = Head(Mine("udp").q), !.pc = "clear"]]
      BY <1>0, <2>3, Typed DEF IInv
    <3> QED BY <1>0, <2>1, <3>2, <3>3, OrderKept
  <2> QED BY <1>2, <2>2, <2>3 DEF PopAcked
<1>3. CASE AckPart("udp")
  <2> DEFINE a == Mine("udp").armed
                    \/ (Mine("udp").q # <<>> /\ HeadNum(Mine("udp")) = loc["udp"].num)
  <2>1. /\ loc["udp"].pc \in UsesSession /\ UNCHANGED <<pkt, taken>> /\ Return("udp")
        /\ Update("udp", [Mine("udp") EXCEPT !.armed = a])
    BY <1>3 DEF AckPart, At, UsesSession
  <2> HIDE DEF a
  <2>2. [Mine("udp") EXCEPT !.armed = a].q = Mine("udp").q
    BY <1>0, <2>1, MineLive, FieldsKept
  <2> QED BY <1>0, <2>1, <2>2, OrderReturn, UpdatePushesNot
<1> QED BY <1>1, <1>2, <1>3 DEF Acks

LEMMA TimerOrder ==
  ASSUME IInv, Order, Sound("main"), Timer
  PROVE  Order'
<1>0. "main" \in Threads /\ "main" \notin Senders
  BY Roles
<1>1. CASE TimerIdle
  BY <1>1, StutterOrder DEF TimerIdle
<1>2. CASE TimerStart
  <2>1. UNCHANGED <<sess, pkt, taken>>
    BY <1>2 DEF TimerStart
  <2>2. loc' = [loc EXCEPT !["main"] = [loc["main"] EXCEPT !.se = table, !.pc = "expired"]]
    BY <1>0, <1>2, Typed DEF TimerStart, IInv
  <2> QED BY <1>0, <2>1, <2>2, OrderKept, NothingPushed
<1>3. CASE TimerTest
  <2>1. UNCHANGED <<sess, pkt, taken>> /\ \E pc : Goto("main", pc)
    BY <1>3 DEF TimerTest
  <2> QED BY <1>0, <2>1, OrderGoto, NothingPushed
<1>4. CASE AckTimeout
  <2> DEFINE se == [Mine("main") EXCEPT !.idle = FALSE]
             first == Locked("main", se)
             again == Locked("main", [se EXCEPT !.waiting = FALSE])
             last == Locked("main", [se EXCEPT !.q = Tail(@), !.waiting = FALSE])
  <2>1. loc["main"].pc \in UsesSession /\ UNCHANGED <<pkt, taken>>
    BY <1>4 DEF AckTimeout, At, UsesSession
  <2>2. /\ se.q = Mine("main").q /\ first.q = Mine("main").q
        /\ again.q = Mine("main").q /\ last.q = Tail(Mine("main").q)
    BY <1>0, <2>1, MineLive DEF Locked, SessType
  <2>3. /\ se.q # <<>>
        /\ \/ Update("main", first) /\ Goto("main", "unlock")
           \/ Update("main", again) /\ Goto("main", "test")
           \/ /\ Update("main", last)
              /\ loc' = [loc EXCEPT !["main"].pk = Head(se.q), !["main"].pc = "clear"]
    BY <1>4 DEF AckTimeout
  <2> HIDE DEF first, again, last
  <2>4. \A s \in Sessions : NoPush(s)
    BY <1>0, <2>1, <2>2, <2>3, UpdatePushesNot
  <2>5. \E l : loc' = [loc EXCEPT !["main"] = l]
    <3>1. CASE \E pc : Goto("main", pc)
      BY <1>0, <3>1, GotoMoves DEF IInv
    <3>2. CASE loc' = [loc EXCEPT !["main"].pk = Head(se.q), !["main"].pc = "clear"]
      <4> HIDE DEF se
      <4>1. loc' = [loc EXCEPT !["main"] =
                      [loc["main"] EXCEPT !.pk = Head(se.q), !.pc = "clear"]]
        BY <1>0, <3>2, Typed DEF IInv
      <4> QED BY <4>1
    <3> QED BY <2>3, <3>1, <3>2
  <2> QED BY <1>0, <2>1, <2>4, <2>5, OrderKept
<1>5. CASE Reap
  <2>1. Return("main") /\ UNCHANGED taken
    BY <1>5 DEF Reap
  <2>2. CASE UNCHANGED <<sess, pkt>>
    BY <1>0, <2>1, <2>2, OrderReturn, NothingPushed
  <2>3. CASE /\ Update("main", [Mine("main") EXCEPT !.state = "freed"])
             /\ FreePkts(InQueue(Mine("main").q))
    <3>1. loc["main"].pc \in UsesSession
      BY <1>5 DEF Reap, At, UsesSession
    <3>2. [Mine("main") EXCEPT !.state = "freed"].q = Mine("main").q
      BY <1>0, <3>1, MineLive, FieldsKept
    <3>3. \A s \in Sessions : NoPush(s)
      BY <1>0, <2>3, <3>1, <3>2, UpdatePushesNot
    <3>4. \A p \in Pkts : pkt'[p].by = pkt[p].by
      BY <2>3, FreePktsBy DEF IInv
    <3> QED BY <1>0, <2>1, <3>3, <3>4, OrderReturn
  <2> QED BY <1>5, <2>2, <2>3 DEF Reap
<1> QED BY <1>1, <1>2, <1>3, <1>4, <1>5 DEF Timer

LEMMA StepOrder ==
  ASSUME IInv, Order, NEW t \in Threads, Sound(t), Step(t)
  PROVE  Order'
<1>1. CASE Refresh(t)
  <2>1. /\ Goto(t, loc[t].next) /\ UNCHANGED <<pkt, taken>> /\ loc[t].pc \in UsesSession
        /\ Update(t, [Mine(t) EXCEPT !.idle = FALSE])
    BY <1>1 DEF Refresh, At, UsesSession
  <2>2. [Mine(t) EXCEPT !.idle = FALSE].q = Mine(t).q
    BY <2>1, MineLive, FieldsKept
  <2>3. loc[t].next \notin Numbered
    BY LocalsAt DEF LocType, Numbered
  <2> QED BY <2>1, <2>2, <2>3, OrderGoto, UpdatePushesNot
<1>2. CASE ClearTimer(t)
  <2>1. /\ Goto(t, "test") /\ UNCHANGED <<pkt, taken>> /\ loc[t].pc \in UsesSession
        /\ Update(t, [Mine(t) EXCEPT !.armed = FALSE])
    BY <1>2 DEF ClearTimer, At, UsesSession
  <2>2. [Mine(t) EXCEPT !.armed = FALSE].q = Mine(t).q
    BY <2>1, MineLive, FieldsKept
  <2> QED BY <2>1, <2>2, OrderGoto, UpdatePushesNot DEF Numbered
<1>3. CASE Unlock(t)
  <2>1. /\ Goto(t, "free") \/ Goto(t, "reap")
        /\ UNCHANGED <<pkt, taken>> /\ loc[t].pc \in UsesSession
        /\ Update(t, [Mine(t) EXCEPT !.owner = "none"])
    BY <1>3 DEF Unlock, At, UsesSession
  <2>2. [Mine(t) EXCEPT !.owner = "none"].q = Mine(t).q
    BY <2>1, MineLive, FieldsKept
  <2> QED BY <2>1, <2>2, OrderGoto, UpdatePushesNot DEF Numbered
<1>4. CASE FreePkt(t)
  <2>1. /\ UNCHANGED <<sess, taken>>
        /\ Goto(t, "reap") \/ Return(t)
        /\ \A p \in Pkts : pkt'[p].by = pkt[p].by
    BY <1>4, FreePktsBy DEF FreePkt, IInv
  <2> QED BY <2>1, OrderGoto, OrderReturn, NothingPushed DEF Numbered
<1> QED BY <1>1, <1>2, <1>3, <1>4, TrySendOrder, SenderOrder, AcksOrder, TimerOrder DEF Step

\* The order is kept, and so is what the threads know of it.
LEMMA OrderHolds == Spec => []Order
<1>1. Init => Order
  <2> SUFFICES ASSUME Init PROVE Order
    OBVIOUS
  <2>1. \A t \in Threads : loc[t].pk = None
    BY DEF Init, Outside
  <2> QED BY <2>1, Roles DEF Init, Order, Unused, NewSession
<1>2. IInv /\ Order /\ [Next]_vars => Order'
  <2> SUFFICES ASSUME IInv, Order, [Next]_vars PROVE Order'
    OBVIOUS
  <2>1. CASE \E t \in Threads : Sound(t) /\ Step(t)
    BY <2>1, StepOrder
  <2>2. CASE \E s \in Sessions : IdleExpires(s)
    <3>1. UNCHANGED <<loc, pkt, taken>>
      BY <2>2 DEF IdleExpires
    <3>2. PICK r \in Sessions :
            sess' = [sess EXCEPT ![r] = [sess[r] EXCEPT !.idle = TRUE]]
      BY <2>2 DEF IdleExpires
    <3>3. \A s \in Sessions : sess'[s].q = sess[s].q /\ sess'[s].state = sess[s].state
      <4> DEFINE se == [sess[r] EXCEPT !.idle = TRUE]
      <4>1. se.q = sess[r].q /\ se.state = sess[r].state
        BY FieldsKept
      <4>2. sess' = [sess EXCEPT ![r] = se] /\ sess \in [Sessions -> SessType]
        BY <3>2, Typed DEF IInv
      <4> HIDE DEF se
      <4> QED BY <4>1, <4>2
    <3>4. \A s \in Sessions : NoPush(s)
      BY <3>3 DEF NoPush
    <3> QED BY <3>1, <3>4, OrderStays
  <2>3. CASE Crash
    BY <2>3, NothingPushed, OrderStays DEF Crash
  <2>4. CASE Stopped \/ UNCHANGED vars
    BY <2>4, StutterOrder DEF Stopped
  <2> QED BY <2>1, <2>2, <2>3, <2>4 DEF Next
<1> QED BY <1>1, <1>2, Inductive, PTL DEF Spec

\* A packet that waits in a queue is allocated, is in it once, behind those that
\* its thread was called with before, and no thread is about to free it,
\* although upper_send pushes to a session that proc_ack_all and proc_timer pop
\* from, or free.
THEOREM QueuesStaySound == Spec => []QueuesSound
<1>1. IInv /\ Order => QueuesSound
  <2> SUFFICES ASSUME IInv, Order, NEW s \in Sessions, sess[s].state = "live"
               PROVE  /\ InOrder(sess[s].q)
                      /\ \A i, j \in DOMAIN sess[s].q :
                           sess[s].q[i] = sess[s].q[j] => i = j
                      /\ \A p \in InQueue(sess[s].q) : pkt[p].state = "live"
                      /\ \A t \in Threads :
                           At(t, "free") => loc[t].pk \notin InQueue(sess[s].q)
    BY DEF QueuesSound
  <2>1. sess[s].q \in Seq(Pkts) /\ DOMAIN sess[s].q = 1..Len(sess[s].q)
    BY Typed, LenProperties DEF IInv, SessType
  <2>2. \A i, j \in DOMAIN sess[s].q : sess[s].q[i] = sess[s].q[j] => i = j
    BY <2>1 DEF IInv, Queues, NoDuplicates
  <2>3. \A p \in InQueue(sess[s].q) : p \in Pkts /\ Holds(s, p)
    BY <2>1, ElementOfSeq DEF InQueue, Holds
  <2>4. InOrder(sess[s].q)
    BY DEF Order, InOrder, InOrderOf
  <2> QED BY <2>2, <2>3, <2>4 DEF IInv, Queues
<1> QED BY <1>1, Inductive, OrderHolds, PTL

\* No packet leaks: what mem_malloc gave upper_send is in the queue of a session
\* that is not freed, or one thread has it, to queue it or to free it.
THEOREM NoPacketLeaks == Spec => []PacketsKept
<1>1. IInv => PacketsKept
  <2> SUFFICES ASSUME IInv, NEW p \in Pkts, pkt[p].state = "live"
               PROVE  \/ \E s \in Sessions : sess[s].state = "live"
                                             /\ p \in InQueue(sess[s].q)
                      \/ Cardinality({t \in Threads : loc[t].pk = p}) = 1
    BY DEF PacketsKept
  <2>1. CASE \E s \in Sessions : Holds(s, p)
    <3>1. PICK s \in Sessions : Holds(s, p)
      BY <2>1
    <3>2. DOMAIN sess[s].q = 1..Len(sess[s].q)
      BY Typed, LenProperties DEF IInv, SessType
    <3> QED BY <3>1, <3>2 DEF Holds, InQueue
  <2>2. CASE \E t \in Threads : loc[t].pk = p
    <3>1. PICK t \in Threads : loc[t].pk = p
      BY <2>2
    <3>2. \A u \in Threads : loc[u].pk = p => u = t
      BY <3>1, Numbers DEF IInv, Hands
    <3>3. {u \in Threads : loc[u].pk = p} = {t}
      BY <3>1, <3>2
    <3>4. Cardinality({t}) = 1
      BY FS_Singleton
    <3> QED BY <3>3, <3>4
  <2> QED BY <2>1, <2>2 DEF IInv, Somewhere
<1> QED BY <1>1, Inductive, PTL

\* No session leaks: one that is not in the table any more has a thread that
\* will free it (create_sse puts its own in the table over another's).
THEOREM NoSessionLeaks == Spec => []NoSessionLost
<1>1. IInv => NoSessionLost
  BY DEF IInv
<1> QED BY <1>1, Inductive, PTL
=============================================================================
