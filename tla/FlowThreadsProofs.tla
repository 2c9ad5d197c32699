-------------------------- MODULE FlowThreadsProofs ---------------------------
(***************************************************************************)
(* Proofs about FlowThreads for any number of ids, flows and keys: however *)
(* the threads are preempted inside get_id, release_id, xmit_compress,     *)
(* timer_event and recv_compress, the reverse index leads to flows that    *)
(* have the id, and the table of flows, the index and the id pool agree    *)
(* until get_id and release_id cross at the last id (crossed).  With two   *)
(* ids more than flows that live they never do.                            *)
(***************************************************************************)
EXTENDS FlowThreads, FiniteSetTheorems, TLAPS

FlowType ==
  [mem : {"unused", "live", "freed"}, key : Keys \cup {NoKey}, fid : Ids,
   state : {"new", "pending", "established"}, due : BOOLEAN, early : BOOLEAN]

\* Where each thread may be, and that it has a flow where it uses one.
TunType ==
  /\ tun \in [pc : {"out", "compare", "take", "flag", "insert", "index", "use", "touch"},
              key : Keys \cup {NoKey}, f : Flows \cup {None}, id : Ids, last : BOOLEAN]
  /\ tun.pc \in {"index", "use", "touch"} => tun.f \in Flows

Removed == timer.pc \in {"full", "tail", "store", "flag", "free"}

TimerType ==
  /\ timer \in [pc : {"out", "walk", "full", "tail", "store", "flag", "free"},
                f : Flows \cup {None}]
  /\ Removed => timer.f \in Flows

AckType ==
  ack \in [pc : {"out", "follow"}, id : Ids, f : Flows \cup {None}]

TypeInv ==
  /\ TypeOK /\ flow \in [Flows -> FlowType]
  /\ TunType /\ TimerType /\ AckType

\* timer_event has sflow_lock as long as it walks the table.
Owning == owner = "timer" <=> timer.pc # "out"

\* The flows of the table live, and the one that timer_event has removed does
\* until it frees it; none is removed before it is built.
FlowsLive ==
  /\ \A f \in table : flow[f].mem = "live"
  /\ Removed => timer.f \notin table /\ flow[timer.f].mem = "live"
  /\ \A f \in Flows : flow[f].mem = "unused" => ~flow[f].early

\* recv_tun enters its flow in the index under the flow's id.
Building ==
  tun.pc = "index" =>
    /\ tun.f \in Flows /\ flow[tun.f].fid = tun.id
    /\ tun.f \in table \/ flow[tun.f].early

-----------------------------------------------------------------------------
\* The places from head to tail.
Span == {p \in Ids : IF head <= tail THEN head <= p /\ p <= tail
                                     ELSE head <= p \/ p <= tail}

\* get_id has taken the last id and has yet to say so.
LastTaken == tun.pc = "flag" /\ RanOut

\* The places of the ring: none if it is empty, be it that the flag says so or that
\* get_id is about to set it.  While release_id is about to clear the flag, the
\* flag says nothing.
Places == IF (empty /\ ~Releasing) \/ LastTaken THEN {} ELSE Span

\* Those that hold a free id: not the one release_id has counted but not yet
\* written.
Stored == Places \ {p \in {tail} : timer.pc = "store"}

InRing == {pool[p] : p \in Stored}

\* The id that release_id is called with and has not stored.
InHand == IF timer.pc \in {"full", "tail", "store"} THEN {flow[timer.f].fid} ELSE {}

\* No id is at two places: in the ring, of a flow, between get_id and the flow
\* that is built with it, between the flow that is removed and the ring.
IdsOnce ==
  /\ \A p, q \in Stored : pool[p] = pool[q] => p = q
  /\ \A f, g \in table : flow[f].fid = flow[g].fid => f = g
  /\ tun.pc \in {"flag", "insert"} => \A f \in table : flow[f].fid # tun.id
  /\ \A i \in InRing : i \notin InUse /\ i \notin InHand
  /\ \A i \in InUse : i \notin InHand

IdsSomewhere == \A i \in Ids : i \in InRing \/ i \in InUse \/ i \in InHand

\* The flag and the ring as get_id and release_id find them: the flag is set when
\* the ring has run out; release_id does not meet a get_id that has yet to set
\* it; get_id does not come for the place release_id has not written; it took its
\* id while the flag was clear.
RingSound ==
  /\ empty /\ ~Releasing => RanOut
  /\ Releasing => ~LastTaken
  /\ Releasing /\ tun.pc \in {"compare", "take"} => empty \/ head # tail
  /\ tun.pc = "flag" => ~empty

\* The flow that recv_tun has yet to enter in the index is the one with its id.
Indexed ==
  /\ AllIndexed
  /\ tun.pc = "index" => \A g \in table : flow[g].fid = tun.id => g = tun.f

\* What holds whatever get_id and release_id do.
Safe == TypeInv /\ Owning /\ FlowsLive /\ IndexLeads /\ Building

\* What holds until they cross.
PoolSound == IdsOnce /\ IdsSomewhere /\ RingSound /\ Indexed

IInv == Safe /\ (~crossed => PoolSound)

-----------------------------------------------------------------------------
(* The ring. *)

\* The successor of a place of the ring, without the modulus.
LEMMA AfterIs ==
  ASSUME NumsAssumption, NEW i \in Ids
  PROVE  After(i) = (IF i = NumIds - 1 THEN 0 ELSE i + 1) /\ After(i) \in Ids
<1>1. NumIds \in Nat /\ NumIds > 0 /\ i \in Nat /\ i + 1 <= NumIds
  BY DEF Ids, NumsAssumption
<1>2. CASE i + 1 = NumIds
  BY <1>1, <1>2 DEF After, Ids
<1>3. CASE i + 1 < NumIds
  BY <1>1, <1>3 DEF After, Ids
<1> QED BY <1>1, <1>2, <1>3

\* Taking the head's id leaves the other places, and none of a single one.
LEMMA SpanTake ==
  ASSUME NumsAssumption, TypeOK, head' = After(head), tail' = tail
  PROVE  /\ head \in Span
         /\ head # tail => Span' = Span \ {head} /\ head' # After(tail)
         /\ head = tail => Span = {head} /\ head' = After(tail)
<1>0. NumIds \in Nat /\ head \in Ids /\ tail \in Ids
  BY DEF TypeOK, NumsAssumption
<1>1. head' = IF head = NumIds - 1 THEN 0 ELSE head + 1
  BY <1>0, AfterIs
<1>2. After(tail) = IF tail = NumIds - 1 THEN 0 ELSE tail + 1
  BY <1>0, AfterIs
<1>3. ASSUME head # tail, NEW p \in Ids
      PROVE  p \in Span' <=> p \in Span \ {head}
  BY <1>0, <1>1, <1>3 DEF Span, Ids
<1>4. head # tail => head' # After(tail)
  BY <1>0, <1>1, <1>2 DEF Ids
<1>5. head \in Span /\ (head = tail => Span = {head} /\ head' = After(tail))
  BY <1>0, <1>1, <1>2 DEF Span, Ids
<1> QED BY <1>3, <1>4, <1>5 DEF Span

\* A release adds the place behind the tail: a new one unless the ring had run out
\* or is full, and then the only one or one of all.
LEMMA SpanRelease ==
  ASSUME NumsAssumption, TypeOK, tail' = After(tail), head' = head
  PROVE  /\ tail' \in Ids
         /\ After(tail) # head => Span' = Span \cup {tail'} /\ tail' \notin Span
         /\ After(tail) = head => Span' = {tail'} /\ Span = Ids
<1>0. NumIds \in Nat /\ head \in Ids /\ tail \in Ids
  BY DEF TypeOK, NumsAssumption
<1>1. tail' = (IF tail = NumIds - 1 THEN 0 ELSE tail + 1) /\ tail' \in Ids
  BY <1>0, AfterIs
<1>2. ASSUME After(tail) # head, NEW p \in Ids
      PROVE  p \in Span' <=> p \in Span \cup {tail'}
  BY <1>0, <1>1, <1>2 DEF Span, Ids
<1>3. After(tail) # head => tail' \notin Span
  BY <1>0, <1>1 DEF Span, Ids
<1>4. ASSUME After(tail) = head, NEW p \in Ids
      PROVE  (p \in Span' <=> p = tail') /\ p \in Span
  <2>1. head = tail' /\ head' = tail'
    BY <1>4
  <2>2. p = tail' <=> tail' <= p /\ p <= tail'
    BY <1>1 DEF Ids
  <2>3. p \in Span' <=> p = tail'
    BY <1>1, <2>1, <2>2 DEF Span
  <2>4. p \in Span
    BY <1>0, <1>1, <2>1 DEF Span, Ids
  <2> QED BY <2>3, <2>4
<1> QED BY <1>1, <1>2, <1>3, <1>4 DEF Span

\* The tail is the place of an id, or of the one being stored.
LEMMA TailInSpan ==
  ASSUME NumsAssumption, TypeOK
  PROVE  tail \in Span /\ Span \subseteq Ids
<1>1. NumIds \in Nat /\ head \in Ids /\ tail \in Ids
  BY DEF TypeOK, NumsAssumption
<1> QED BY <1>1 DEF Span, Ids

\* The id that release_id has in hand.
LEMMA HandType ==
  ASSUME TypeInv, Removed
  PROVE  timer.f \in Flows /\ flow[timer.f].fid \in Ids
BY DEF TypeInv, TimerType, FlowType

\* The ring is not full as long as release_id has an id to store: a full one
\* holds them all.
LEMMA NotFull ==
  ASSUME NumsAssumption, TypeInv, IdsOnce, timer.pc \in {"full", "tail"}
  PROVE  Stored # Ids
<1> SUFFICES ASSUME Stored = Ids PROVE FALSE
  OBVIOUS
<1>2. pool \in Injection(Ids, Ids)
  BY DEF IdsOnce, TypeInv, TypeOK, Injection, IsInjective
<1>3. pool \in Surjection(Ids, Ids)
  <2>1. IsFiniteSet(Ids)
    BY FS_Interval DEF Ids, NumsAssumption
  <2> QED BY <1>2, <2>1, FS_Injection
<1>4. timer.f \in Flows /\ flow[timer.f].fid \in Ids
  BY HandType DEF Removed
<1>5. flow[timer.f].fid \in InRing
  BY <1>3, <1>4 DEF Surjection, InRing
<1>6. flow[timer.f].fid \in InHand
  BY DEF InHand
<1> QED BY <1>5, <1>6 DEF IdsOnce

\* Nor does it lack a single place, when get_id has an id in its hands as well.
LEMMA NotNearlyFull ==
  ASSUME NumsAssumption, TypeInv, IdsOnce, timer.pc = "tail", tun.pc = "flag",
         NEW t \in Ids
  PROVE  Stored # Ids \ {t}
<1> SUFFICES ASSUME Stored = Ids \ {t} PROVE FALSE
  OBVIOUS
<1> DEFINE h == flow[timer.f].fid
           g == [p \in Ids |-> IF p = t THEN h ELSE pool[p]]
<1>1. h \in Ids /\ InHand = {h} /\ tun.id \in Ids /\ tun.id \in InUse
  BY HandType DEF InHand, InUse, Removed, TypeInv, TunType
<1> HIDE DEF h
<1>2. h # tun.id /\ \A p \in Stored : pool[p] # h /\ pool[p] # tun.id
  BY <1>1 DEF IdsOnce, InRing
<1>3. g \in Injection(Ids, Ids)
  <2>1. g \in [Ids -> Ids]
    BY <1>1 DEF TypeInv, TypeOK
  <2>2. \A p, q \in Ids : g[p] = g[q] => p = q
    BY <1>2 DEF IdsOnce
  <2> QED BY <2>1, <2>2 DEF Injection, IsInjective
<1>4. g \in Surjection(Ids, Ids)
  <2>1. IsFiniteSet(Ids)
    BY FS_Interval DEF Ids, NumsAssumption
  <2> QED BY <1>3, <2>1, FS_Injection
<1>5. \A p \in Ids : g[p] # tun.id
  BY <1>2
<1> QED BY <1>1, <1>4, <1>5 DEF Surjection

-----------------------------------------------------------------------------
(* Steps that move no id and no flow. *)

LEMMA IdsUnmoved ==
  ASSUME TypeInv, IdsOnce, IdsSomewhere, UNCHANGED <<pool, table>>,
         \A f \in Flows : flow'[f].fid = flow[f].fid,
         tun'.pc \in {"flag", "insert"} <=> tun.pc \in {"flag", "insert"},
         tun.pc \in {"flag", "insert"} => tun'.id = tun.id,
         Stored' = Stored, InHand' = InHand
  PROVE  IdsOnce' /\ IdsSomewhere'
<1>1. InRing' = InRing
  BY DEF InRing
<1>2. table \subseteq Flows
  BY DEF TypeInv, TypeOK
<1>3. InUse' = InUse
  BY <1>2 DEF InUse
<1>4. IdsOnce'
  BY <1>1, <1>2, <1>3 DEF IdsOnce
<1> QED BY <1>1, <1>3, <1>4 DEF IdsSomewhere

LEMMA IndexUnmoved ==
  ASSUME TypeInv, Indexed, UNCHANGED <<table, rindex>>,
         \A f \in Flows : flow'[f].fid = flow[f].fid,
         tun'.pc = "index" <=> tun.pc = "index",
         tun.pc = "index" => tun'.f = tun.f /\ tun'.id = tun.id
  PROVE  Indexed'
<1>1. table \subseteq Flows
  BY DEF TypeInv, TypeOK
<1> QED BY <1>1 DEF Indexed, AllIndexed

\* Nothing happens to the pool, and no flow comes or goes.
LEMMA PoolUnmoved ==
  ASSUME IInv, UNCHANGED <<ring, table, rindex>>, crossed => crossed',
         \A f \in Flows : flow'[f].fid = flow[f].fid,
         tun'.pc = "flag" <=> tun.pc = "flag", tun'.pc = "insert" <=> tun.pc = "insert",
         tun'.pc = "index" <=> tun.pc = "index",
         tun.pc \in {"flag", "insert", "index"} => tun'.f = tun.f /\ tun'.id = tun.id,
         tun'.pc \in {"compare", "take"} => tun.pc \in {"compare", "take"} \/ ~Releasing,
         timer'.pc = "store" <=> timer.pc = "store",
         timer'.pc = "flag" <=> timer.pc = "flag", InHand' = InHand
  PROVE  (~crossed => PoolSound)'
<1> SUFFICES ASSUME ~crossed' PROVE PoolSound'
  OBVIOUS
<1>1. TypeInv /\ IdsOnce /\ IdsSomewhere /\ RingSound /\ Indexed
  BY DEF IInv, Safe, PoolSound
<1>2. /\ Releasing' = Releasing /\ LastTaken' = LastTaken /\ Span' = Span
      /\ RanOut' = RanOut
  BY DEF Releasing, LastTaken, RanOut, After, Span, ring
<1>3. Stored' = Stored
  BY <1>2 DEF Stored, Places, ring
<1>4. RingSound'
  BY <1>1, <1>2 DEF RingSound, ring
<1>5. IdsOnce' /\ IdsSomewhere'
  BY <1>1, <1>3, IdsUnmoved DEF ring
<1>6. Indexed'
  BY <1>1, IndexUnmoved
<1> QED BY <1>4, <1>5, <1>6 DEF PoolSound

LEMMA FlowsUnmoved ==
  ASSUME Safe, UNCHANGED <<table, rindex>>,
         \A f \in Flows : /\ flow'[f].fid = flow[f].fid /\ flow'[f].mem = flow[f].mem
                          /\ flow'[f].early = flow[f].early,
         tun'.pc = "index" => tun.pc = "index" /\ tun'.f = tun.f /\ tun'.id = tun.id,
         Removed' => Removed /\ timer'.f = timer.f
  PROVE  FlowsLive' /\ Building' /\ IndexLeads'
<1>1. table \subseteq Flows /\ rindex \in [Ids -> Flows \cup {None}] /\ (Removed => timer.f \in Flows)
  BY DEF Safe, TypeInv, TypeOK, TimerType
<1>2. FlowsLive'
  BY <1>1 DEF Safe, FlowsLive
<1>3. Building'
  BY <1>1 DEF Safe, Building
<1>4. IndexLeads'
  BY <1>1 DEF Safe, IndexLeads
<1> QED BY <1>2, <1>3, <1>4

-----------------------------------------------------------------------------
(* recv_tun. *)

LEMMA LookupInv ==
  ASSUME NumsAssumption, IInv, NEW key \in Keys, Lookup(key)
  PROVE  IInv'
<1>1. /\ tun.pc = "out" /\ owner = "none"
      /\ UNCHANGED <<ring, flows, owner, timer, ack, asked, crossed, fault>>
      /\ \/ \E f \in table : tun' = [TunOut EXCEPT !.pc = "use", !.f = f]
         \/ tun' = [TunOut EXCEPT !.pc = "compare", !.key = key]
  BY DEF Lookup
<1>2. 0 \in Ids
  BY DEF NumsAssumption, Ids
<1>3. TunOut \in [pc : {"out", "compare", "take", "flag", "insert", "index", "use", "touch"},
                  key : Keys \cup {NoKey}, f : Flows \cup {None}, id : Ids, last : BOOLEAN]
  BY <1>2 DEF TunOut
<1>4. TunType' /\ tun'.pc \in {"use", "compare"}
  <2>1. CASE \E f \in table : tun' = [TunOut EXCEPT !.pc = "use", !.f = f]
    BY <1>3, <2>1 DEF TunType, IInv, Safe, TypeInv, TypeOK
  <2>2. CASE tun' = [TunOut EXCEPT !.pc = "compare", !.key = key]
    BY <1>3, <2>2 DEF TunType
  <2> QED BY <1>1, <2>1, <2>2
<1>5. TypeInv' /\ Owning'
  BY <1>1, <1>4 DEF IInv, Safe, TypeInv, TypeOK, TimerType, Removed, AckType, Owning, ring, flows
<1>6. FlowsLive' /\ Building' /\ IndexLeads'
  BY <1>1, <1>4, FlowsUnmoved DEF flows, Removed, IInv
<1>7. ~Releasing
  BY <1>1 DEF IInv, Safe, Owning, Releasing
<1>8. (~crossed => PoolSound)'
  BY <1>1, <1>4, <1>7, PoolUnmoved DEF flows, InHand
<1> QED BY <1>5, <1>6, <1>8 DEF IInv, Safe

LEMMA GetCompareInv ==
  ASSUME NumsAssumption, IInv, GetCompare
  PROVE  IInv'
<1>1. /\ tun.pc = "compare" /\ UNCHANGED <<ring, flows, owner, timer, ack, asked, crossed, fault>>
      /\ tun' = [tun EXCEPT !.pc = "take", !.last = (head = tail)]
  BY DEF GetCompare
<1>2. TunType' /\ tun'.pc = "take"
  BY <1>1 DEF TunType, IInv, Safe, TypeInv
<1>3. TypeInv' /\ Owning'
  BY <1>1, <1>2 DEF IInv, Safe, TypeInv, TypeOK, TimerType, Removed, AckType, Owning, ring, flows
<1>4. FlowsLive' /\ Building' /\ IndexLeads'
  BY <1>1, <1>2, FlowsUnmoved DEF flows, Removed, IInv
<1>5. (~crossed => PoolSound)'
  BY <1>1, <1>2, PoolUnmoved DEF flows, InHand
<1> QED BY <1>3, <1>4, <1>5 DEF IInv, Safe

\* The id taken is one that was stored, and at no other place.
LEMMA GetTakeInv ==
  ASSUME NumsAssumption, IInv, GetTake
  PROVE  IInv'
<1>1. /\ tun.pc = "take"
      /\ UNCHANGED <<pool, tail, empty, flows, owner, timer, ack, asked, crossed, fault>>
  BY DEF GetTake
<1>2. /\ TypeInv /\ TypeOK /\ pool \in [Ids -> Ids] /\ head \in Ids /\ table \subseteq Flows
  BY DEF IInv, Safe, TypeInv, TypeOK
<1>3. CASE empty /\ tun' = TunOut /\ UNCHANGED head
  <2>1. TunType' /\ tun'.pc = "out"
    BY <1>3 DEF TunType, TunOut, NumsAssumption, Ids
  <2>2. TypeInv' /\ Owning'
    BY <1>1, <1>3, <2>1
       DEF IInv, Safe, TypeInv, TypeOK, TimerType, Removed, AckType, Owning, flows
  <2>3. FlowsLive' /\ Building' /\ IndexLeads'
    BY <1>1, <2>1, FlowsUnmoved DEF flows, Removed, IInv
  <2>4. (~crossed => PoolSound)'
    BY <1>1, <1>3, <2>1, PoolUnmoved DEF flows, InHand, ring
  <2> QED BY <2>2, <2>3, <2>4 DEF IInv, Safe
<1>4. CASE /\ ~empty /\ head' = After(head)
           /\ tun' = [tun EXCEPT !.pc = "flag", !.id = pool[head]]
  <2>1. TunType' /\ tun'.pc = "flag" /\ tun'.id = pool[head]
    BY <1>2, <1>4 DEF TunType, TypeInv
  <2>2. TypeInv' /\ Owning'
    <3>1. head' \in Ids
      BY <1>2, <1>4, AfterIs
    <3> QED BY <1>1, <2>1, <3>1
            DEF IInv, Safe, TypeInv, TypeOK, TimerType, Removed, AckType, Owning, flows
  <2>3. FlowsLive' /\ Building' /\ IndexLeads'
    BY <1>1, <2>1, FlowsUnmoved DEF flows, Removed, IInv
  <2>4. ASSUME ~crossed'
        PROVE  PoolSound'
    <3>1. IdsOnce /\ IdsSomewhere /\ RingSound /\ Indexed
      BY <1>1, <2>4 DEF IInv, PoolSound
    <3>2. /\ head \in Span
          /\ head # tail => Span' = Span \ {head} /\ head' # After(tail)
          /\ head = tail => Span = {head} /\ head' = After(tail)
      BY <1>1, <1>2, <1>4, SpanTake
    <3>3. (Releasing => head # tail) /\ Releasing' = Releasing
      BY <1>1, <1>4, <3>1 DEF RingSound, Releasing
    <3>4. (LastTaken' <=> head = tail) /\ ~LastTaken
      BY <1>1, <2>1, <3>2 DEF LastTaken, RanOut, After
    <3>5. Places = Span /\ Places' = Span \ {head}
      <4>1. Places = Span
        BY <1>4, <3>4 DEF Places
      <4>2. CASE head = tail
        BY <3>2, <3>4, <4>1, <4>2 DEF Places
      <4>3. CASE head # tail
        <5>1. ~empty' /\ ~LastTaken' /\ Span' = Span \ {head}
          BY <1>1, <1>4, <3>2, <3>4, <4>3
        <5> QED BY <4>1, <5>1 DEF Places
      <4> QED BY <4>1, <4>2, <4>3
    <3>6. Stored' = Stored \ {head} /\ head \in Stored
      <4>1. timer.pc = "store" => head # tail
        BY <3>3 DEF Releasing
      <4> QED BY <1>1, <3>2, <3>5, <4>1 DEF Stored
    <3>7. pool[head] \in InRing /\ pool[head] \notin InUse /\ pool[head] \notin InHand
      BY <3>1, <3>6 DEF InRing, IdsOnce
    <3>8. InRing' = InRing \ {pool[head]}
      BY <1>1, <3>1, <3>6 DEF InRing, IdsOnce
    <3>9. InUse' = InUse \cup {pool[head]} /\ InHand' = InHand
      BY <1>1, <2>1 DEF InUse, InHand, flows
    <3>10. IdsSomewhere'
      BY <3>1, <3>8, <3>9 DEF IdsSomewhere
    <3>11. IdsOnce'
      <4>1. \A p, q \in Stored' : pool[p] = pool[q] => p = q
        BY <3>1, <3>6 DEF IdsOnce
      <4>2. \A f \in table : flow[f].fid # pool[head]
        BY <3>7 DEF InUse
      <4>3. \A i \in InRing' : i \notin InUse' /\ i \notin InHand'
        BY <3>1, <3>8, <3>9 DEF IdsOnce
      <4>4. \A i \in InUse' : i \notin InHand'
        BY <3>1, <3>7, <3>9 DEF IdsOnce
      <4> QED BY <1>1, <2>1, <3>1, <4>1, <4>2, <4>3, <4>4 DEF IdsOnce, flows
    <3>12. RingSound'
      BY <1>1, <1>4, <2>1, <3>3, <3>4 DEF RingSound
    <3>13. Indexed'
      BY <1>1, <1>2, <2>1, <3>1, IndexUnmoved DEF flows
    <3> QED BY <3>10, <3>11, <3>12, <3>13 DEF PoolSound
  <2> QED BY <2>2, <2>3, <2>4 DEF IInv, Safe
<1> QED BY <1>3, <1>4 DEF GetTake

\* The flag that get_id stores is right unless they have crossed, or release_id
\* clears it next.
LEMMA GetFlagInv ==
  ASSUME NumsAssumption, IInv, GetFlag
  PROVE  IInv'
<1>1. /\ tun.pc = "flag" /\ empty' = tun.last /\ tun' = [tun EXCEPT !.pc = "insert"]
      /\ crossed' = (crossed \/ (tun.last # RanOut /\ ~Releasing))
      /\ UNCHANGED <<pool, head, tail, flows, owner, timer, ack, asked, fault>>
  BY DEF GetFlag
<1>2. TunType' /\ tun'.pc = "insert" /\ tun'.id = tun.id /\ empty' \in BOOLEAN
  BY <1>1 DEF TunType, IInv, Safe, TypeInv
<1>3. TypeInv' /\ Owning'
  <2>1. crossed' \in BOOLEAN
    BY <1>1 DEF IInv, Safe, TypeInv, TypeOK
  <2> QED BY <1>1, <1>2, <2>1
          DEF IInv, Safe, TypeInv, TypeOK, TimerType, Removed, AckType, Owning, flows
<1>4. FlowsLive' /\ Building' /\ IndexLeads'
  BY <1>1, <1>2, FlowsUnmoved DEF flows, Removed, IInv
<1>5. ASSUME ~crossed'
      PROVE  PoolSound'
  <2>1. /\ TypeInv /\ IdsOnce /\ IdsSomewhere /\ RingSound /\ Indexed
        /\ Releasing \/ (empty' <=> RanOut)
    BY <1>1, <1>5 DEF IInv, Safe, PoolSound, TypeInv, TypeOK, TunType, RanOut
  <2>2. /\ Releasing' = Releasing /\ RanOut' = RanOut /\ ~LastTaken' /\ Span' = Span
    BY <1>1, <1>2 DEF Releasing, RanOut, LastTaken, After, Span
  <2>3. Places' = Places
    BY <1>1, <2>1, <2>2 DEF Places, LastTaken, RingSound
  <2>4. Stored' = Stored /\ InHand' = InHand
    BY <1>1, <2>3 DEF Stored, InHand, flows
  <2>5. IdsOnce' /\ IdsSomewhere'
    BY <1>1, <1>2, <2>1, <2>4, IdsUnmoved DEF flows
  <2>6. RingSound'
    BY <1>2, <2>1, <2>2 DEF RingSound
  <2>7. Indexed'
    BY <1>1, <1>2, <2>1, IndexUnmoved DEF flows
  <2> QED BY <2>5, <2>6, <2>7 DEF PoolSound
<1> QED BY <1>3, <1>4, <1>5 DEF IInv, Safe

\* The new flow takes over the id that get_id gave.  sflow_lock is free, so that
\* timer_event has none in its hands.
LEMMA BuildInv ==
  ASSUME NumsAssumption, IInv, Build
  PROVE  IInv'
<1> DEFINE new == [Unused EXCEPT !.mem = "live", !.key = tun.key, !.fid = tun.id]
<1>1. PICK f \in Flows :
        /\ flow[f].mem = "unused" /\ flow' = [flow EXCEPT ![f] = new]
        /\ table' = table \cup {f} /\ tun' = [tun EXCEPT !.pc = "index", !.f = f]
  BY DEF Build
<1>2. /\ tun.pc = "insert" /\ timer.pc = "out"
      /\ UNCHANGED <<ring, rindex, owner, timer, ack, asked, crossed, fault>>
  BY DEF Build, IInv, Safe, Owning
<1>3. table \subseteq Flows /\ f \notin table /\ tun.id \in Ids
  BY <1>1 DEF IInv, Safe, TypeInv, TypeOK, FlowsLive, TunType
<1>4. new \in FlowType /\ new.mem = "live" /\ new.fid = tun.id
  <2>1. Unused \in FlowType
    BY DEF Unused, FlowType, NumsAssumption, Ids
  <2>2. tun.key \in Keys \cup {NoKey}
    BY DEF IInv, Safe, TypeInv, TunType
  <2>3. ASSUME NEW r \in FlowType
        PROVE  LET n == [r EXCEPT !.mem = "live", !.key = tun.key, !.fid = tun.id]
               IN n \in FlowType /\ n.mem = "live" /\ n.fid = tun.id
    BY <1>3, <2>2, <2>3 DEF FlowType
  <2> QED BY <2>1, <2>3
<1>5. /\ flow' \in [Flows -> FlowType]
      /\ flow'[f] = new /\ \A g \in Flows : g # f => flow'[g] = flow[g]
  <2>1. flow \in [Flows -> FlowType]
    BY DEF IInv, Safe, TypeInv
  <2> HIDE DEF new
  <2> QED BY <1>1, <1>3, <1>4, <2>1
<1> HIDE DEF new
<1>6. TunType' /\ tun'.pc = "index" /\ tun'.f = f /\ tun'.id = tun.id
  BY <1>1, <1>2 DEF TunType, IInv, Safe, TypeInv
<1>7. TypeInv' /\ Owning'
  BY <1>1, <1>2, <1>3, <1>5, <1>6
     DEF IInv, Safe, TypeInv, TypeOK, TimerType, Removed, AckType, Owning, ring
<1>8. FlowsLive'
  BY <1>1, <1>2, <1>3, <1>4, <1>5 DEF IInv, Safe, FlowsLive, Removed
<1>9. Building'
  BY <1>1, <1>4, <1>5, <1>6 DEF Building
<1>10. IndexLeads'
  <2>1. ASSUME NEW i \in Ids, rindex[i] # None
        PROVE  /\ flow'[rindex[i]].fid = i
               /\ rindex[i] \in table' \/ flow'[rindex[i]].early
    <3>1. /\ rindex[i] \in Flows /\ flow[rindex[i]].fid = i
          /\ rindex[i] \in table \/ flow[rindex[i]].early
      BY <2>1 DEF IInv, Safe, TypeInv, TypeOK, IndexLeads
    <3>2. CASE rindex[i] = f
      <4>1. flow[f].early
        BY <1>3, <3>1, <3>2
      <4> QED BY <1>1, <4>1 DEF IInv, Safe, FlowsLive
    <3>3. CASE rindex[i] # f
      BY <1>1, <1>5, <3>1, <3>3
    <3> QED BY <3>2, <3>3
  <2>2. \A g \in table' : flow'[g].mem = "live"
    BY <1>8 DEF FlowsLive
  <2> QED BY <1>2, <2>1, <2>2 DEF IndexLeads
<1>11. ASSUME ~crossed'
       PROVE  PoolSound'
  <2>1. IdsOnce /\ IdsSomewhere /\ RingSound /\ Indexed
    BY <1>2, <1>11 DEF IInv, PoolSound
  <2>2. /\ ~LastTaken /\ ~LastTaken' /\ Releasing' = Releasing /\ RanOut' = RanOut
        /\ Span' = Span
    BY <1>2, <1>6 DEF ring, LastTaken, Releasing, RanOut, After, Span
  <2>3. Stored' = Stored /\ InRing' = InRing /\ InHand' = {} /\ InHand = {}
    BY <1>2, <2>2 DEF ring, Stored, Places, InRing, InHand
  <2>4. InUse' = InUse
    <3>1. {flow'[g].fid : g \in table'} = {flow[g].fid : g \in table} \cup {tun.id}
      BY <1>1, <1>3, <1>4, <1>5
    <3> QED BY <1>2, <1>6, <3>1 DEF InUse
  <2>5. IdsSomewhere'
    BY <2>1, <2>3, <2>4 DEF IdsSomewhere
  <2>6. \A g \in table : flow[g].fid # tun.id /\ flow'[g] = flow[g]
    BY <1>2, <1>3, <1>5, <2>1 DEF IdsOnce
  <2>7. IdsOnce'
    <3>1. \A g, h \in table' : flow'[g].fid = flow'[h].fid => g = h
      BY <1>1, <1>4, <1>5, <2>1, <2>6 DEF IdsOnce
    <3> QED BY <1>2, <1>6, <2>1, <2>3, <2>4, <3>1 DEF IdsOnce, ring
  <2>8. RingSound'
    BY <1>2, <1>6, <2>1, <2>2 DEF RingSound, ring
  <2>9. Indexed'
    <3>1. \A g \in table : rindex[flow'[g].fid] = g
      BY <1>2, <2>1, <2>6 DEF Indexed, AllIndexed
    <3> QED BY <1>1, <1>2, <1>4, <1>5, <1>6, <2>6, <3>1 DEF Indexed, AllIndexed
  <2> QED BY <2>5, <2>7, <2>8, <2>9 DEF PoolSound
<1> QED BY <1>7, <1>8, <1>9, <1>10, <1>11 DEF IInv, Safe

\* recv_tun enters its flow in the index, be it too late.
LEMMA IndexInv ==
  ASSUME NumsAssumption, IInv, Index
  PROVE  IInv'
<1>1. /\ tun.pc = "index" /\ tun' = [tun EXCEPT !.pc = "use"]
      /\ rindex' = [rindex EXCEPT ![tun.id] = tun.f]
      /\ UNCHANGED <<ring, flow, table, owner, timer, ack, asked, crossed, fault>>
  BY DEF Index
<1>2. /\ tun.f \in Flows /\ flow[tun.f].fid = tun.id /\ tun.id \in Ids
      /\ tun.f \in table \/ flow[tun.f].early
  BY <1>1 DEF IInv, Safe, Building, TypeInv, TunType
<1>3. TunType' /\ tun'.pc = "use"
  BY <1>1 DEF TunType, IInv, Safe, TypeInv
<1>4. TypeInv' /\ Owning'
  <2>1. rindex' \in [Ids -> Flows \cup {None}]
    BY <1>1, <1>2 DEF IInv, Safe, TypeInv, TypeOK
  <2> QED BY <1>1, <1>3, <2>1
          DEF IInv, Safe, TypeInv, TypeOK, TimerType, Removed, AckType, Owning, ring
<1>5. FlowsLive' /\ Building'
  BY <1>1, <1>3 DEF IInv, Safe, FlowsLive, Removed, Building
<1>6. \A i \in Ids : rindex'[i] = IF i = tun.id THEN tun.f ELSE rindex[i]
  BY <1>1, <1>2 DEF IInv, Safe, TypeInv, TypeOK
<1>7. IndexLeads'
  BY <1>1, <1>2, <1>6 DEF IInv, Safe, IndexLeads
<1>8. ASSUME ~crossed'
      PROVE  PoolSound'
  <2>1. TypeInv /\ IdsOnce /\ IdsSomewhere /\ RingSound /\ Indexed
    BY <1>1, <1>8 DEF IInv, Safe, PoolSound
  <2>2. /\ ~LastTaken /\ ~LastTaken' /\ Releasing' = Releasing /\ RanOut' = RanOut
        /\ Span' = Span
    BY <1>1, <1>3 DEF ring, LastTaken, Releasing, RanOut, After, Span
  <2>3. Stored' = Stored /\ InHand' = InHand
    BY <1>1, <2>2 DEF ring, Stored, Places, InHand
  <2>4. IdsOnce' /\ IdsSomewhere'
    BY <1>1, <1>3, <2>1, <2>3, IdsUnmoved DEF ring
  <2>5. RingSound'
    BY <1>1, <1>3, <2>1, <2>2 DEF RingSound, ring
  <2>6. Indexed'
    <3>1. \A f \in table : flow[f].fid \in Ids
      BY <2>1 DEF TypeInv, TypeOK, FlowType
    <3>2. ASSUME NEW f \in table
          PROVE  rindex'[flow[f].fid] = f
      <4>1. CASE flow[f].fid = tun.id
        <5>1. f = tun.f
          BY <1>1, <2>1, <4>1 DEF Indexed
        <5> QED BY <1>2, <1>6, <4>1, <5>1
      <4>2. CASE flow[f].fid # tun.id
        <5>1. f # tun.f /\ rindex[flow[f].fid] = f
          BY <1>2, <2>1, <4>2 DEF Indexed, AllIndexed
        <5> QED BY <1>6, <3>1, <4>2, <5>1
      <4> QED BY <4>1, <4>2
    <3> QED BY <1>1, <1>3, <3>2 DEF Indexed, AllIndexed
  <2> QED BY <2>4, <2>5, <2>6 DEF PoolSound
<1> QED BY <1>4, <1>5, <1>7, <1>8 DEF IInv, Safe

\* A step that writes the state or the deadline of a flow.
LEMMA WriteKeeps ==
  ASSUME TypeInv, NEW f \in Flows, NEW r \in FlowType,
         r.fid = flow[f].fid, r.mem = flow[f].mem, r.early = flow[f].early,
         flow' = [flow EXCEPT ![f] = r]
  PROVE  /\ flow' \in [Flows -> FlowType]
         /\ \A g \in Flows : /\ flow'[g].fid = flow[g].fid /\ flow'[g].mem = flow[g].mem
                             /\ flow'[g].early = flow[g].early
BY DEF TypeInv

\* Whatever recv_tun finds of its flow, it moves none.
LEMMA UseInv ==
  ASSUME NumsAssumption, IInv, Use \/ TouchSflow
  PROVE  IInv'
<1>1. /\ tun.pc \in {"use", "touch"} /\ tun.f \in Flows
      /\ UNCHANGED <<ring, table, rindex, owner, timer, ack, crossed>>
      /\ tun' = [tun EXCEPT !.pc = "touch"] \/ tun' = TunOut
  BY DEF Use, TouchSflow, IInv, Safe, TypeInv, TunType
<1>2. TypeInv /\ flow[tun.f] \in FlowType /\ flow \in [Flows -> FlowType]
  BY <1>1 DEF IInv, Safe, TypeInv
<1>3. /\ flow' \in [Flows -> FlowType] /\ asked' \subseteq Ids
      /\ \A g \in Flows : /\ flow'[g].fid = flow[g].fid /\ flow'[g].mem = flow[g].mem
                          /\ flow'[g].early = flow[g].early
      /\ fault' \in {"none", "freed flow", "null flow"}
  <2>1. asked \subseteq Ids /\ fault \in {"none", "freed flow", "null flow"}
    BY DEF IInv, Safe, TypeInv, TypeOK
  <2>2. CASE UNCHANGED <<flow, asked>> /\ (fault' = "freed flow" \/ UNCHANGED fault)
    BY <1>2, <2>1, <2>2
  <2>3. CASE /\ flow' = [flow EXCEPT ![tun.f].state = "pending"] /\ UNCHANGED fault
             /\ asked' = asked \cup {flow[tun.f].fid}
    <3> DEFINE r == [flow[tun.f] EXCEPT !.state = "pending"]
    <3>1. /\ r \in FlowType /\ r.fid = flow[tun.f].fid /\ r.mem = flow[tun.f].mem
          /\ r.early = flow[tun.f].early
      BY <1>2 DEF FlowType
    <3>2. flow' = [flow EXCEPT ![tun.f] = r] /\ flow[tun.f].fid \in Ids
      BY <1>2, <2>3 DEF FlowType
    <3> HIDE DEF r
    <3> QED BY <1>1, <1>2, <2>1, <2>3, <3>1, <3>2, WriteKeeps
  <2>4. CASE flow' = [flow EXCEPT ![tun.f].due = FALSE] /\ UNCHANGED <<asked, fault>>
    <3> DEFINE r == [flow[tun.f] EXCEPT !.due = FALSE]
    <3>1. /\ r \in FlowType /\ r.fid = flow[tun.f].fid /\ r.mem = flow[tun.f].mem
          /\ r.early = flow[tun.f].early
      BY <1>2 DEF FlowType
    <3>2. flow' = [flow EXCEPT ![tun.f] = r]
      BY <1>2, <2>4 DEF FlowType
    <3> HIDE DEF r
    <3> QED BY <1>1, <1>2, <2>1, <2>4, <3>1, <3>2, WriteKeeps
  <2> QED BY <2>2, <2>3, <2>4 DEF Use, TouchSflow, Touching
<1>4. TunType' /\ tun'.pc \in {"touch", "out"}
  <2>1. CASE tun' = [tun EXCEPT !.pc = "touch"]
    BY <1>1, <2>1 DEF TunType, IInv, Safe, TypeInv
  <2>2. CASE tun' = TunOut
    BY <2>2 DEF TunType, TunOut, NumsAssumption, Ids
  <2> QED BY <1>1, <2>1, <2>2
<1>5. TypeInv' /\ Owning'
  BY <1>1, <1>3, <1>4 DEF IInv, Safe, TypeInv, TypeOK, TimerType, Removed, AckType, Owning, ring
<1>6. InHand' = InHand
  BY <1>1, <1>3 DEF InHand, IInv, Safe, TypeInv, TimerType, Removed
<1>7. FlowsLive' /\ Building' /\ IndexLeads'
  BY <1>1, <1>3, <1>4, FlowsUnmoved DEF Removed, IInv
<1>8. (~crossed => PoolSound)'
  BY <1>1, <1>3, <1>4, <1>6, PoolUnmoved
<1> QED BY <1>5, <1>7, <1>8 DEF IInv, Safe

-----------------------------------------------------------------------------
(* The main loop. *)

\* Steps of timer_event and release_id that move no id and no flow.
LEMMA TimerUnmoved ==
  ASSUME NumsAssumption, IInv, UNCHANGED <<ring, flows, tun, ack, asked, fault>>,
         crossed => crossed', crossed' \in BOOLEAN,
         TimerType', Owning', Removed' => Removed /\ timer'.f = timer.f,
         timer'.pc = "store" <=> timer.pc = "store",
         timer'.pc = "flag" <=> timer.pc = "flag", InHand' = InHand,
         owner' \in {"none", "timer"}
  PROVE  IInv'
<1>1. TypeInv'
  BY DEF IInv, Safe, TypeInv, TypeOK, TunType, AckType, ring, flows
<1>2. FlowsLive' /\ Building' /\ IndexLeads'
  BY FlowsUnmoved DEF flows, IInv
<1>3. (~crossed => PoolSound)'
  BY PoolUnmoved DEF flows
<1> QED BY <1>1, <1>2, <1>3 DEF IInv, Safe

LEMMA TimerLockInv ==
  ASSUME NumsAssumption, IInv, TimerLock \/ TimerUnlock
  PROVE  IInv'
<1>1. /\ timer.pc \in {"out", "walk"} /\ UNCHANGED <<ring, flows, tun, ack, asked, crossed, fault>>
      /\ \/ timer' = [timer EXCEPT !.pc = "walk"] /\ owner' = "timer"
         \/ timer' = TimerOut /\ owner' = "none"
  BY DEF TimerLock, TimerUnlock
<1>2. TimerType' /\ Owning' /\ timer'.pc \in {"out", "walk"}
  <2>1. CASE timer' = [timer EXCEPT !.pc = "walk"] /\ owner' = "timer"
    BY <2>1 DEF TimerType, Removed, Owning, IInv, Safe, TypeInv
  <2>2. CASE timer' = TimerOut /\ owner' = "none"
    BY <2>2 DEF TimerType, Removed, Owning, TimerOut
  <2> QED BY <1>1, <2>1, <2>2
<1>3. InHand' = InHand /\ ~Removed'
  BY <1>1, <1>2 DEF InHand, Removed
<1>4. crossed' \in BOOLEAN
  BY <1>1 DEF IInv, Safe, TypeInv, TypeOK
<1> QED BY <1>1, <1>2, <1>3, <1>4, TimerUnmoved

\* The flow leaves the table and the index; its id is in timer_event's hands.
LEMMA TimerRemoveInv ==
  ASSUME NumsAssumption, IInv, NEW f \in Flows, TimerRemove(f)
  PROVE  IInv'
<1> DEFINE e == tun.pc = "index" /\ tun.f = f
<1>1. /\ timer.pc = "walk" /\ f \in table /\ flow[f].due /\ table' = table \ {f}
      /\ rindex' = [rindex EXCEPT ![flow[f].fid] = None]
      /\ flow' = [flow EXCEPT ![f].early = e]
      /\ timer' = [pc |-> "full", f |-> f]
      /\ UNCHANGED <<ring, owner, tun, ack, asked, crossed, fault>>
  BY DEF TimerRemove
<1>2. /\ flow[f] \in FlowType /\ flow \in [Flows -> FlowType] /\ table \subseteq Flows
      /\ flow[f].fid \in Ids
  BY DEF IInv, Safe, TypeInv, TypeOK, FlowType
<1>3. /\ flow' \in [Flows -> FlowType] /\ (flow'[f].early <=> e)
      /\ \A g \in Flows : flow'[g].fid = flow[g].fid /\ flow'[g].mem = flow[g].mem
      /\ \A g \in Flows : g # f => flow'[g].early = flow[g].early
  <2> DEFINE r == [flow[f] EXCEPT !.early = e]
  <2>1. e \in BOOLEAN
    OBVIOUS
  <2>2. flow' = [flow EXCEPT ![f] = r]
    BY <1>1, <1>2
  <2> HIDE DEF e
  <2>3. r \in FlowType /\ r.early = e /\ r.fid = flow[f].fid /\ r.mem = flow[f].mem
    BY <1>2, <2>1 DEF FlowType
  <2> HIDE DEF r
  <2> QED BY <1>2, <2>2, <2>3
<1>4. \A i \in Ids : rindex'[i] = IF i = flow[f].fid THEN None ELSE rindex[i]
  BY <1>1, <1>2 DEF IInv, Safe, TypeInv, TypeOK
<1>5. TypeInv' /\ Owning'
  <2>1. rindex' \in [Ids -> Flows \cup {None}]
    BY <1>1, <1>2 DEF IInv, Safe, TypeInv, TypeOK
  <2>2. TimerType'
    BY <1>1 DEF TimerType, Removed
  <2>3. TypeOK' /\ Owning'
    BY <1>1, <2>1 DEF IInv, Safe, TypeInv, TypeOK, Owning, ring
  <2>4. TunType' /\ AckType'
    BY <1>1 DEF IInv, Safe, TypeInv, TunType, AckType
  <2> QED BY <1>3, <2>2, <2>3, <2>4 DEF TypeInv
<1>6. FlowsLive'
  BY <1>1, <1>2, <1>3 DEF IInv, Safe, FlowsLive, Removed
<1>7. Building'
  BY <1>1, <1>3 DEF IInv, Safe, Building
<1>8. IndexLeads'
  <2>1. ASSUME NEW i \in Ids, rindex'[i] # None
        PROVE  /\ flow'[rindex'[i]].fid = i
               /\ rindex'[i] \in table' \/ flow'[rindex'[i]].early
    <3>1. i # flow[f].fid /\ rindex'[i] = rindex[i]
      BY <1>4, <2>1
    <3>2. /\ rindex[i] \in Flows /\ flow[rindex[i]].fid = i
          /\ rindex[i] \in table \/ flow[rindex[i]].early
      BY <2>1, <3>1 DEF IInv, Safe, IndexLeads, TypeInv, TypeOK
    <3>3. rindex[i] # f
      BY <3>1, <3>2
    <3> QED BY <1>1, <1>3, <3>1, <3>2, <3>3
  <2>2. \A g \in table' : flow'[g].mem = "live"
    BY <1>6 DEF FlowsLive
  <2> QED BY <2>1, <2>2 DEF IndexLeads
<1> HIDE DEF e
<1>9. ASSUME ~crossed'
      PROVE  PoolSound'
  <2>1. IdsOnce /\ IdsSomewhere /\ RingSound /\ Indexed
    BY <1>1, <1>9 DEF IInv, PoolSound
  <2>2. \A g \in table : flow[g].fid = flow[f].fid => g = f
    BY <1>1, <2>1 DEF IdsOnce
  <2>3. /\ Releasing' = Releasing /\ LastTaken' = LastTaken /\ Span' = Span
        /\ RanOut' = RanOut /\ ~Releasing
    BY <1>1 DEF Releasing, LastTaken, RanOut, After, Span, ring
  <2>4. Stored' = Stored /\ InRing' = InRing /\ InHand = {}
    BY <1>1, <2>3 DEF ring, Stored, Places, InRing, InHand
  <2>5. InHand' = {flow[f].fid}
    BY <1>1, <1>3 DEF InHand
  <2>6. InUse' = InUse \ {flow[f].fid} /\ flow[f].fid \in InUse
    <3>1. tun.pc \in {"flag", "insert"} => tun.id # flow[f].fid
      BY <1>1, <2>1 DEF IdsOnce
    <3>2. {flow'[g].fid : g \in table'} = {flow[g].fid : g \in table} \ {flow[f].fid}
      BY <1>1, <1>2, <1>3, <2>2
    <3> QED BY <1>1, <3>1, <3>2 DEF InUse
  <2>7. IdsSomewhere'
    BY <2>1, <2>4, <2>5, <2>6 DEF IdsSomewhere
  <2>8. IdsOnce'
    <3>1. \A g, h \in table' : flow'[g].fid = flow'[h].fid => g = h
      BY <1>1, <1>2, <1>3, <2>1 DEF IdsOnce
    <3>2. tun.pc \in {"flag", "insert"} => \A g \in table' : flow'[g].fid # tun.id
      BY <1>1, <1>2, <1>3, <2>1 DEF IdsOnce
    <3> QED BY <1>1, <2>1, <2>4, <2>5, <2>6, <3>1, <3>2 DEF IdsOnce, ring
  <2>9. RingSound'
    BY <1>1, <2>1, <2>3 DEF RingSound, ring
  <2>10. Indexed'
    <3>1. ASSUME NEW g \in table'
          PROVE  /\ rindex'[flow'[g].fid] = g \/ (tun.pc = "index" /\ tun.f = g)
                 /\ tun.pc = "index" /\ flow'[g].fid = tun.id => g = tun.f
      <4>1. /\ g \in table /\ flow'[g].fid = flow[g].fid /\ flow[g].fid # flow[f].fid
            /\ flow[g].fid \in Ids
        BY <1>1, <1>2, <1>3, <2>2 DEF FlowType
      <4>2. rindex'[flow[g].fid] = rindex[flow[g].fid]
        BY <1>4, <4>1
      <4> QED BY <2>1, <4>1, <4>2 DEF Indexed, AllIndexed
    <3> QED BY <1>1, <3>1 DEF Indexed, AllIndexed
  <2> QED BY <2>7, <2>8, <2>9, <2>10 DEF PoolSound
<1> QED BY <1>5, <1>6, <1>7, <1>8, <1>9 DEF IInv, Safe

\* release_id goes on to store the id: the ring is not full, and looks so only if
\* get_id has just taken the last id.
LEMMA ReleaseFullInv ==
  ASSUME NumsAssumption, IInv, ReleaseFull
  PROVE  IInv'
<1>1. /\ timer.pc = "full" /\ UNCHANGED <<ring, flows, owner, tun, ack, asked, fault>>
      /\ timer' = [timer EXCEPT !.pc = IF ~empty /\ RanOut THEN "free" ELSE "tail"]
      /\ crossed' = (crossed \/ (tun.pc = "flag" /\ RanOut))
  BY DEF ReleaseFull
<1>2. TimerType' /\ timer'.pc \in {"tail", "free"} /\ timer'.f = timer.f
  BY <1>1 DEF TimerType, Removed, IInv, Safe, TypeInv
<1>3. TypeInv' /\ Owning'
  <2>1. TypeOK' /\ Owning' /\ flow' \in [Flows -> FlowType]
    <3>1. crossed' \in BOOLEAN
      BY <1>1 DEF IInv, Safe, TypeInv, TypeOK
    <3> QED BY <1>1, <1>2, <3>1 DEF IInv, Safe, TypeInv, TypeOK, Owning, ring, flows
  <2>2. TunType' /\ AckType'
    BY <1>1 DEF IInv, Safe, TypeInv, TunType, AckType
  <2> QED BY <1>2, <2>1, <2>2 DEF TypeInv
<1>4. FlowsLive' /\ Building' /\ IndexLeads'
  BY <1>1, <1>2, FlowsUnmoved DEF flows, Removed, IInv
<1>5. ASSUME ~crossed'
      PROVE  PoolSound'
  <2>1. /\ TypeInv /\ TypeOK /\ IdsOnce /\ ~crossed
        /\ ~(tun.pc = "flag" /\ RanOut)
    BY <1>1, <1>5 DEF IInv, Safe, PoolSound, TypeInv
  <2>2. empty \/ ~RanOut
    <3> SUFFICES ASSUME ~empty, RanOut PROVE FALSE
      OBVIOUS
    <3>1. Span = Ids
      <4>1. /\ NumIds \in Nat /\ head \in Ids /\ tail \in Ids
            /\ head = IF tail = NumIds - 1 THEN 0 ELSE tail + 1
        BY <2>1, AfterIs DEF TypeOK, NumsAssumption, RanOut
      <4> QED BY <4>1 DEF Span, Ids
    <3>2. Stored = Ids
      BY <1>1, <2>1, <3>1 DEF Stored, Places, LastTaken
    <3> QED BY <1>1, <2>1, <3>2, NotFull
  <2>3. timer' = [timer EXCEPT !.pc = "tail"]
    BY <1>1, <2>2
  <2>4. timer'.pc = "tail" /\ InHand' = InHand
    BY <1>1, <1>2, <2>3 DEF InHand, flows, IInv, Safe, TypeInv, TimerType
  <2>5. (~crossed => PoolSound)'
    BY <1>1, <1>2, <2>1, <2>4, PoolUnmoved DEF flows
  <2> QED BY <1>5, <2>5
<1> QED BY <1>3, <1>4, <1>5 DEF IInv, Safe

\* The place counted for the id holds none yet.  The ring may have run out before,
\* and then this place is the only one; get_id may have taken the last id since
\* release_id looked; with another id in get_id's hands it does not fill the ring.
LEMMA ReleaseTailInv ==
  ASSUME NumsAssumption, IInv, ReleaseTail
  PROVE  IInv'
<1>1. /\ timer.pc = "tail" /\ timer' = [timer EXCEPT !.pc = "store"] /\ tail' = After(tail)
      /\ UNCHANGED <<pool, head, empty, flows, owner, tun, ack, asked, crossed, fault>>
  BY DEF ReleaseTail
<1>2. TimerType' /\ timer'.pc = "store" /\ timer'.f = timer.f
  BY <1>1 DEF TimerType, Removed, IInv, Safe, TypeInv
<1>3. /\ tail' \in Ids
      /\ ~RanOut => Span' = Span \cup {tail'} /\ tail' \notin Span /\ head # tail'
      /\ RanOut => Span' = {tail'} /\ Span = Ids /\ head = tail'
  BY <1>1, SpanRelease DEF IInv, Safe, TypeInv, RanOut
<1>4. TypeInv' /\ Owning'
  <2>1. TypeOK' /\ Owning' /\ flow' = flow
    BY <1>1, <1>2, <1>3 DEF IInv, Safe, TypeInv, TypeOK, Owning, flows
  <2>2. TunType' /\ AckType'
    BY <1>1 DEF IInv, Safe, TypeInv, TunType, AckType
  <2> QED BY <1>2, <2>1, <2>2 DEF IInv, Safe, TypeInv
<1>5. FlowsLive' /\ Building' /\ IndexLeads'
  BY <1>1, <1>2, FlowsUnmoved DEF flows, Removed, IInv
<1>6. ASSUME ~crossed'
      PROVE  PoolSound'
  <2>1. TypeInv /\ TypeOK /\ IdsOnce /\ IdsSomewhere /\ RingSound /\ Indexed
    BY <1>1, <1>6 DEF IInv, Safe, PoolSound, TypeInv
  <2>2. ~Releasing /\ Releasing' /\ InHand' = InHand
    BY <1>1, <1>2 DEF Releasing, InHand, flows
  <2>3. RanOut => empty \/ LastTaken
    <3> SUFFICES ASSUME RanOut, ~empty, ~LastTaken PROVE FALSE
      OBVIOUS
    <3>1. Stored = Ids
      BY <1>1, <1>3 DEF Stored, Places
    <3> QED BY <1>1, <2>1, <3>1, NotFull
  <2>4. ~LastTaken'
    <3> SUFFICES ASSUME tun.pc = "flag", RanOut' PROVE FALSE
      BY <1>1 DEF LastTaken
    <3>1. head = After(tail') /\ head \in Ids /\ ~empty
      BY <1>1, <2>1 DEF RanOut, After, RingSound, TypeOK
    <3>2. CASE ~RanOut
      <4>1. Span' = Ids
        <5>1. /\ NumIds \in Nat
              /\ head = IF tail' = NumIds - 1 THEN 0 ELSE tail' + 1
          BY <1>3, <3>1, AfterIs DEF NumsAssumption
        <5> QED BY <1>1, <1>3, <3>1, <5>1 DEF Span, Ids
      <4>2. Span = Ids \ {tail'}
        BY <1>3, <3>2, <4>1
      <4>3. Stored = Ids \ {tail'}
        BY <1>1, <2>2, <3>1, <3>2, <4>2 DEF Stored, Places, LastTaken
      <4> QED BY <1>1, <1>3, <2>1, <4>3, NotNearlyFull
    <3>3. CASE RanOut
      <4>1. tail' = After(tail') /\ tail' \in Ids
        BY <1>3, <3>1, <3>3
      <4>2. NumIds = 1
        <5> DEFINE t == tail'
        <5>1. t \in Ids /\ t = After(t)
          BY <4>1
        <5> HIDE DEF t
        <5>2. t = IF t = NumIds - 1 THEN 0 ELSE t + 1
          BY <5>1, AfterIs
        <5> QED BY <5>1, <5>2 DEF Ids, NumsAssumption
      <4>3. Ids = {0}
        BY <4>2 DEF Ids
      <4>4. flow[timer.f].fid = 0 /\ tun.id = 0
        BY <1>1, <2>1, <4>3, HandType DEF Removed, TypeInv, TunType
      <4>5. tun.id \in InUse /\ tun.id \in InHand
        BY <1>1, <4>4 DEF InUse, InHand
      <4> QED BY <2>1, <4>5 DEF IdsOnce
    <3> QED BY <3>2, <3>3
  <2>5. Stored' = Stored
    <3>1. Stored' = Span' \ {tail'} /\ Stored = Places
      BY <1>1, <1>2, <2>2, <2>4 DEF Stored, Places
    <3>2. CASE RanOut
      BY <1>3, <2>2, <2>3, <3>1, <3>2 DEF Places
    <3>3. CASE ~RanOut
      BY <1>3, <2>1, <2>2, <3>1, <3>3 DEF Places, LastTaken, RingSound
    <3> QED BY <3>2, <3>3
  <2>6. IdsOnce' /\ IdsSomewhere'
    BY <1>1, <2>1, <2>2, <2>5, IdsUnmoved DEF flows
  <2>7. RingSound'
    <3>1. tun.pc \in {"compare", "take"} => empty \/ head # tail'
      BY <1>3, <2>3 DEF LastTaken
    <3> QED BY <1>1, <2>1, <2>2, <2>4, <3>1 DEF RingSound
  <2>8. Indexed'
    BY <1>1, <2>1, IndexUnmoved DEF flows
  <2> QED BY <2>6, <2>7, <2>8 DEF PoolSound
<1> QED BY <1>4, <1>5, <1>6 DEF IInv, Safe

\* The place is written: the id is in the ring, and nowhere else.
LEMMA ReleaseStoreInv ==
  ASSUME NumsAssumption, IInv, ReleaseStore
  PROVE  IInv'
<1> DEFINE i == flow[timer.f].fid
<1>1. /\ timer.pc = "store" /\ timer' = [timer EXCEPT !.pc = "flag"]
      /\ pool' = [pool EXCEPT ![tail] = i]
      /\ UNCHANGED <<head, tail, empty, flows, owner, tun, ack, asked, crossed, fault>>
  BY DEF ReleaseStore
<1>2. TimerType' /\ timer'.pc = "flag" /\ timer'.f = timer.f
  BY <1>1 DEF TimerType, Removed, IInv, Safe, TypeInv
<1>3. timer.f \in Flows /\ i \in Ids
  BY <1>1, HandType DEF IInv, Safe, Removed
<1> HIDE DEF i
<1>4. pool \in [Ids -> Ids] /\ tail \in Span /\ Span \subseteq Ids
  BY TailInSpan DEF IInv, Safe, TypeInv, TypeOK
<1>5. \A p \in Ids : pool'[p] = IF p = tail THEN i ELSE pool[p]
  BY <1>1, <1>4
<1>6. TypeInv' /\ Owning'
  <2>1. pool' \in [Ids -> Ids]
    BY <1>1, <1>3, <1>4
  <2>2. TypeOK' /\ Owning' /\ flow' = flow
    BY <1>1, <1>2, <2>1 DEF IInv, Safe, TypeInv, TypeOK, Owning, flows
  <2>3. TunType' /\ AckType'
    BY <1>1 DEF IInv, Safe, TypeInv, TunType, AckType
  <2> QED BY <1>2, <2>2, <2>3 DEF IInv, Safe, TypeInv
<1>7. FlowsLive' /\ Building' /\ IndexLeads'
  BY <1>1, <1>2, FlowsUnmoved DEF flows, Removed, IInv
<1>8. ASSUME ~crossed'
      PROVE  PoolSound'
  <2>1. TypeInv /\ IdsOnce /\ IdsSomewhere /\ RingSound /\ Indexed
    BY <1>1, <1>8 DEF IInv, Safe, PoolSound
  <2>2. /\ Releasing /\ Releasing' /\ LastTaken' = LastTaken /\ Span' = Span
        /\ RanOut' = RanOut /\ ~LastTaken
    BY <1>1, <1>2, <2>1 DEF Releasing, LastTaken, Span, RanOut, After, RingSound
  <2>3. Stored' = Span /\ Stored = Span \ {tail}
    BY <1>1, <1>2, <2>2 DEF Stored, Places
  <2>4. InHand = {i} /\ InHand' = {} /\ InUse' = InUse
    BY <1>1, <1>2 DEF InHand, InUse, flows, i
  <2>5. InRing' = InRing \cup {i} /\ i \notin InRing /\ i \notin InUse
    <3>1. InRing' = InRing \cup {i}
      BY <1>4, <1>5, <2>3 DEF InRing
    <3> QED BY <2>1, <2>4, <3>1 DEF IdsOnce
  <2>6. IdsSomewhere'
    BY <2>1, <2>4, <2>5 DEF IdsSomewhere
  <2>7. IdsOnce'
    <3>1. ASSUME NEW p \in Span, NEW q \in Span, pool'[p] = pool'[q]
          PROVE  p = q
      <4>1. \A o \in Span : o # tail => o \in Stored /\ pool'[o] = pool[o] /\ pool[o] # i
        BY <1>4, <1>5, <2>3, <2>5 DEF InRing
      <4>2. pool'[tail] = i
        BY <1>4, <1>5
      <4> QED BY <2>1, <3>1, <4>1, <4>2 DEF IdsOnce
    <3>2. \A j \in InRing' : j \notin InUse' /\ j \notin InHand'
      BY <2>1, <2>4, <2>5 DEF IdsOnce
    <3> QED BY <1>1, <2>1, <2>3, <2>4, <3>1, <3>2 DEF IdsOnce, flows
  <2>8. RingSound'
    BY <1>1, <2>1, <2>2 DEF RingSound
  <2>9. Indexed'
    BY <1>1, <2>1, IndexUnmoved DEF flows
  <2> QED BY <2>6, <2>7, <2>8, <2>9 DEF PoolSound
<1> QED BY <1>6, <1>7, <1>8 DEF IInv, Safe

\* The flag is clear and there is an id.
LEMMA ReleaseFlagInv ==
  ASSUME NumsAssumption, IInv, ReleaseFlag
  PROVE  IInv'
<1>1. /\ timer.pc = "flag" /\ timer' = [timer EXCEPT !.pc = "free"] /\ empty' = FALSE
      /\ UNCHANGED <<pool, head, tail, flows, owner, tun, ack, asked, crossed, fault>>
  BY DEF ReleaseFlag
<1>2. TimerType' /\ timer'.pc = "free" /\ timer'.f = timer.f
  BY <1>1 DEF TimerType, Removed, IInv, Safe, TypeInv
<1>3. TypeInv' /\ Owning'
  BY <1>1, <1>2 DEF IInv, Safe, TypeInv, TypeOK, TunType, AckType, Owning, flows
<1>4. FlowsLive' /\ Building' /\ IndexLeads'
  BY <1>1, <1>2, FlowsUnmoved DEF flows, Removed, IInv
<1>5. ASSUME ~crossed'
      PROVE  PoolSound'
  <2>1. TypeInv /\ IdsOnce /\ IdsSomewhere /\ RingSound /\ Indexed
    BY <1>1, <1>5 DEF IInv, Safe, PoolSound
  <2>2. Releasing /\ ~Releasing' /\ ~LastTaken /\ ~LastTaken' /\ Span' = Span
    BY <1>1, <1>2, <2>1 DEF Releasing, LastTaken, Span, RanOut, After, RingSound
  <2>3. Stored' = Stored /\ InHand' = InHand
    BY <1>1, <1>2, <2>2 DEF Stored, Places, InHand
  <2>4. IdsOnce' /\ IdsSomewhere'
    BY <1>1, <2>1, <2>3, IdsUnmoved DEF flows
  <2>5. RingSound'
    BY <1>1, <2>2 DEF RingSound
  <2>6. Indexed'
    BY <1>1, <2>1, IndexUnmoved DEF flows
  <2> QED BY <2>4, <2>5, <2>6 DEF PoolSound
<1> QED BY <1>3, <1>4, <1>5 DEF IInv, Safe

\* The flow that is freed is in the table no more.
LEMMA TimerFreeInv ==
  ASSUME NumsAssumption, IInv, TimerFree
  PROVE  IInv'
<1>1. /\ timer.pc = "free" /\ timer' = [pc |-> "walk", f |-> None]
      /\ flow' = [flow EXCEPT ![timer.f].mem = "freed"]
      /\ UNCHANGED <<ring, table, rindex, owner, tun, ack, asked, crossed, fault>>
  BY DEF TimerFree
<1>2. /\ timer.f \in Flows /\ timer.f \notin table /\ flow \in [Flows -> FlowType]
      /\ table \subseteq Flows
  BY <1>1 DEF IInv, Safe, TypeInv, TypeOK, TimerType, Removed, FlowsLive
<1>3. /\ flow' \in [Flows -> FlowType] /\ flow'[timer.f].mem = "freed"
      /\ \A g \in Flows : flow'[g].fid = flow[g].fid /\ flow'[g].early = flow[g].early
      /\ \A g \in Flows : g # timer.f => flow'[g] = flow[g]
  <2> DEFINE r == [flow[timer.f] EXCEPT !.mem = "freed"]
  <2>1. /\ r \in FlowType /\ r.fid = flow[timer.f].fid /\ r.early = flow[timer.f].early
        /\ r.mem = "freed"
    BY <1>2 DEF FlowType
  <2>2. flow' = [flow EXCEPT ![timer.f] = r]
    BY <1>1, <1>2
  <2> HIDE DEF r
  <2> QED BY <1>2, <2>1, <2>2
<1>4. \A g \in table : flow'[g] = flow[g]
  BY <1>2, <1>3
<1>5. TypeInv' /\ Owning'
  <2>1. TimerType'
    BY <1>1 DEF TimerType, Removed
  <2>2. TypeOK' /\ Owning'
    BY <1>1 DEF IInv, Safe, TypeInv, TypeOK, Owning, ring
  <2>3. TunType' /\ AckType'
    BY <1>1 DEF IInv, Safe, TypeInv, TunType, AckType
  <2> QED BY <1>3, <2>1, <2>2, <2>3 DEF TypeInv
<1>6. FlowsLive'
  BY <1>1, <1>2, <1>3, <1>4 DEF IInv, Safe, FlowsLive, Removed
<1>7. Building'
  BY <1>1, <1>3 DEF IInv, Safe, Building
<1>8. IndexLeads'
  <2>1. ASSUME NEW i \in Ids, rindex[i] # None
        PROVE  /\ flow'[rindex[i]].fid = i
               /\ rindex[i] \in table \/ flow'[rindex[i]].early
    <3>1. /\ rindex[i] \in Flows /\ flow[rindex[i]].fid = i
          /\ rindex[i] \in table \/ flow[rindex[i]].early
      BY <2>1 DEF IInv, Safe, IndexLeads, TypeInv, TypeOK
    <3> QED BY <1>3, <3>1
  <2>2. \A g \in table' : flow'[g].mem = "live"
    BY <1>6 DEF FlowsLive
  <2> QED BY <1>1, <2>1, <2>2 DEF IndexLeads
<1>9. (~crossed => PoolSound)'
  BY <1>1, <1>3, PoolUnmoved DEF InHand
<1> QED BY <1>5, <1>6, <1>7, <1>8, <1>9 DEF IInv, Safe

\* A flow may become due while it is being built.
LEMMA ElapseInv ==
  ASSUME NumsAssumption, IInv, NEW f \in Flows, Elapse(f)
  PROVE  IInv'
<1>1. /\ flow' = [flow EXCEPT ![f].due = TRUE]
      /\ UNCHANGED <<ring, table, rindex, owner, tun, timer, ack, asked, crossed, fault>>
  BY DEF Elapse
<1>2. TypeInv /\ flow[f] \in FlowType /\ flow \in [Flows -> FlowType]
  BY DEF IInv, Safe, TypeInv
<1>3. /\ flow' \in [Flows -> FlowType]
      /\ \A g \in Flows : /\ flow'[g].fid = flow[g].fid /\ flow'[g].mem = flow[g].mem
                          /\ flow'[g].early = flow[g].early
  <2> DEFINE r == [flow[f] EXCEPT !.due = TRUE]
  <2>1. /\ r \in FlowType /\ r.fid = flow[f].fid /\ r.mem = flow[f].mem
        /\ r.early = flow[f].early
    BY <1>2 DEF FlowType
  <2>2. flow' = [flow EXCEPT ![f] = r]
    BY <1>1, <1>2
  <2> HIDE DEF r
  <2> QED BY <1>2, <2>1, <2>2, WriteKeeps
<1>4. TypeInv' /\ Owning'
  <2>1. TypeOK' /\ Owning'
    BY <1>1 DEF IInv, Safe, TypeInv, TypeOK, Owning, ring
  <2>2. TunType' /\ TimerType' /\ AckType'
    BY <1>1 DEF IInv, Safe, TypeInv, TunType, TimerType, Removed, AckType
  <2> QED BY <1>3, <2>1, <2>2 DEF TypeInv
<1>5. InHand' = InHand
  BY <1>1, <1>3 DEF InHand, IInv, Safe, TypeInv, TimerType, Removed
<1>6. FlowsLive' /\ Building' /\ IndexLeads'
  BY <1>1, <1>3, FlowsUnmoved DEF Removed, IInv
<1>7. (~crossed => PoolSound)'
  BY <1>1, <1>3, <1>5, PoolUnmoved
<1> QED BY <1>4, <1>6, <1>7 DEF IInv, Safe

-----------------------------------------------------------------------------
(* recv_unsplit. *)

LEMMA AckTestInv ==
  ASSUME NumsAssumption, IInv, NEW i \in Ids, AckTest(i)
  PROVE  IInv'
<1>1. /\ ack' = [pc |-> "follow", id |-> i, f |-> rindex[i]]
      /\ UNCHANGED <<ring, flows, owner, tun, timer, asked, crossed, fault>>
  BY DEF AckTest
<1>2. AckType'
  BY <1>1 DEF AckType, IInv, Safe, TypeInv, TypeOK
<1>3. TypeInv' /\ Owning'
  <2>1. TypeOK' /\ Owning' /\ flow' \in [Flows -> FlowType]
    BY <1>1 DEF IInv, Safe, TypeInv, TypeOK, Owning, ring, flows
  <2>2. TunType' /\ TimerType'
    BY <1>1 DEF IInv, Safe, TypeInv, TunType, TimerType, Removed
  <2> QED BY <1>2, <2>1, <2>2 DEF TypeInv
<1>4. FlowsLive' /\ Building' /\ IndexLeads'
  BY <1>1, FlowsUnmoved DEF flows, Removed, IInv
<1>5. (~crossed => PoolSound)'
  BY <1>1, PoolUnmoved DEF InHand, flows
<1> QED BY <1>3, <1>4, <1>5 DEF IInv, Safe

\* The flow that the index led to may be gone or be another by now; it stays
\* where it is.
LEMMA AckFollowInv ==
  ASSUME NumsAssumption, IInv, AckFollow
  PROVE  IInv'
<1>1. ack' = AckOut /\ UNCHANGED <<ring, table, rindex, owner, tun, timer, crossed>>
  BY DEF AckFollow
<1>2. TypeInv /\ asked \subseteq Ids /\ flow \in [Flows -> FlowType]
  BY DEF IInv, Safe, TypeInv, TypeOK
<1>3. PICK f \in {ack.f, rindex[ack.id]} :
        \/ f = None /\ fault' = "null flow" /\ UNCHANGED <<flow, asked>>
        \/ f # None /\ Touching(f, /\ flow' = [flow EXCEPT ![f].state = "established"]
                                   /\ UNCHANGED asked)
  BY DEF AckFollow
<1>4. f \in Flows \cup {None} /\ fault \in {"none", "freed flow", "null flow"}
  BY DEF IInv, Safe, TypeInv, TypeOK, AckType
<1>5. /\ flow' \in [Flows -> FlowType] /\ asked' = asked
      /\ \A g \in Flows : /\ flow'[g].fid = flow[g].fid /\ flow'[g].mem = flow[g].mem
                          /\ flow'[g].early = flow[g].early
      /\ fault' \in {"none", "freed flow", "null flow"}
  <2>1. CASE UNCHANGED <<flow, asked>> /\ fault' \in {"null flow", "freed flow"}
    BY <1>2, <2>1
  <2>2. CASE /\ f # None /\ flow' = [flow EXCEPT ![f].state = "established"]
             /\ UNCHANGED <<asked, fault>>
    <3> DEFINE r == [flow[f] EXCEPT !.state = "established"]
    <3>1. flow[f] \in FlowType /\ f \in Flows
      BY <1>2, <1>4, <2>2
    <3>2. /\ r \in FlowType /\ r.fid = flow[f].fid /\ r.mem = flow[f].mem
          /\ r.early = flow[f].early
      BY <3>1 DEF FlowType
    <3>3. flow' = [flow EXCEPT ![f] = r]
      BY <1>2, <2>2
    <3> HIDE DEF r
    <3> QED BY <1>2, <1>4, <2>2, <3>1, <3>2, <3>3, WriteKeeps
  <2> QED BY <1>3, <2>1, <2>2 DEF Touching
<1>6. AckType'
  BY <1>1 DEF AckType, AckOut, NumsAssumption, Ids
<1>7. TypeInv' /\ Owning'
  <2>1. TypeOK' /\ Owning'
    BY <1>1, <1>2, <1>5 DEF IInv, Safe, TypeInv, TypeOK, Owning, ring
  <2>2. TunType' /\ TimerType'
    BY <1>1 DEF IInv, Safe, TypeInv, TunType, TimerType, Removed
  <2> QED BY <1>5, <1>6, <2>1, <2>2 DEF TypeInv
<1>8. InHand' = InHand
  BY <1>1, <1>5 DEF InHand, IInv, Safe, TypeInv, TimerType, Removed
<1>9. FlowsLive' /\ Building' /\ IndexLeads'
  BY <1>1, <1>5, FlowsUnmoved DEF Removed, IInv
<1>10. (~crossed => PoolSound)'
  BY <1>1, <1>5, <1>8, PoolUnmoved
<1> QED BY <1>7, <1>9, <1>10 DEF IInv, Safe

-----------------------------------------------------------------------------
LEMMA InitInv ==
  ASSUME NumsAssumption
  PROVE  Init => IInv
<1> SUFFICES ASSUME Init PROVE IInv
  OBVIOUS
<1>1. /\ pool = [i \in Ids |-> i] /\ head = 0 /\ tail = NumIds - 1 /\ empty = FALSE
      /\ flow = [f \in Flows |-> Unused] /\ table = {} /\ rindex = [i \in Ids |-> None]
      /\ owner = "none" /\ tun = TunOut /\ timer = TimerOut /\ ack = AckOut
      /\ asked = {} /\ crossed = FALSE /\ fault = "none"
  BY DEF Init
<1>2. NumIds \in Nat /\ NumIds > 0 /\ 0 \in Ids /\ NumIds - 1 \in Ids
  BY DEF NumsAssumption, Ids
<1>3. Unused \in FlowType /\ ~Unused.early
  BY <1>2 DEF Unused, FlowType
<1>4. TypeInv
  <2>1. TypeOK
    BY <1>1, <1>2 DEF TypeOK
  <2>2. flow \in [Flows -> FlowType]
    BY <1>1, <1>3
  <2>3. TunType
    BY <1>1, <1>2 DEF TunType, TunOut
  <2>4. TimerType /\ AckType
    BY <1>1, <1>2 DEF TimerType, TimerOut, AckType, AckOut, Removed
  <2> QED BY <2>1, <2>2, <2>3, <2>4 DEF TypeInv
<1>5. timer.pc = "out" /\ tun.pc = "out"
  BY <1>1 DEF TimerOut, TunOut
<1>6. Owning /\ FlowsLive /\ Building /\ IndexLeads
  BY <1>1, <1>3, <1>5 DEF Owning, FlowsLive, Building, Removed, IndexLeads
<1>7. Span = Ids /\ ~Releasing /\ ~LastTaken
  BY <1>1, <1>2, <1>5 DEF Span, Ids, Releasing, LastTaken
<1>8. Stored = Ids
  BY <1>1, <1>5, <1>7 DEF Stored, Places
<1>9. InRing = Ids /\ InUse = {} /\ InHand = {}
  BY <1>1, <1>5, <1>8 DEF InRing, InUse, InHand
<1>10. IdsOnce /\ IdsSomewhere
  BY <1>1, <1>5, <1>8, <1>9 DEF IdsOnce, IdsSomewhere
<1>11. RingSound /\ Indexed
  BY <1>1, <1>5, <1>7 DEF RingSound, Indexed, AllIndexed
<1> QED BY <1>4, <1>6, <1>10, <1>11 DEF IInv, Safe, PoolSound

LEMMA NextInv ==
  ASSUME NumsAssumption
  PROVE  IInv /\ [Next]_vars => IInv'
<1> SUFFICES ASSUME IInv, [Next]_vars PROVE IInv'
  OBVIOUS
<1>1. CASE UNCHANGED vars
  <2>1. UNCHANGED <<ring, flows, tun, timer, ack, asked, crossed, fault, owner>>
    BY <1>1 DEF vars, ring, flows
  <2>2. /\ TimerType' /\ Owning' /\ InHand' = InHand /\ owner' \in {"none", "timer"}
        /\ crossed' \in BOOLEAN
    BY <2>1 DEF IInv, Safe, TypeInv, TypeOK, TimerType, Removed, Owning, InHand, flows
  <2> QED BY <2>1, <2>2, TimerUnmoved DEF Removed
<1>2. CASE Tun
  BY <1>2, LookupInv, GetCompareInv, GetTakeInv, GetFlagInv, BuildInv, IndexInv, UseInv DEF Tun
<1>3. CASE Timer
  BY <1>3, TimerLockInv, TimerRemoveInv, ReleaseFullInv, ReleaseTailInv, ReleaseStoreInv,
     ReleaseFlagInv, TimerFreeInv DEF Timer
<1>4. CASE Ack
  BY <1>4, AckTestInv, AckFollowInv DEF Ack
<1>5. CASE \E f \in Flows : Elapse(f)
  BY <1>5, ElapseInv
<1> QED BY <1>1, <1>2, <1>3, <1>4, <1>5 DEF Next

LEMMA Inductive ==
  ASSUME NumsAssumption
  PROVE  Spec => []IInv
BY InitInv, NextInv, PTL DEF Spec

-----------------------------------------------------------------------------
\* An id that is at one place is counted once in the ring, or is in use.
LEMMA KeptOnce ==
  ASSUME IInv, ~crossed
  PROVE  IdsKept
<1> SUFFICES ASSUME tun.pc # "flag", timer.pc \in {"out", "walk", "free"}, NEW i \in Ids
             PROVE  Cardinality({p \in Occupied : pool[p] = i}) = (IF i \in InUse THEN 0 ELSE 1)
  BY DEF IdsKept
<1>1. Stored = Occupied /\ InHand = {} /\ IdsOnce /\ IdsSomewhere
  BY DEF Stored, Places, Span, LastTaken, Releasing, Occupied, InHand, IInv, PoolSound
<1>2. CASE i \in InUse
  <2>1. {p \in Occupied : pool[p] = i} = {}
    BY <1>1, <1>2 DEF IdsOnce, InRing
  <2> QED BY <1>2, <2>1, FS_EmptySet
<1>3. CASE i \notin InUse
  <2>1. PICK p \in Occupied : pool[p] = i
    BY <1>1, <1>3 DEF IdsSomewhere, InRing
  <2>2. {q \in Occupied : pool[q] = i} = {p}
    BY <1>1, <2>1 DEF IdsOnce
  <2> QED BY <1>3, <2>2, FS_Singleton
<1> QED BY <1>2, <1>3

\* However the three threads interleave, although get_id and recv_compress take
\* no lock, sflow_rindex leads to flows that have the id, in the table or removed
\* before their time; and until get_id and release_id cross at the last id the
\* table of flows, the index and the id pool agree (idpool.c, compact.c).
THEOREM TablesAgreeThreads ==
  ASSUME NumsAssumption
  PROVE  Spec => []FlowTablesSound
<1>1. IInv => FlowTablesSound
  BY KeptOnce DEF IInv, Safe, TypeInv, FlowTablesSound, PoolSound, Indexed
<1> QED BY <1>1, Inductive, PTL

\* No id is given to two flows: those of the table have different ids, none of
\* which get_id is about to give (xmit_compress).
OwnIds ==
  /\ \A f, g \in table : flow[f].fid = flow[g].fid => f = g
  /\ tun.pc \in {"flag", "insert"} => \A f \in table : flow[f].fid # tun.id

\* Two flows never share an id until they have crossed, however often ids are
\* given again and whether or not the pool runs out.
THEOREM IdsNotShared ==
  ASSUME NumsAssumption
  PROVE  Spec => [](~crossed => OwnIds)
<1>1. IInv => (~crossed => OwnIds)
  BY DEF IInv, PoolSound, IdsOnce, OwnIds
<1> QED BY <1>1, Inductive, PTL

\* timer_event frees a flow once, when the table no longer has it; what still
\* leads to it is an entry that recv_tun made, or makes, too late.
FreedOutside ==
  Removed => /\ flow[timer.f].mem = "live" /\ timer.f \notin table
             /\ \A i \in Ids : rindex[i] = timer.f => i = flow[timer.f].fid /\ flow[timer.f].early

\* No flow is freed twice or while it is in the table, whatever happens in the pool.
THEOREM FreedOnce ==
  ASSUME NumsAssumption
  PROVE  Spec => []FreedOutside
<1>1. IInv => FreedOutside
  <2> SUFFICES ASSUME IInv, Removed PROVE FreedOutside
    BY DEF FreedOutside
  <2>1. flow[timer.f].mem = "live" /\ timer.f \notin table /\ timer.f \in Flows
    BY DEF IInv, Safe, FlowsLive, TypeInv, TimerType
  <2>2. timer.f # None
    BY <2>1 DEF Flows, None
  <2> QED BY <2>1, <2>2 DEF FreedOutside, IInv, Safe, IndexLeads
<1> QED BY <1>1, Inductive, PTL

-----------------------------------------------------------------------------
\* Two ids more than the flows that live, the one that timer_event has removed
\* included.
FewFlows == Cardinality({f \in Flows : flow[f].mem = "live"}) + 2 <= NumIds

\* Then the ids of the flows that live are not all but one.
LEMMA FewIds ==
  ASSUME NumsAssumption, TypeInv, FewFlows, NEW x \in Ids
  PROVE  \E i \in Ids : i # x /\ \A f \in Flows : flow[f].mem = "live" => flow[f].fid # i
<1> SUFFICES ASSUME \A i \in Ids : i = x \/ \E f \in Flows : flow[f].mem = "live" /\ flow[f].fid = i
             PROVE  FALSE
  OBVIOUS
<1> DEFINE L == {f \in Flows : flow[f].mem = "live"}
           S == L \cup {None}
           g == [y \in S |-> IF y = None THEN x ELSE flow[y].fid]
<1>1. NumIds \in Nat /\ NumFlows \in Nat
  BY DEF NumsAssumption
<1>2. None \notin L /\ (\A f \in L : flow[f].fid \in Ids)
  BY DEF Flows, None, TypeInv, FlowType
<1>3. IsFiniteSet(L) /\ Cardinality(L) \in Nat /\ L \subseteq Flows
  <2>1. IsFiniteSet(Flows)
    BY <1>1, FS_Interval DEF Flows
  <2> QED BY <2>1, FS_Subset, FS_CardinalityType
<1>4. IsFiniteSet(S) /\ Cardinality(S) = Cardinality(L) + 1
  BY <1>2, <1>3, FS_AddElement
<1>5. g \in [S -> Ids]
  BY <1>2
<1>6. \A i \in Ids : \E y \in S : g[y] = i
  <2>1. SUFFICES ASSUME NEW i \in Ids PROVE \E y \in S : g[y] = i
    OBVIOUS
  <2>2. CASE i = x
    BY <2>2
  <2>3. CASE i # x
    <3>1. PICK f \in L : flow[f].fid = i
      BY <2>3
    <3> QED BY <1>2, <3>1
  <2> QED BY <2>2, <2>3
<1>7. g \in Surjection(S, Ids)
  BY <1>5, <1>6 DEF Surjection
<1>8. Cardinality(Ids) = NumIds
  BY <1>1, FS_Interval DEF Ids, NumsAssumption
<1>9. NumIds <= Cardinality(L) + 1
  <2> HIDE DEF L, g, S
  <2> QED BY <1>4, <1>7, <1>8, FS_Surjection
<1> QED BY <1>1, <1>3, <1>9 DEF FewFlows

\* So that there are ids in the ring besides the one at the head, and besides the
\* one that get_id has taken.
LEMMA FewLeave ==
  ASSUME NumsAssumption, IInv, ~crossed, FewFlows
  PROVE  /\ tun.pc = "compare" => head # tail
         /\ ~LastTaken
<1>1. TypeInv /\ IdsOnce /\ IdsSomewhere /\ head \in Ids /\ pool[head] \in Ids /\ tun.id \in Ids
  BY DEF IInv, Safe, PoolSound, TypeInv, TypeOK, TunType
<1>2. ASSUME NEW i \in Ids, i \notin InRing, tun.pc \in {"flag", "insert"} => i # tun.id
      PROVE  \E f \in Flows : flow[f].mem = "live" /\ flow[f].fid = i
  <2>1. CASE i \in InUse
    BY <1>2, <2>1 DEF InUse, IInv, Safe, FlowsLive, TypeInv, TypeOK
  <2>2. CASE i \in InHand
    BY <2>2 DEF InHand, Removed, IInv, Safe, FlowsLive, TypeInv, TimerType
  <2> QED BY <1>1, <1>2, <2>1, <2>2 DEF IdsSomewhere
<1>3. ASSUME tun.pc = "compare", head = tail
      PROVE  FALSE
  <2>1. InRing \subseteq {pool[head]}
    <3>1. Span \subseteq {head}
      BY <1>1, <1>3 DEF Span, Ids
    <3> QED BY <3>1 DEF InRing, Stored, Places
  <2> QED BY <1>1, <1>2, <1>3, <2>1, FewIds
<1>4. ASSUME LastTaken
      PROVE  FALSE
  <2>1. InRing = {} /\ tun.pc = "flag"
    BY <1>4 DEF InRing, Stored, Places, LastTaken
  <2> QED BY <1>1, <1>2, <2>1, FewIds
<1> QED BY <1>3, <1>4

\* get_id never sets the flag.
NeverLast == tun.pc \in {"take", "flag"} => ~tun.last

\* As long as the ids outnumber the flows that live by two, get_id and release_id
\* never cross, so that all agree at every step (TablesAgreeThreads).
THEOREM FewNeverCross ==
  ASSUME NumsAssumption
  PROVE  Spec /\ []FewFlows => []~crossed
<1> DEFINE J == IInv /\ ~crossed /\ NeverLast
<1>1. Init => J
  <2> SUFFICES ASSUME Init PROVE ~crossed /\ NeverLast
    BY InitInv
  <2>1. crossed = FALSE /\ tun.pc = "out"
    BY DEF Init, TunOut
  <2> QED BY <2>1 DEF NeverLast
<1>2. J /\ FewFlows /\ [Next]_vars => J'
  <2> SUFFICES ASSUME J, FewFlows, [Next]_vars PROVE ~crossed' /\ NeverLast'
    BY NextInv
  <2>1. (tun.pc = "compare" => head # tail) /\ ~LastTaken
    BY FewLeave
  <2>2. ~crossed /\ NeverLast /\ TunType
    BY DEF IInv, Safe, TypeInv
  <2>3. CASE GetCompare
    BY <2>1, <2>2, <2>3 DEF GetCompare, NeverLast, TunType
  <2>4. CASE GetTake
    <3>1. CASE tun' = TunOut
      BY <2>2, <2>4, <3>1 DEF GetTake, NeverLast, TunOut
    <3>2. CASE tun' = [tun EXCEPT !.pc = "flag", !.id = pool[head]]
      BY <2>2, <2>4, <3>2 DEF GetTake, NeverLast, TunType
    <3> QED BY <2>4, <3>1, <3>2 DEF GetTake
  <2>5. CASE GetFlag
    <3>1. ~tun.last /\ ~RanOut
      BY <2>1, <2>2, <2>5 DEF GetFlag, NeverLast, LastTaken
    <3>2. ~crossed'
      <4>1. tun.last \in BOOLEAN /\ tun.last = FALSE /\ RanOut = FALSE
        BY <2>2, <3>1 DEF TunType, RanOut
      <4> QED BY <2>2, <2>5, <4>1 DEF GetFlag
    <3> QED BY <2>2, <2>5, <3>2 DEF GetFlag, NeverLast, TunType
  <2>6. CASE ReleaseFull
    BY <2>1, <2>2, <2>6 DEF ReleaseFull, NeverLast, LastTaken
  <2>7. CASE (\E key \in Keys : Lookup(key)) \/ TouchSflow
    <3>1. ~crossed' /\ tun'.pc \in {"use", "compare", "out"}
      <4>1. ASSUME NEW key \in Keys, Lookup(key)
            PROVE  ~crossed' /\ tun'.pc \in {"use", "compare"}
        <5>1. /\ crossed' = crossed
              /\ \/ \E f \in table : tun' = [TunOut EXCEPT !.pc = "use", !.f = f]
                 \/ tun' = [TunOut EXCEPT !.pc = "compare", !.key = key]
          BY <4>1 DEF Lookup
        <5> QED BY <2>2, <5>1 DEF TunOut
      <4>2. CASE TouchSflow
        BY <2>2, <4>2 DEF TouchSflow, TunOut
      <4> QED BY <2>7, <4>1, <4>2
    <3> QED BY <3>1 DEF NeverLast
  <2>8. CASE Build \/ Index \/ Use
    <3>1. ~crossed' /\ tun'.pc \in {"index", "use", "touch"}
      <4>1. CASE Build
        BY <2>2, <4>1 DEF Build, TunType
      <4>2. CASE Index
        BY <2>2, <4>2 DEF Index, TunType
      <4>3. CASE Use
        <5>1. crossed' = crossed /\ tun' = [tun EXCEPT !.pc = "touch"]
          BY <4>3 DEF Use
        <5> QED BY <2>2, <5>1 DEF TunType
      <4> QED BY <2>8, <4>1, <4>2, <4>3
    <3> QED BY <3>1 DEF NeverLast
  <2>9. CASE \/ TimerLock \/ TimerUnlock \/ \E f \in Flows : TimerRemove(f)
             \/ ReleaseTail \/ ReleaseStore \/ ReleaseFlag \/ TimerFree
    BY <2>2, <2>9 DEF TimerLock, TimerUnlock, TimerRemove, ReleaseTail, ReleaseStore,
       ReleaseFlag, TimerFree, NeverLast
  <2>10. CASE Ack \/ (\E f \in Flows : Elapse(f)) \/ UNCHANGED vars
    <3>1. crossed' = crossed /\ tun' = tun
      BY <2>10 DEF Ack, AckTest, AckFollow, Elapse, vars
    <3> QED BY <2>2, <3>1 DEF NeverLast
  <2> QED BY <2>3, <2>4, <2>5, <2>6, <2>7, <2>8, <2>9, <2>10 DEF Next, Tun, Timer
<1>3. J => ~crossed
  OBVIOUS
<1> QED BY <1>1, <1>2, <1>3, PTL DEF Spec
=============================================================================
