--------------------------- MODULE CompactFlowProofs ---------------------------
(***************************************************************************)
(* Proofs about CompactFlow, for any set of flows, any size of the pool    *)
(* and any timeout: the tables of a node agree, the sending node uses the  *)
(* pool as the pool expects, and packets get the headers of their flow.    *)
(***************************************************************************)
EXTENDS CompactFlow, FiniteSetTheorems, SequenceTheorems, TLAPS

-----------------------------------------------------------------------------
(* The tables. *)

\* No id lies twice in the pool.
FreeOnce == \A j, k \in 1..Len(free) : free[j] = free[k] => j = k

\* An id without a flow at the receiving node has no clock either.
Blank == \A i \in Ids : rflow[i].flow = NULL => rflow[i] = NoRflow

TablesInv == TypeOK /\ TablesAgree /\ FreeOnce /\ Blank

-----------------------------------------------------------------------------
(* What a packet under way says of the tables, on a link that takes less   *)
(* than a pass: the clocks it has set have not run since.                  *)

\* The flow of a request or of a compacted packet still has its id.
SentByOwner ==
  \A k \in 1..Len(fwd) : fwd[k].type # "IP" =>
    /\ sflow_rindex[fwd[k].fid] = fwd[k].flow
    /\ sflow[fwd[k].flow].soft_timeout = SOFT_TIMEOUT
    /\ fwd[k].type = "CPKT" => sflow[fwd[k].flow].state = "ESTABLISHED"

\* An acknowledged id is known at both nodes for the same flow.
AckedByOwner ==
  \A k \in 1..Len(bwd) :
    /\ sflow_rindex[bwd[k]] # NULL
    /\ sflow[sflow_rindex[bwd[k]]].soft_timeout = SOFT_TIMEOUT
    /\ rflow[bwd[k]] = [flow |-> sflow_rindex[bwd[k]],
                        soft_timeout |-> SOFT_TIMEOUT]

\* The peer of an established flow knows it or has forgotten the id.
EstablishedAtPeer ==
  \A f \in Flows : sflow[f].state = "ESTABLISHED" =>
                     rflow[sflow[f].fid].flow \in {f, NULL}

QuickInv == SentByOwner /\ AckedByOwner /\ EstablishedAtPeer

-----------------------------------------------------------------------------
(* ... and on a link that may take any time and loses nothing: the         *)
(* requests under way tell what the peer will know.                        *)

IsRequest(p, i) == p.type = "REQ" /\ p.fid = i

\* What a peer that knows g under i will know under i once it has received
\* all before place n of q is f, if anything.
WillBe(q, g, i, n, f) ==
  /\ \A j \in 1..(n - 1) :
       /\ IsRequest(q[j], i)
       /\ \A m \in (j + 1)..(n - 1) : ~IsRequest(q[m], i)
       => q[j].flow = f
  /\ (\A m \in 1..(n - 1) : ~IsRequest(q[m], i)) => g \in {f, NULL}

CompactedInTime ==
  \A k \in 1..Len(fwd) : \A i \in Ids : \A f \in Flows :
    fwd[k] = Pkt("CPKT", i, f) => WillBe(fwd, rflow[i].flow, i, k, f)

OwnersInTime ==
  \A i \in Ids : \A f \in Flows :
    sflow_rindex[i] = f => WillBe(fwd, rflow[i].flow, i, Len(fwd) + 1, f)

ReliableInv == failed = "no" => CompactedInTime /\ OwnersInTime

\* A link that is quick, whatever it loses or repeats, or that is reliable,
\* however long it takes.
QuickOrReliable == "delays" \in link => link = {"delays"}

RestoreInv ==
  /\ QuickOrReliable => RightFlow
  /\ "delays" \notin link => QuickInv
  /\ link = {"delays"} => ReliableInv

IInv == TablesInv /\ RestoreInv

-----------------------------------------------------------------------------
(* The tables are kept. *)

LEMMA SendType ==
  ASSUME TypeOK, NEW pkts \in Seq(Pkts), Send(pkts)
  PROVE  fwd' \in Seq(Pkts)
BY ConcatProperties DEF TypeOK, Send

LEMMA PktType ==
  ASSUME NEW type \in {"IP", "REQ", "CPKT"}, NEW i \in Ids, NEW f \in Flows
  PROVE  Pkt(type, i, f) \in Pkts
BY DEF Pkt, Pkts

LEMMA IdsType == 0 \in Ids /\ Ids \subseteq Nat
BY ConstantsAssumption DEF Ids

LEMMA PlainType ==
  ASSUME NEW f \in Flows
  PROVE  Plain(f) \in Pkts /\ <<Plain(f)>> \in Seq(Pkts)
<1>1. Plain(f) \in Pkts
  BY PktType, IdsType DEF Plain
<1> QED BY <1>1

LEMMA TimeoutType == SOFT_TIMEOUT \in 0..SOFT_TIMEOUT /\ SOFT_TIMEOUT > 0
BY ConstantsAssumption

\* What the channel leaves of a queue.
LEMMA TakenType ==
  ASSUME NEW S, NEW chan \in Seq(S), chan # <<>>, NEW rest \in Taken(chan)
  PROVE  rest \in Seq(S) /\ (rest = chan \/ rest = Tail(chan))
BY HeadTailProperties DEF Taken

\* The id at the head of the pool is nobody's.
LEMMA HeadIsFree ==
  ASSUME TablesInv, free # <<>>
  PROVE  /\ Head(free) \in Ids
         /\ sflow_rindex[Head(free)] = NULL
         /\ \A f \in Flows : Known(f) => sflow[f].fid # Head(free)
<1>1. Head(free) \in Ids /\ Len(free) >= 1 /\ Head(free) = free[1]
  BY HeadTailProperties, EmptySeq DEF TablesInv, TypeOK
<1>2. 1 \in 1..Len(free)
  BY <1>1, LenProperties DEF TablesInv, TypeOK
<1>3. sflow_rindex[Head(free)] = NULL
  BY <1>1, <1>2 DEF TablesInv, TablesAgree
<1> QED BY <1>1, <1>3, ConstantsAssumption DEF TablesInv, TablesAgree

\* Taking the id at the head leaves the others.
LEMMA TailIsRest ==
  ASSUME TablesInv, free # <<>>, free' = Tail(free)
  PROVE  /\ free' \in Seq(Ids)
         /\ FreeOnce'
         /\ \A i \in Ids : (\E k \in 1..Len(free') : free'[k] = i)
              <=> (\E k \in 1..Len(free) : free[k] = i) /\ i # Head(free)
<1>1. /\ free \in Seq(Ids) /\ Len(free) \in Nat /\ Len(free) >= 1
      /\ Head(free) = free[1]
  BY LenProperties, EmptySeq DEF TablesInv, TypeOK
<1>2. /\ free' \in Seq(Ids) /\ Len(free') = Len(free) - 1
      /\ \A k \in 1..Len(free') : free'[k] = free[k + 1]
  BY <1>1, HeadTailProperties
<1>3. FreeOnce'
  <2> SUFFICES ASSUME NEW j \in 1..Len(free'), NEW k \in 1..Len(free'),
                      free'[j] = free'[k]
               PROVE  j = k
    BY DEF FreeOnce
  <2>1. j + 1 \in 1..Len(free) /\ k + 1 \in 1..Len(free)
    BY <1>1, <1>2
  <2>2. free[j + 1] = free[k + 1]
    BY <1>2
  <2>3. j + 1 = k + 1
    BY <2>1, <2>2 DEF TablesInv, FreeOnce
  <2> QED BY <1>1, <1>2, <2>3
<1>4. ASSUME NEW i \in Ids
      PROVE  (\E k \in 1..Len(free') : free'[k] = i)
              <=> (\E k \in 1..Len(free) : free[k] = i) /\ i # Head(free)
  <2>1. ASSUME NEW k \in 1..Len(free'), free'[k] = i
        PROVE  (\E j \in 1..Len(free) : free[j] = i) /\ i # Head(free)
    <3>1. k + 1 \in 1..Len(free) /\ free[k + 1] = i /\ k + 1 # 1
      BY <1>1, <1>2, <2>1
    <3>2. 1 \in 1..Len(free)
      BY <1>1
    <3> QED BY <1>1, <3>1, <3>2 DEF TablesInv, FreeOnce
  <2>2. ASSUME NEW k \in 1..Len(free), free[k] = i, i # Head(free)
        PROVE  \E j \in 1..Len(free') : free'[j] = i
    <3>1. k # 1
      BY <1>1, <2>2
    <3>2. k - 1 \in 1..Len(free') /\ free'[k - 1] = free[(k - 1) + 1]
      BY <1>1, <1>2, <3>1
    <3>3. (k - 1) + 1 = k
      OBVIOUS
    <3> QED BY <2>2, <3>2, <3>3
  <2> QED BY <2>1, <2>2
<1> QED BY <1>2, <1>3, <1>4

LEMMA XmitNewTables ==
  ASSUME TablesInv, NEW f \in Flows, XmitNew(f),
         UNCHANGED <<receiverVars, bwd, due>>
  PROVE  TablesInv'
<1> DEFINE fid == Head(free)
<1>1. /\ fid \in Ids /\ sflow_rindex[fid] = NULL
      /\ \A g \in Flows : Known(g) => sflow[g].fid # fid
  BY HeadIsFree DEF XmitNew
<1> HIDE DEF fid
<1>2. /\ sflow' = [sflow EXCEPT ![f] = [state |-> "PENDING", fid |-> fid,
                                        soft_timeout |-> SOFT_TIMEOUT]]
      /\ sflow_rindex' = [sflow_rindex EXCEPT ![fid] = f]
      /\ Send(<<Request(f, fid), Plain(f)>>)
      /\ ~Known(f)
  BY DEF XmitNew, BuildSflow, fid
<1>3. /\ free' \in Seq(Ids) /\ FreeOnce'
      /\ \A i \in Ids : (\E k \in 1..Len(free') : free'[k] = i)
              <=> (\E k \in 1..Len(free) : free[k] = i) /\ i # fid
  BY TailIsRest DEF XmitNew, fid
<1>4. TypeOK'
  <2>1. <<Request(f, fid), Plain(f)>> \in Seq(Pkts)
    BY <1>1, PktType, PlainType DEF Request
  <2>2. fwd' \in Seq(Pkts)
    BY <1>2, <2>1, SendType DEF TablesInv
  <2>3. sflow' \in [Flows -> [state : {"NONE", "PENDING", "ESTABLISHED"},
                          fid : Ids, soft_timeout : 0..SOFT_TIMEOUT]]
    BY <1>1, <1>2, ConstantsAssumption DEF TablesInv, TypeOK
  <2>4. sflow_rindex' \in [Ids -> Flows \cup {NULL}]
    BY <1>1, <1>2 DEF TablesInv, TypeOK
  <2> QED BY <1>3, <2>2, <2>3, <2>4 DEF TablesInv, TypeOK, receiverVars
<1>5. TablesAgree'
  <2> SUFFICES ASSUME NEW i \in Ids
               PROVE  /\ \A g \in Flows : sflow_rindex'[i] = g
                                    <=> Known(g)' /\ sflow'[g].fid = i
                      /\ sflow_rindex'[i] = NULL
                           <=> \E k \in 1..Len(free') : free'[k] = i
    BY DEF TablesAgree
  <2>1. CASE i = fid
    BY <1>1, <1>2, <1>3, <2>1, ConstantsAssumption
       DEF TablesInv, TypeOK, TablesAgree, Known
  <2>2. CASE i # fid
    <3>1. sflow_rindex'[i] = sflow_rindex[i]
      BY <1>2, <2>2 DEF TablesInv, TypeOK
    <3>2. ASSUME NEW g \in Flows
          PROVE  Known(g)' /\ sflow'[g].fid = i <=> Known(g) /\ sflow[g].fid = i
      <4>1. CASE g = f
        BY <1>2, <2>2, <4>1 DEF TablesInv, TypeOK, Known
      <4>2. CASE g # f
        BY <1>2, <4>2 DEF TablesInv, TypeOK, Known
      <4> QED BY <4>1, <4>2
    <3> QED BY <1>3, <2>2, <3>1, <3>2 DEF TablesInv, TablesAgree
  <2> QED BY <2>1, <2>2
<1> QED BY <1>3, <1>4, <1>5 DEF TablesInv, Blank, receiverVars

\* A step that changes no id and no flow's being known keeps the indexes.
LEMMA SameOwners ==
  ASSUME TablesInv, UNCHANGED <<sflow_rindex, free>>,
         \A f \in Flows : /\ Known(f)' <=> Known(f)
                          /\ sflow'[f].fid = sflow[f].fid
  PROVE  TablesAgree' /\ FreeOnce'
BY DEF TablesInv, TablesAgree, FreeOnce

LEMMA TouchTables ==
  ASSUME TablesInv, NEW f \in Flows, Touch(f),
         UNCHANGED <<sflow_rindex, free, receiverVars, bwd, due>>,
         fwd' \in Seq(Pkts)
  PROVE  TablesInv'
<1>1. sflow' = [sflow EXCEPT ![f].soft_timeout = SOFT_TIMEOUT]
  BY DEF Touch
<1>2. \A g \in Flows : /\ sflow'[g].state = sflow[g].state
                       /\ sflow'[g].fid = sflow[g].fid
  BY <1>1 DEF TablesInv, TypeOK
<1>3. TablesAgree' /\ FreeOnce'
  BY <1>2, SameOwners DEF Known
<1>4. sflow' \in [Flows -> [state : {"NONE", "PENDING", "ESTABLISHED"},
                          fid : Ids, soft_timeout : 0..SOFT_TIMEOUT]]
  BY <1>1, TimeoutType DEF TablesInv, TypeOK
<1>5. TypeOK'
  BY <1>4 DEF TablesInv, TypeOK, receiverVars
<1> QED BY <1>3, <1>5 DEF TablesInv, Blank, receiverVars

LEMMA XmitCompressTables ==
  ASSUME TablesInv, NEW f \in Flows, XmitCompress(f)
  PROVE  TablesInv'
<1>1. CASE XmitNew(f)
  BY <1>1, XmitNewTables DEF XmitCompress
<1>2. CASE XmitPending(f)
  <2>1. fwd' \in Seq(Pkts)
    BY <1>2, SendType, PlainType DEF XmitPending, TablesInv
  <2> QED BY <1>2, <2>1, TouchTables DEF XmitCompress, XmitPending
<1>3. CASE XmitEstablished(f)
  <2>1. Compacted(f) \in Pkts
    BY PktType DEF Compacted, TablesInv, TypeOK
  <2>3. <<Compacted(f)>> \in Seq(Pkts)
    BY <2>1
  <2>2. fwd' \in Seq(Pkts)
    BY <1>3, <2>3, SendType DEF XmitEstablished, TablesInv
  <2> QED BY <1>3, <2>2, TouchTables DEF XmitCompress, XmitEstablished
<1> QED BY <1>1, <1>2, <1>3 DEF XmitCompress

LEMMA XmitUntouchedTables ==
  ASSUME TablesInv, NEW f \in Flows, XmitUntouched(f)
  PROVE  TablesInv'
<1>1. fwd' \in Seq(Pkts)
  BY SendType, PlainType DEF XmitUntouched, TablesInv
<1>2. TypeOK'
  BY <1>1 DEF XmitUntouched, TablesInv, TypeOK, senderVars, receiverVars
<1>3. TablesAgree' /\ FreeOnce' /\ Blank'
  BY DEF XmitUntouched, TablesInv, TablesAgree, FreeOnce, Blank, Known,
         senderVars, receiverVars
<1> QED BY <1>2, <1>3 DEF TablesInv

\* What an acknowledgement changes: the state of the flow that has the id.
LEMMA Establishes ==
  ASSUME TablesInv, NEW i \in Ids, Establish(i)
  PROVE  /\ sflow' \in [Flows -> [state : {"NONE", "PENDING", "ESTABLISHED"},
                          fid : Ids, soft_timeout : 0..SOFT_TIMEOUT]]
         /\ \A f \in Flows :
              /\ Known(f)' <=> Known(f)
              /\ sflow'[f].fid = sflow[f].fid
              /\ sflow'[f].soft_timeout = sflow[f].soft_timeout
              /\ sflow'[f].state # sflow[f].state =>
                   sflow_rindex[i] = f /\ sflow[f].fid = i
<1>1. CASE sflow_rindex[i] = NULL
  BY <1>1 DEF Establish, TablesInv, TypeOK, Known
<1>2. CASE sflow_rindex[i] # NULL
  <2> DEFINE g == sflow_rindex[i]
  <2>1. g \in Flows /\ Known(g) /\ sflow[g].fid = i
    BY <1>2 DEF TablesInv, TypeOK, TablesAgree
  <2>2. sflow' = [sflow EXCEPT ![g].state = "ESTABLISHED"]
    BY <1>2 DEF Establish
  <2> HIDE DEF g
  <2>3. \A f \in Flows : sflow'[f] = IF f = g
                         THEN [sflow[f] EXCEPT !.state = "ESTABLISHED"]
                         ELSE sflow[f]
    BY <2>1, <2>2 DEF TablesInv, TypeOK
  <2>4. sflow_rindex[i] = g
    BY DEF g
  <2> QED BY <2>1, <2>2, <2>3, <2>4 DEF TablesInv, TypeOK, Known
<1> QED BY <1>1, <1>2

\* The acknowledgement that is taken, and what the channel keeps.
LEMMA AckTaken ==
  ASSUME TablesInv, RecvAck
  PROVE  /\ Len(bwd) >= 1 /\ Head(bwd) = bwd[1] /\ Head(bwd) \in Ids
         /\ bwd' \in Seq(Ids)
         /\ bwd' = bwd \/ bwd' = Tail(bwd)
<1>1. bwd \in Seq(Ids) /\ bwd # <<>> /\ bwd' \in Taken(bwd)
  BY DEF RecvAck, TablesInv, TypeOK
<1> QED BY <1>1, HeadTailProperties, EmptySeq, TakenType

LEMMA RecvAckTables ==
  ASSUME TablesInv, RecvAck
  PROVE  TablesInv'
<1>1. Head(bwd) \in Ids /\ bwd' \in Seq(Ids)
  BY AckTaken
<1>2. Establish(Head(bwd)) /\ UNCHANGED <<sflow_rindex, free>>
  BY DEF RecvAck
<1>3. TablesAgree' /\ FreeOnce'
  BY <1>1, <1>2, Establishes, SameOwners
<1>4. TypeOK'
  BY <1>1, <1>2, Establishes DEF RecvAck, TablesInv, TypeOK, receiverVars
<1> QED BY <1>3, <1>4 DEF RecvAck, TablesInv, Blank, receiverVars

\* The packet that is received, and what the channel keeps.
LEMMA PktTaken ==
  ASSUME TablesInv, RecvCompress
  PROVE  /\ Len(fwd) >= 1 /\ Head(fwd) = fwd[1] /\ Head(fwd) \in Pkts
         /\ fwd' \in Seq(Pkts)
         /\ fwd' = fwd \/ fwd' = Tail(fwd)
<1>1. fwd \in Seq(Pkts) /\ fwd # <<>> /\ fwd' \in Taken(fwd)
  BY DEF RecvCompress, TablesInv, TypeOK
<1> QED BY <1>1, HeadTailProperties, EmptySeq, TakenType

\* What receiving a packet does to the flows of the receiving node: a request
\* that is accepted sets one, a compacted packet restarts the clock of one.
LEMMA Received ==
  ASSUME TablesInv, RecvCompress
  PROVE  LET p == Head(fwd) IN
         \/ /\ p.type = "REQ" /\ failed' = "no" /\ bwd' = Append(bwd, p.fid)
            /\ rflow[p.fid] = NoRflow
            /\ BuildRflow(p) /\ UNCHANGED <<delivered, due>>
         \/ /\ p.type = "CPKT" /\ failed' = "no" /\ bwd' = bwd
            /\ rflow[p.fid] # NoRflow
            /\ rflow' = [rflow EXCEPT ![p.fid].soft_timeout = SOFT_TIMEOUT]
            /\ delivered' = delivered \cup {<<p.flow, rflow[p.fid].flow>>}
            /\ UNCHANGED due
         \/ /\ p.type = "IP" /\ failed' = "no"
            /\ delivered' = delivered \cup {<<p.flow, p.flow>>}
            /\ UNCHANGED <<bwd, rflow, due>>
         \/ /\ failed' \in {"assert(!rflow)", "assert(rflow)"}
            /\ due' = due \ {"rcv"}
            /\ UNCHANGED <<rflow, delivered, bwd>>
BY DEF RecvCompress, RecvIp, RecvReq, RecvCpkt, Stop

LEMMA RecvCompressTables ==
  ASSUME TablesInv, RecvCompress
  PROVE  TablesInv'
<1> DEFINE p == Head(fwd)
<1>1. /\ p \in Pkts /\ fwd' \in Seq(Pkts)
      /\ UNCHANGED senderVars
  BY PktTaken DEF RecvCompress
<1>2. TablesAgree' /\ FreeOnce'
  BY <1>1 DEF senderVars, TablesInv, TablesAgree, FreeOnce, Known
<1>3. p.fid \in Ids /\ p.flow \in Flows
  BY <1>1 DEF Pkts
<1> HIDE DEF p
<1>4. CASE /\ p.type = "REQ" /\ failed' = "no" /\ bwd' = Append(bwd, p.fid)
           /\ BuildRflow(p) /\ UNCHANGED <<delivered, due>>
  <2>1. bwd' \in Seq(Ids)
    BY <1>3, <1>4, AppendProperties DEF TablesInv, TypeOK
  <2>2. rflow' = [rflow EXCEPT ![p.fid] = [flow |-> p.flow,
                                           soft_timeout |-> SOFT_TIMEOUT]]
    BY <1>4 DEF BuildRflow
  <2>3. TypeOK'
    BY <1>1, <1>3, <1>4, <2>1, <2>2, ConstantsAssumption
       DEF TablesInv, TypeOK, senderVars
  <2>4. Blank'
    BY <1>3, <2>2, ConstantsAssumption DEF TablesInv, TypeOK, Blank
  <2> QED BY <1>2, <2>3, <2>4 DEF TablesInv
<1>5. CASE /\ p.type = "CPKT" /\ failed' = "no" /\ bwd' = bwd
           /\ rflow[p.fid] # NoRflow
           /\ rflow' = [rflow EXCEPT ![p.fid].soft_timeout = SOFT_TIMEOUT]
           /\ delivered' = delivered \cup {<<p.flow, rflow[p.fid].flow>>}
           /\ UNCHANGED due
  <2>1. rflow[p.fid].flow \in Flows
    BY <1>3, <1>5 DEF TablesInv, TypeOK, Blank
  <2>2. rflow' \in [Ids -> [flow : Flows \cup {NULL},
                            soft_timeout : 0..SOFT_TIMEOUT]]
    BY <1>3, <1>5, TimeoutType DEF TablesInv, TypeOK
  <2>3. delivered' \subseteq Flows \X Flows
    BY <1>3, <1>5, <2>1 DEF TablesInv, TypeOK
  <2>4. TypeOK'
    BY <1>1, <1>5, <2>2, <2>3 DEF TablesInv, TypeOK, senderVars
  <2>5. \A i \in Ids : rflow'[i] = rflow[i] \/ rflow'[i].flow \in Flows
    BY <1>3, <1>5, <2>1 DEF TablesInv, TypeOK
  <2>6. Blank'
    BY <2>5, ConstantsAssumption DEF TablesInv, Blank
  <2> QED BY <1>2, <2>4, <2>6 DEF TablesInv
<1>6. CASE /\ p.type = "IP" /\ failed' = "no"
           /\ delivered' = delivered \cup {<<p.flow, p.flow>>}
           /\ UNCHANGED <<bwd, rflow, due>>
  <2>1. TypeOK'
    BY <1>1, <1>3, <1>6 DEF TablesInv, TypeOK, senderVars
  <2> QED BY <1>2, <1>6, <2>1 DEF TablesInv, Blank
<1>7. CASE /\ failed' \in {"assert(!rflow)", "assert(rflow)"}
           /\ due' = due \ {"rcv"}
           /\ UNCHANGED <<rflow, delivered, bwd>>
  <2>1. TypeOK'
    BY <1>1, <1>7 DEF TablesInv, TypeOK, senderVars
  <2> QED BY <1>2, <1>7, <2>1 DEF TablesInv, Blank
<1> QED BY <1>4, <1>5, <1>6, <1>7, Received DEF p

LEMMA LoseTables ==
  ASSUME TablesInv, LoseFwd \/ LoseBwd
  PROVE  TablesInv'
<1>1. fwd \in Seq(Pkts) /\ bwd \in Seq(Ids)
  BY DEF TablesInv, TypeOK
<1>2. fwd' \in Seq(Pkts) /\ bwd' \in Seq(Ids)
  <2>1. CASE LoseFwd
    BY <1>1, <2>1, HeadTailProperties DEF LoseFwd
  <2>2. CASE LoseBwd
    BY <1>1, <2>2, HeadTailProperties DEF LoseBwd
  <2> QED BY <2>1, <2>2
<1>3. UNCHANGED <<sflow, sflow_rindex, free, rflow, due, delivered, failed>>
  BY DEF LoseFwd, LoseBwd, senderVars, receiverVars
<1>4. TypeOK'
  BY <1>2, <1>3 DEF TablesInv, TypeOK
<1>5. TablesAgree' /\ FreeOnce' /\ Blank'
  BY <1>3 DEF TablesInv, TablesAgree, FreeOnce, Blank, Known
<1> QED BY <1>4, <1>5 DEF TablesInv

LEMMA TickTables ==
  ASSUME TablesInv, Tick
  PROVE  TablesInv'
<1>1. \A n \in 0..SOFT_TIMEOUT : Elapsed(n) \in 0..SOFT_TIMEOUT
  BY ConstantsAssumption DEF Elapsed
<1>2. Elapsed(0) = 0
  BY DEF Elapsed
<1>3. /\ sflow' = [f \in Flows |-> [sflow[f] EXCEPT !.soft_timeout = Elapsed(@)]]
      /\ rflow' = [i \in Ids |-> [rflow[i] EXCEPT !.soft_timeout = Elapsed(@)]]
  BY DEF Tick
<1>4. \A f \in Flows : /\ sflow'[f].state = sflow[f].state
                       /\ sflow'[f].fid = sflow[f].fid
  BY <1>3 DEF TablesInv, TypeOK
<1>5. TablesAgree' /\ FreeOnce'
  BY <1>4, SameOwners DEF Tick, Known
<1>6. sflow' \in [Flows -> [state : {"NONE", "PENDING", "ESTABLISHED"},
                          fid : Ids, soft_timeout : 0..SOFT_TIMEOUT]]
  BY <1>1, <1>3 DEF TablesInv, TypeOK
<1>7. rflow' \in [Ids -> [flow : Flows \cup {NULL},
                          soft_timeout : 0..SOFT_TIMEOUT]]
  BY <1>1, <1>3 DEF TablesInv, TypeOK
<1>8. TypeOK'
  BY <1>6, <1>7 DEF Tick, TablesInv, TypeOK, Nodes
<1>9. ASSUME NEW i \in Ids, rflow'[i].flow = NULL
      PROVE  rflow'[i] = NoRflow
  <2>1. rflow'[i] = [rflow[i] EXCEPT !.soft_timeout = Elapsed(@)]
    BY <1>3
  <2>2. rflow[i].flow = NULL
    BY <1>9, <2>1 DEF TablesInv, TypeOK
  <2>3. rflow[i] = NoRflow
    BY <2>2 DEF TablesInv, Blank
  <2> QED BY <1>2, <2>1, <2>3 DEF NoRflow
<1> QED BY <1>5, <1>8, <1>9 DEF TablesInv, Blank

LEMMA ReceiverTimerTables ==
  ASSUME TablesInv, ReceiverTimer
  PROVE  TablesInv'
<1>1. NoRflow \in [flow : Flows \cup {NULL}, soft_timeout : 0..SOFT_TIMEOUT]
  BY ConstantsAssumption DEF NoRflow
<1>2. TypeOK' /\ Blank'
  BY <1>1 DEF ReceiverTimer, TablesInv, TypeOK, Blank, senderVars, NoRflow
<1> QED BY <1>2 DEF ReceiverTimer, TablesInv, TablesAgree, FreeOnce, Known,
             senderVars

-----------------------------------------------------------------------------
(* The timer of the sending node gives ids back. *)

\* The ids that a walk of the table gives back: those of the expired flows,
\* each once, none of which was free.
LEMMA WalkIds ==
  TablesInv => \A w \in Walks(Expired) :
         LET s == [i \in DOMAIN w |-> sflow[w[i]].fid]
             n == Cardinality(Expired)
             S == {sflow[f].fid : f \in Expired}
         IN /\ n \in Nat /\ n = Cardinality(S)
            /\ s \in Seq(Ids) /\ Len(s) = n /\ s \in [1..n -> S]
            /\ \A i \in S : \E j \in 1..n : s[j] = i
            /\ \A j, k \in 1..n : s[j] = s[k] => j = k
            /\ \A j \in 1..n : sflow_rindex[s[j]] # NULL
<1> SUFFICES ASSUME TablesInv, NEW w \in Walks(Expired)
             PROVE  LET s == [i \in DOMAIN w |-> sflow[w[i]].fid]
                        n == Cardinality(Expired)
                        S == {sflow[f].fid : f \in Expired}
                    IN /\ n \in Nat /\ n = Cardinality(S)
                       /\ s \in Seq(Ids) /\ Len(s) = n /\ s \in [1..n -> S]
                       /\ \A i \in S : \E j \in 1..n : s[j] = i
                       /\ \A j, k \in 1..n : s[j] = s[k] => j = k
                       /\ \A j \in 1..n : sflow_rindex[s[j]] # NULL
  OBVIOUS
<1> DEFINE s == [i \in DOMAIN w |-> sflow[w[i]].fid]
           n == Cardinality(Expired)
           S == {sflow[f].fid : f \in Expired}
<1>1. IsFiniteSet(Expired)
  BY FS_Subset, ConstantsAssumption DEF Expired
<1>2. n \in Nat
  BY <1>1, FS_CardinalityType
<1>3. w \in [1..n -> Expired] /\ \A f \in Expired : \E i \in DOMAIN w : w[i] = f
  BY DEF Walks
<1> HIDE DEF n
<1>4. DOMAIN w = 1..n
  BY <1>3
<1>5. w \in Surjection(1..n, Expired)
  BY <1>3, <1>4 DEF Surjection
<1>6. IsFiniteSet(1..n) /\ Cardinality(1..n) = n
  BY <1>2, FS_Interval
<1>7. w \in Injection(1..n, Expired)
  BY <1>5, <1>6, FS_SurjSameCardinalityImpliesInj DEF n
<1>8. \A j, k \in 1..n : w[j] = w[k] => j = k
  BY <1>7 DEF Injection, IsInjective
<1>9. \A f, g \in Expired : sflow[f].fid = sflow[g].fid => f = g
  BY DEF Expired, TablesInv, TypeOK, TablesAgree
<1>10. \A f \in Expired : sflow[f].fid \in Ids /\ sflow_rindex[sflow[f].fid] = f
  BY DEF Expired, TablesInv, TypeOK, TablesAgree
<1>11. s \in [1..n -> S] /\ \A j \in 1..n : s[j] = sflow[w[j]].fid
  BY <1>3, <1>4
<1> HIDE DEF s
<1>12. \A j, k \in 1..n : s[j] = s[k] => j = k
  BY <1>3, <1>8, <1>9, <1>11
<1>13. \A i \in S : \E j \in 1..n : s[j] = i
  BY <1>3, <1>4, <1>11
<1>14. S \subseteq Ids
  BY <1>10
<1>15. s \in Seq(Ids) /\ Len(s) = n
  BY <1>2, <1>11, <1>14
<1>16. \A j \in 1..n : sflow_rindex[s[j]] # NULL
  BY <1>3, <1>10, <1>11, ConstantsAssumption DEF Expired
<1> HIDE DEF S
<1>17. Cardinality(S) = n
  <2>1. s \in Bijection(1..n, S)
    BY <1>11, <1>12, <1>13 DEF Bijection, Injection, Surjection, IsInjective
  <2>2. ExistsBijection(1..n, S)
    BY <2>1 DEF ExistsBijection
  <2> QED BY <1>2, <2>2, FS_CountingElements
<1> QED BY <1>2, <1>11, <1>12, <1>13, <1>15, <1>16, <1>17 DEF n, s, S

\* Appending ids that are not free keeps the pool without duplicates.
LEMMA FreeAppended ==
  ASSUME TablesInv, NEW s \in Seq(Ids), free' = free \o s,
         \A j, k \in 1..Len(s) : s[j] = s[k] => j = k,
         \A j \in 1..Len(s) : sflow_rindex[s[j]] # NULL
  PROVE  /\ free' \in Seq(Ids)
         /\ FreeOnce'
         /\ \A i \in Ids : (\E k \in 1..Len(free') : free'[k] = i)
              <=> \/ \E k \in 1..Len(free) : free[k] = i
                  \/ \E k \in 1..Len(s) : s[k] = i
<1>1. free \in Seq(Ids) /\ Len(free) \in Nat /\ Len(s) \in Nat
  BY LenProperties DEF TablesInv, TypeOK
<1>2. /\ free' \in Seq(Ids) /\ Len(free') = Len(free) + Len(s)
      /\ \A k \in 1..(Len(free) + Len(s)) :
           free'[k] = IF k <= Len(free) THEN free[k] ELSE s[k - Len(free)]
  BY <1>1, ConcatProperties
<1>3. \A k \in 1..Len(free) : free[k] \in Ids /\ sflow_rindex[free[k]] = NULL
  BY <1>1, ElementOfSeq DEF TablesInv, TablesAgree
<1>4. FreeOnce'
  <2> SUFFICES ASSUME NEW j \in 1..Len(free'), NEW k \in 1..Len(free'),
                      free'[j] = free'[k]
               PROVE  j = k
    BY DEF FreeOnce
  <2>1. CASE j <= Len(free) /\ k <= Len(free)
    BY <1>1, <1>2, <2>1 DEF TablesInv, FreeOnce
  <2>2. CASE j <= Len(free) /\ k > Len(free)
    <3>1. j \in 1..Len(free) /\ k - Len(free) \in 1..Len(s)
      BY <1>1, <1>2, <2>2
    <3>2. free'[j] = free[j] /\ free'[k] = s[k - Len(free)]
      BY <1>1, <1>2, <2>2
    <3>3. sflow_rindex[free[j]] = NULL /\ sflow_rindex[s[k - Len(free)]] # NULL
      BY <1>3, <3>1
    <3> QED BY <3>2, <3>3
  <2>3. CASE j > Len(free) /\ k <= Len(free)
    <3>1. k \in 1..Len(free) /\ j - Len(free) \in 1..Len(s)
      BY <1>1, <1>2, <2>3
    <3>2. free'[k] = free[k] /\ free'[j] = s[j - Len(free)]
      BY <1>1, <1>2, <2>3
    <3> QED BY <1>3, <3>1, <3>2
  <2>4. CASE j > Len(free) /\ k > Len(free)
    <3>1. k - Len(free) \in 1..Len(s) /\ j - Len(free) \in 1..Len(s)
      BY <1>1, <1>2, <2>4
    <3>2. free'[k] = s[k - Len(free)] /\ free'[j] = s[j - Len(free)]
      BY <1>1, <1>2, <2>4
    <3>3. j - Len(free) = k - Len(free)
      BY <3>1, <3>2
    <3> QED BY <1>1, <1>2, <3>3
  <2> QED BY <1>1, <1>2, <2>1, <2>2, <2>3, <2>4
<1>5. ASSUME NEW i \in Ids
      PROVE  (\E k \in 1..Len(free') : free'[k] = i)
              <=> \/ \E k \in 1..Len(free) : free[k] = i
                  \/ \E k \in 1..Len(s) : s[k] = i
  <2>1. ASSUME NEW k \in 1..Len(free'), free'[k] = i
        PROVE  \/ \E j \in 1..Len(free) : free[j] = i
               \/ \E j \in 1..Len(s) : s[j] = i
    <3>1. CASE k <= Len(free)
      BY <1>1, <1>2, <2>1, <3>1
    <3>2. CASE k > Len(free)
      <4>1. k - Len(free) \in 1..Len(s) /\ free'[k] = s[k - Len(free)]
        BY <1>1, <1>2, <3>2
      <4> QED BY <2>1, <4>1
    <3> QED BY <1>1, <1>2, <3>1, <3>2
  <2>2. ASSUME NEW k \in 1..Len(free), free[k] = i
        PROVE  \E j \in 1..Len(free') : free'[j] = i
    BY <1>1, <1>2, <2>2
  <2>3. ASSUME NEW k \in 1..Len(s), s[k] = i
        PROVE  \E j \in 1..Len(free') : free'[j] = i
    <3>1. /\ k + Len(free) \in 1..Len(free')
          /\ free'[k + Len(free)] = s[(k + Len(free)) - Len(free)]
      BY <1>1, <1>2
    <3>2. (k + Len(free)) - Len(free) = k
      BY <1>1
    <3> QED BY <2>3, <3>1, <3>2
  <2> QED BY <2>1, <2>2, <2>3
<1> QED BY <1>2, <1>4, <1>5

LEMMA SenderTimerTables ==
  ASSUME TablesInv, SenderTimer
  PROVE  TablesInv'
<1>1. PICK w \in Walks(Expired) :
             free' = free \o [i \in DOMAIN w |-> sflow[w[i]].fid]
  BY DEF SenderTimer
<1> DEFINE s == [i \in DOMAIN w |-> sflow[w[i]].fid]
           n == Cardinality(Expired)
           S == {sflow[f].fid : f \in Expired}
<1>2. /\ n \in Nat /\ s \in Seq(Ids) /\ Len(s) = n /\ s \in [1..n -> S]
      /\ \A i \in S : \E j \in 1..n : s[j] = i
      /\ \A j, k \in 1..n : s[j] = s[k] => j = k
      /\ \A j \in 1..n : sflow_rindex[s[j]] # NULL
  BY WalkIds
<1>3. free' = free \o s
  BY <1>1
<1> HIDE DEF s, n
<1>4. /\ free' \in Seq(Ids) /\ FreeOnce'
      /\ \A i \in Ids : (\E k \in 1..Len(free') : free'[k] = i)
              <=> \/ \E k \in 1..Len(free) : free[k] = i
                  \/ \E k \in 1..Len(s) : s[k] = i
  BY <1>2, <1>3, FreeAppended
<1>5. \A i \in Ids : (\E k \in 1..Len(s) : s[k] = i)
                       <=> \E f \in Expired : sflow[f].fid = i
  BY <1>2
<1>6. /\ sflow' = [f \in Flows |-> IF f \in Expired THEN NoSflow ELSE sflow[f]]
      /\ sflow_rindex' = [i \in Ids |-> IF \E f \in Expired : sflow[f].fid = i
                                        THEN NULL ELSE sflow_rindex[i]]
  BY DEF SenderTimer
<1>7. NoSflow \in [state : {"NONE", "PENDING", "ESTABLISHED"},
                   fid : Ids, soft_timeout : 0..SOFT_TIMEOUT]
  BY IdsType, ConstantsAssumption DEF NoSflow
<1>8. TypeOK'
  <2>1. sflow' \in [Flows -> [state : {"NONE", "PENDING", "ESTABLISHED"},
                          fid : Ids, soft_timeout : 0..SOFT_TIMEOUT]]
    BY <1>6, <1>7 DEF TablesInv, TypeOK
  <2>2. sflow_rindex' \in [Ids -> Flows \cup {NULL}]
    BY <1>6 DEF TablesInv, TypeOK
  <2>3. due' \subseteq Nodes
    BY DEF SenderTimer, TablesInv, TypeOK
  <2> QED BY <1>4, <2>1, <2>2, <2>3
          DEF SenderTimer, TablesInv, TypeOK, receiverVars
<1>9. ASSUME NEW i \in Ids, NEW f \in Flows
      PROVE  sflow_rindex'[i] = f <=> Known(f)' /\ sflow'[f].fid = i
  <2>1. Known(f)' <=> f \notin Expired /\ Known(f)
    BY <1>6 DEF Known, NoSflow
  <2>2. f \notin Expired => sflow'[f] = sflow[f]
    BY <1>6
  <2>3. sflow_rindex[i] = f <=> Known(f) /\ sflow[f].fid = i
    BY DEF TablesInv, TablesAgree
  <2>4. \A g \in Expired : sflow[g].fid = i => sflow_rindex[i] = g
    BY DEF Expired, TablesInv, TablesAgree
  <2>5. CASE \E g \in Expired : sflow[g].fid = i
    BY <1>6, <2>1, <2>2, <2>3, <2>4, <2>5, ConstantsAssumption
  <2>6. CASE ~\E g \in Expired : sflow[g].fid = i
    BY <1>6, <2>1, <2>2, <2>3, <2>6
  <2> QED BY <2>5, <2>6
<1>10. ASSUME NEW i \in Ids
       PROVE  sflow_rindex'[i] = NULL <=> \E k \in 1..Len(free') : free'[k] = i
  <2>1. sflow_rindex[i] = NULL <=> \E k \in 1..Len(free) : free[k] = i
    BY DEF TablesInv, TablesAgree
  <2> QED BY <1>4, <1>5, <1>6, <2>1
<1>11. TablesAgree'
  BY <1>9, <1>10 DEF TablesAgree
<1> QED BY <1>4, <1>8, <1>11 DEF SenderTimer, TablesInv, Blank, receiverVars

LEMMA InitTables == Init => TablesInv
<1> SUFFICES ASSUME Init PROVE TablesInv
  OBVIOUS
<1>1. NoSflow \in [state : {"NONE", "PENDING", "ESTABLISHED"},
                   fid : Ids, soft_timeout : 0..SOFT_TIMEOUT]
  BY IdsType, ConstantsAssumption DEF NoSflow
<1>2. NoRflow \in [flow : Flows \cup {NULL}, soft_timeout : 0..SOFT_TIMEOUT]
  BY ConstantsAssumption DEF NoRflow
<1>3. /\ free \in Seq(Ids) /\ Len(free) = NumIds
      /\ \A k \in 1..NumIds : free[k] = k - 1
  BY ConstantsAssumption DEF Init, Ids
<1>4. TypeOK
  BY <1>1, <1>2, <1>3, EmptySeq DEF Init, TypeOK
<1>5. FreeOnce
  BY <1>3, ConstantsAssumption DEF FreeOnce
<1>6. \A f \in Flows : ~Known(f)
  BY DEF Init, Known, NoSflow
<1>7. ASSUME NEW i \in Ids
      PROVE  \E k \in 1..Len(free) : free[k] = i
  <2>1. i + 1 \in 1..Len(free) /\ free[i + 1] = (i + 1) - 1 /\ (i + 1) - 1 = i
    BY <1>3, ConstantsAssumption DEF Ids
  <2> QED BY <2>1
<1>8. TablesAgree
  BY <1>6, <1>7, ConstantsAssumption DEF Init, TablesAgree
<1>9. Blank
  BY DEF Init, Blank
<1> QED BY <1>4, <1>5, <1>8, <1>9 DEF TablesInv

LEMMA NextTables == TablesInv /\ [Next]_vars => TablesInv'
<1> SUFFICES ASSUME TablesInv, [Next]_vars PROVE TablesInv'
  OBVIOUS
<1>1. CASE UNCHANGED vars
  BY <1>1 DEF vars, nodeVars, TablesInv, TypeOK, TablesAgree, FreeOnce, Blank,
              Known
<1>2. CASE Step
  BY <1>2, XmitCompressTables, XmitUntouchedTables, RecvAckTables,
     RecvCompressTables, LoseTables, TickTables, SenderTimerTables,
     ReceiverTimerTables DEF Step
<1> QED BY <1>1, <1>2 DEF Next

THEOREM TablesInductive == Spec => []TablesInv
BY InitTables, NextTables, PTL DEF Spec

\* Ids, clocks and packets stay in their ranges.
THEOREM TypeCorrect == Spec => []TypeOK
BY TablesInductive, PTL DEF TablesInv

\* Whatever is lost, repeated or late, an id leads to the flow that has it,
\* and to none exactly when it lies in the pool.
THEOREM IndexesAgree == Spec => []TablesAgree
BY TablesInductive, PTL DEF TablesInv

-----------------------------------------------------------------------------
(* The steps of the sending node are steps of the pool.  A packet of a new *)
(* flow takes the id at the head, the timer gives back those of the flows  *)
(* that have expired, and nothing else touches the pool.                   *)

HeldIds == {sflow[f].fid : f \in {g \in Flows : Known(g)}}

PoolStep == [Pool!Next]_<<free, HeldIds>>

\* A step that changes no owner and leaves the pool alone stutters.
LEMMA PoolStutters ==
  ASSUME UNCHANGED free,
         \A f \in Flows : /\ Known(f)' <=> Known(f)
                          /\ sflow'[f].fid = sflow[f].fid
  PROVE  PoolStep
<1>1. HeldIds' = HeldIds
  BY DEF HeldIds
<1> QED BY <1>1 DEF PoolStep

LEMMA TouchStutters ==
  ASSUME TypeOK, NEW f \in Flows, Touch(f), UNCHANGED free
  PROVE  PoolStep
<1>1. \A g \in Flows : /\ sflow'[g].state = sflow[g].state
                       /\ sflow'[g].fid = sflow[g].fid
  BY DEF Touch, TypeOK
<1> QED BY <1>1, PoolStutters DEF Known

LEMMA XmitNewGets ==
  ASSUME TablesInv, NEW f \in Flows, XmitNew(f)
  PROVE  Pool!Get
<1> DEFINE fid == Head(free)
<1>1. fid \in Ids
  BY HeadIsFree DEF XmitNew
<1> HIDE DEF fid
<1>2. /\ sflow' = [sflow EXCEPT ![f] = [state |-> "PENDING", fid |-> fid,
                                        soft_timeout |-> SOFT_TIMEOUT]]
      /\ ~Known(f) /\ free # <<>> /\ free' = Tail(free)
  BY DEF XmitNew, BuildSflow, fid
<1>3. \A g \in Flows : sflow'[g] = IF g = f
                       THEN [state |-> "PENDING", fid |-> fid,
                             soft_timeout |-> SOFT_TIMEOUT]
                       ELSE sflow[g]
  BY <1>2 DEF TablesInv, TypeOK
<1>4. HeldIds' = HeldIds \cup {fid}
  BY <1>2, <1>3 DEF HeldIds, Known
<1> QED BY <1>2, <1>4 DEF Pool!Get, HeldIds, fid

LEMMA SenderTimerReleases ==
  ASSUME TablesInv, SenderTimer
  PROVE  Pool!Release
<1>1. PICK w \in Walks(Expired) :
             free' = free \o [i \in DOMAIN w |-> sflow[w[i]].fid]
  BY DEF SenderTimer
<1> DEFINE s == [i \in DOMAIN w |-> sflow[w[i]].fid]
           n == Cardinality(Expired)
           S == {sflow[f].fid : f \in Expired}
<1>2. /\ n = Cardinality(S) /\ s \in [1..n -> S]
      /\ \A i \in S : \E j \in 1..n : s[j] = i
  BY WalkIds
<1>3. free' = free \o s
  BY <1>1
<1> HIDE DEF s, n
<1>4. s \in Pool!Orders(S)
  <2> HIDE DEF S
  <2>1. DOMAIN s = 1..n
    BY <1>2
  <2>2. s \in [1..Cardinality(S) -> S] /\ \A i \in S : \E j \in DOMAIN s : s[j] = i
    BY <1>2, <2>1
  <2> QED BY <2>2 DEF Pool!Orders, Pool!Cardinality, Cardinality
<1>5. S \in SUBSET HeldIds
  BY DEF HeldIds, Expired
<1>6. \A f \in Flows : Known(f)' <=> Known(f) /\ f \notin Expired
  BY DEF SenderTimer, Known, NoSflow
<1>7. \A f \in Flows : f \notin Expired => sflow'[f] = sflow[f]
  BY DEF SenderTimer
<1>8. \A f, g \in Flows : Known(f) /\ Known(g) /\ sflow[f].fid = sflow[g].fid
                            => f = g
  BY DEF TablesInv, TypeOK, TablesAgree
<1>9. HeldIds' = HeldIds \ S
  <2>1. ASSUME NEW i \in HeldIds'
        PROVE  i \in HeldIds \ S
    <3>1. PICK f \in Flows : Known(f)' /\ sflow'[f].fid = i
      BY <2>1 DEF HeldIds
    <3>2. Known(f) /\ f \notin Expired /\ sflow[f].fid = i
      BY <1>6, <1>7, <3>1
    <3>3. i \notin S
      BY <1>8, <3>2 DEF Expired
    <3> QED BY <3>2, <3>3 DEF HeldIds
  <2>2. ASSUME NEW i \in HeldIds \ S
        PROVE  i \in HeldIds'
    <3>1. PICK f \in Flows : Known(f) /\ sflow[f].fid = i
      BY DEF HeldIds
    <3>2. f \notin Expired
      BY <3>1
    <3>3. Known(f)' /\ sflow'[f].fid = i
      BY <1>6, <1>7, <3>1, <3>2
    <3> QED BY <3>3 DEF HeldIds
  <2> QED BY <2>1, <2>2
<1> HIDE DEF S
<1>10. \E T \in SUBSET HeldIds : \E t \in Pool!Orders(T) :
         /\ free' = free \o t
         /\ HeldIds' = HeldIds \ T
  BY <1>3, <1>4, <1>5, <1>9
<1> QED BY <1>10 DEF Pool!Release, HeldIds

LEMMA NextUsesPool == TablesInv /\ [Next]_vars => PoolStep
<1> SUFFICES ASSUME TablesInv, [Next]_vars PROVE PoolStep
  OBVIOUS
<1> USE DEF Known
<1>1. CASE UNCHANGED vars
  BY <1>1, PoolStutters DEF vars, nodeVars
<1>2. CASE \E f \in Flows : XmitCompress(f)
  <2>1. PICK f \in Flows : XmitCompress(f)
    BY <1>2
  <2>2. CASE XmitNew(f)
    BY <2>2, XmitNewGets DEF PoolStep, Pool!Next
  <2>3. CASE XmitPending(f) \/ XmitEstablished(f)
    BY <2>3, TouchStutters DEF XmitPending, XmitEstablished, TablesInv
  <2> QED BY <2>1, <2>2, <2>3 DEF XmitCompress
<1>3. CASE \/ \E f \in Flows : XmitUntouched(f)
           \/ RecvCompress \/ LoseFwd \/ LoseBwd \/ ReceiverTimer
  BY <1>3, PoolStutters DEF XmitUntouched, RecvCompress, LoseFwd, LoseBwd,
     ReceiverTimer, senderVars
<1>4. CASE RecvAck
  BY <1>4, AckTaken, Establishes, PoolStutters DEF RecvAck
<1>5. CASE Tick
  <2>1. \A f \in Flows : /\ sflow'[f].state = sflow[f].state
                         /\ sflow'[f].fid = sflow[f].fid
    BY <1>5 DEF Tick, TablesInv, TypeOK
  <2> QED BY <1>5, <2>1, PoolStutters DEF Tick
<1>6. CASE SenderTimer
  BY <1>6, SenderTimerReleases DEF PoolStep, Pool!Next
<1> QED BY <1>1, <1>2, <1>3, <1>4, <1>5, <1>6 DEF Next, Step

\* The sending node uses the ids as the pool's promise requires: it gives back
\* only ids that it holds, each once, with any number of flows and of ids.
THEOREM RefinesPool == Spec => UsesPool
<1>1. Init => Pool!Init
  BY DEF Init, Pool!Init, Known, NoSflow
<1>2. PoolStep => [Pool!Next]_<<free, {sflow[f].fid : f \in {g \in Flows : Known(g)}}>>
  BY DEF PoolStep, HeldIds
<1>3. TablesInv /\ [Next]_vars
        => [Pool!Next]_<<free, {sflow[f].fid : f \in {g \in Flows : Known(g)}}>>
  BY <1>2, NextUsesPool
<1> QED BY <1>1, <1>3, TablesInductive, PTL DEF Spec, UsesPool, Pool!Spec

-----------------------------------------------------------------------------
(* A quick link: what is under way is true. *)

\* What is left of a queue was in it, in the same order.
LEMMA TailPlaces ==
  ASSUME NEW S, NEW chan \in Seq(S), NEW rest,
         rest = chan \/ (chan # <<>> /\ rest = Tail(chan)),
         NEW k \in 1..Len(rest)
  PROVE  \E j \in 1..Len(chan) : rest[k] = chan[j]
<1>1. CASE rest = chan
  BY <1>1
<1>2. CASE chan # <<>> /\ rest = Tail(chan)
  <2>1. Len(chan) \in Nat /\ Len(rest) = Len(chan) - 1 /\ rest[k] = chan[k + 1]
    BY <1>2, HeadTailProperties, LenProperties
  <2>2. k + 1 \in 1..Len(chan)
    BY <2>1
  <2> QED BY <2>1, <2>2
<1> QED BY <1>1, <1>2

\* A packet in the queue after a sending was there before or is sent now.
LEMMA SentPlaces ==
  ASSUME NEW S, NEW chan \in Seq(S), NEW pkts \in Seq(S), NEW k \in 1..Len(chan \o pkts)
  PROVE  \/ \E j \in 1..Len(chan) : (chan \o pkts)[k] = chan[j]
         \/ \E j \in 1..Len(pkts) : (chan \o pkts)[k] = pkts[j]
<1>1. /\ Len(chan) \in Nat /\ Len(pkts) \in Nat
      /\ Len(chan \o pkts) = Len(chan) + Len(pkts)
      /\ (chan \o pkts)[k] = IF k <= Len(chan) THEN chan[k]
                             ELSE pkts[k - Len(chan)]
  BY ConcatProperties, LenProperties
<1>2. CASE k <= Len(chan)
  BY <1>1, <1>2
<1>3. CASE k > Len(chan)
  <2>1. k - Len(chan) \in 1..Len(pkts)
    BY <1>1, <1>3
  <2> QED BY <1>1, <1>3, <2>1
<1> QED BY <1>1, <1>2, <1>3

\* A packet is true when its flow has its id and has been used in this pass.
True(p) ==
  p.type # "IP" =>
    /\ sflow_rindex[p.fid] = p.flow
    /\ sflow[p.flow].soft_timeout = SOFT_TIMEOUT
    /\ p.type = "CPKT" => sflow[p.flow].state = "ESTABLISHED"

\* ... and an acknowledgement when both nodes know its id for the same flow.
TrueAck(i) ==
  /\ sflow_rindex[i] # NULL
  /\ sflow[sflow_rindex[i]].soft_timeout = SOFT_TIMEOUT
  /\ rflow[i] = [flow |-> sflow_rindex[i], soft_timeout |-> SOFT_TIMEOUT]

LEMMA TrueAll ==
  /\ SentByOwner <=> \A k \in 1..Len(fwd) : True(fwd[k])
  /\ AckedByOwner <=> \A k \in 1..Len(bwd) : TrueAck(bwd[k])
BY DEF SentByOwner, AckedByOwner, True, TrueAck

\* A flow used in this pass keeps its id, its clock and its being established
\* in every step but the passing of time, so that what is true stays true.
SendersKept ==
  \A f \in Flows : Known(f) /\ sflow[f].soft_timeout = SOFT_TIMEOUT =>
    /\ sflow_rindex'[sflow[f].fid] = f
    /\ sflow'[f].soft_timeout = SOFT_TIMEOUT
    /\ sflow[f].state = "ESTABLISHED" => sflow'[f].state = "ESTABLISHED"

LEMMA TrueStays ==
  ASSUME TablesInv, SendersKept, NEW p \in Pkts, True(p)
  PROVE  True(p)'
<1>1. p.fid \in Ids /\ p.flow \in Flows
  BY DEF Pkts
<1>2. CASE p.type = "IP"
  BY <1>2 DEF True
<1>3. CASE p.type # "IP"
  <2>1. sflow_rindex[p.fid] = p.flow
    BY <1>3 DEF True
  <2>2. Known(p.flow) /\ sflow[p.flow].fid = p.fid
    BY <1>1, <2>1 DEF TablesInv, TablesAgree
  <2> QED BY <1>1, <1>3, <2>2 DEF True, SendersKept
<1> QED BY <1>2, <1>3

LEMMA TrueAckStays ==
  ASSUME TablesInv, SendersKept, NEW i \in Ids, TrueAck(i), rflow'[i] = rflow[i]
  PROVE  TrueAck(i)'
<1>1. sflow_rindex[i] \in Flows
  BY DEF TrueAck, TablesInv, TypeOK
<1>2. Known(sflow_rindex[i]) /\ sflow[sflow_rindex[i]].fid = i
  BY <1>1 DEF TablesInv, TablesAgree
<1> QED BY <1>1, <1>2 DEF TrueAck, SendersKept

\* A sending of true packets, by a step that keeps what is true.
LEMMA SendQuick ==
  ASSUME TablesInv, QuickInv, SendersKept, NEW pkts \in Seq(Pkts), Send(pkts),
         \A j \in 1..Len(pkts) : True(pkts[j])',
         UNCHANGED <<rflow, bwd>>,
         \A f \in Flows : sflow'[f].state = "ESTABLISHED" =>
                            /\ sflow[f].state = "ESTABLISHED"
                            /\ sflow'[f].fid = sflow[f].fid
  PROVE  QuickInv'
<1>1. /\ fwd \in Seq(Pkts) /\ fwd' = fwd \o pkts /\ bwd \in Seq(Ids)
  BY DEF Send, TablesInv, TypeOK
<1>2. /\ \A k \in 1..Len(fwd) : True(fwd[k])
      /\ \A k \in 1..Len(bwd) : TrueAck(bwd[k])
  BY TrueAll DEF QuickInv
<1>3. ASSUME NEW k \in 1..Len(fwd'), NEW p, p = fwd'[k]
      PROVE  True(p)'
  <2>1. \/ \E j \in 1..Len(fwd) : p = fwd[j]
        \/ \E j \in 1..Len(pkts) : p = pkts[j]
    BY <1>1, <1>3, SentPlaces
  <2>2. ASSUME NEW j \in 1..Len(fwd), p = fwd[j]
        PROVE  True(p)'
    <3>1. p \in Pkts /\ True(p)
      BY <1>1, <1>2, <2>2, ElementOfSeq
    <3> QED BY <3>1, TrueStays
  <2> QED BY <2>1, <2>2
<1>4. SentByOwner'
  <2>1. \A k \in 1..Len(fwd') : \A p : p = fwd'[k] => True(p)'
    BY <1>3
  <2> QED BY <2>1 DEF SentByOwner, True
<1>5. AckedByOwner'
  <2>1. ASSUME NEW k \in 1..Len(bwd)
        PROVE  TrueAck(bwd[k])'
    <3>1. bwd[k] \in Ids
      BY <1>1, ElementOfSeq
    <3> QED BY <1>2, <3>1, TrueAckStays
  <2> QED BY <2>1 DEF AckedByOwner, TrueAck
<1>6. EstablishedAtPeer'
  BY DEF QuickInv, EstablishedAtPeer
<1> QED BY <1>4, <1>5, <1>6 DEF QuickInv

LEMMA XmitNewQuick ==
  ASSUME TablesInv, QuickInv, NEW f \in Flows, XmitNew(f),
         UNCHANGED <<receiverVars, bwd>>
  PROVE  QuickInv'
<1> DEFINE fid == Head(free)
           pkts == <<Request(f, fid), Plain(f)>>
<1>1. /\ fid \in Ids
      /\ \A g \in Flows : Known(g) => sflow[g].fid # fid
  BY HeadIsFree DEF XmitNew
<1> HIDE DEF fid
<1>2. /\ sflow' = [sflow EXCEPT ![f] = [state |-> "PENDING", fid |-> fid,
                                        soft_timeout |-> SOFT_TIMEOUT]]
      /\ sflow_rindex' = [sflow_rindex EXCEPT ![fid] = f]
      /\ Send(pkts) /\ ~Known(f)
  BY DEF XmitNew, BuildSflow, fid
<1>3. pkts \in Seq(Pkts)
  BY <1>1, PktType, PlainType DEF Request
<1>4. \A g \in Flows : sflow'[g] = IF g = f
                       THEN [state |-> "PENDING", fid |-> fid,
                             soft_timeout |-> SOFT_TIMEOUT]
                       ELSE sflow[g]
  BY <1>2 DEF TablesInv, TypeOK
<1>5. SendersKept
  <2>1. ASSUME NEW g \in Flows, Known(g)
        PROVE  sflow_rindex'[sflow[g].fid] = g
    BY <1>1, <1>2, <2>1 DEF TablesInv, TypeOK, TablesAgree
  <2> QED BY <1>2, <1>4, <2>1 DEF SendersKept
<1>6. /\ sflow_rindex'[fid] = f
      /\ sflow'[f].soft_timeout = SOFT_TIMEOUT
  BY <1>1, <1>2, <1>4 DEF TablesInv, TypeOK
<1>7. \A j \in 1..Len(pkts) : \/ pkts[j].type = "IP"
                              \/ /\ pkts[j].type = "REQ"
                                 /\ pkts[j].fid = fid /\ pkts[j].flow = f
  BY DEF Request, Plain, Pkt
<1> HIDE DEF pkts
<1>8. \A p \in Pkts : \/ p.type = "IP"
                      \/ p.type = "REQ" /\ p.fid = fid /\ p.flow = f
                => True(p)'
  BY <1>6 DEF True
<1>9. \A j \in 1..Len(pkts) : \A p : p = pkts[j] => True(p)'
  BY <1>3, <1>7, <1>8, ElementOfSeq
<1>10. \A g \in Flows : sflow'[g].state = "ESTABLISHED" =>
                          /\ sflow[g].state = "ESTABLISHED"
                          /\ sflow'[g].fid = sflow[g].fid
  BY <1>4
<1> QED BY <1>2, <1>3, <1>5, <1>9, <1>10, SendQuick DEF receiverVars

\* A packet of a known flow, which starts the flow's clock again.
LEMMA TouchQuick ==
  ASSUME TablesInv, QuickInv, NEW f \in Flows, Known(f), Touch(f),
         UNCHANGED <<sflow_rindex, rflow, bwd>>,
         NEW q \in Pkts, Send(<<q>>),
         \/ q.type = "IP"
         \/ /\ q.type = "CPKT" /\ sflow[f].state = "ESTABLISHED"
            /\ q.flow = f /\ q.fid = sflow[f].fid
  PROVE  QuickInv'
<1>1. \A g \in Flows : /\ sflow'[g].state = sflow[g].state
                       /\ sflow'[g].fid = sflow[g].fid
                       /\ g # f => sflow'[g] = sflow[g]
  BY DEF Touch, TablesInv, TypeOK
<1>2. sflow'[f].soft_timeout = SOFT_TIMEOUT
  BY DEF Touch, TablesInv, TypeOK
<1>3. \A g \in Flows : Known(g) => sflow_rindex[sflow[g].fid] = g
  BY DEF TablesInv, TypeOK, TablesAgree
<1>4. SendersKept
  BY <1>1, <1>2, <1>3 DEF SendersKept
<1>5. True(q)'
  BY <1>1, <1>2, <1>3 DEF True
<1>6. <<q>> \in Seq(Pkts) /\ \A j \in 1..Len(<<q>>) : <<q>>[j] = q
  OBVIOUS
<1>7. \A j \in 1..Len(<<q>>) : True(<<q>>[j])'
  BY <1>5, <1>6
<1> QED BY <1>1, <1>4, <1>6, <1>7, SendQuick

LEMMA XmitCompressQuick ==
  ASSUME TablesInv, QuickInv, NEW f \in Flows, XmitCompress(f)
  PROVE  QuickInv'
<1>1. CASE XmitNew(f)
  BY <1>1, XmitNewQuick DEF XmitCompress
<1>2. CASE XmitPending(f)
  <2>1. Plain(f) \in Pkts /\ Plain(f).type = "IP"
    BY PlainType DEF Plain, Pkt
  <2> QED BY <1>2, <2>1, TouchQuick
          DEF XmitCompress, XmitPending, receiverVars, Known
<1>3. CASE XmitEstablished(f)
  <2>1. /\ Compacted(f) \in Pkts /\ Compacted(f).type = "CPKT"
        /\ Compacted(f).flow = f /\ Compacted(f).fid = sflow[f].fid
    BY PktType DEF Compacted, Pkt, TablesInv, TypeOK
  <2> QED BY <1>3, <2>1, TouchQuick
          DEF XmitCompress, XmitEstablished, receiverVars, Known
<1> QED BY <1>1, <1>2, <1>3 DEF XmitCompress

LEMMA UnchangedKept ==
  ASSUME TablesInv, UNCHANGED senderVars
  PROVE  SendersKept
BY DEF TablesInv, TypeOK, TablesAgree, SendersKept, senderVars

LEMMA XmitUntouchedQuick ==
  ASSUME TablesInv, QuickInv, NEW f \in Flows, XmitUntouched(f)
  PROVE  QuickInv'
<1>1. Plain(f) \in Pkts /\ Plain(f).type = "IP"
  BY PlainType DEF Plain, Pkt
<1> DEFINE q == Plain(f)
<1>2. <<q>> \in Seq(Pkts) /\ \A j \in 1..Len(<<q>>) : <<q>>[j] = q
  BY <1>1
<1>3. Send(<<q>>) /\ q.type = "IP" /\ UNCHANGED <<senderVars, rflow, bwd>>
  BY <1>1 DEF XmitUntouched, receiverVars
<1> HIDE DEF q
<1>4. \A j \in 1..Len(<<q>>) : True(<<q>>[j])'
  BY <1>2, <1>3 DEF True
<1>5. SendersKept
  BY <1>3, UnchangedKept
<1>6. \A g \in Flows : sflow'[g] = sflow[g]
  BY <1>3 DEF senderVars
<1> QED BY <1>2, <1>3, <1>4, <1>5, <1>6, SendQuick

\* What the channel takes out or loses leaves the rest true.
LEMMA RestTrue ==
  ASSUME TablesInv, QuickInv, SendersKept,
         fwd' = fwd \/ (fwd # <<>> /\ fwd' = Tail(fwd))
  PROVE  SentByOwner'
<1>1. ASSUME NEW k \in 1..Len(fwd'), NEW p, p = fwd'[k]
      PROVE  True(p)'
  <2>1. fwd \in Seq(Pkts)
    BY DEF TablesInv, TypeOK
  <2>2. PICK j \in 1..Len(fwd) : fwd'[k] = fwd[j]
    BY <2>1, TailPlaces
  <2>3. p \in Pkts /\ True(p)
    BY <1>1, <2>1, <2>2, ElementOfSeq, TrueAll DEF QuickInv
  <2> QED BY <2>3, TrueStays
<1>2. \A k \in 1..Len(fwd') : \A p : p = fwd'[k] => True(p)'
  BY <1>1
<1> QED BY <1>2 DEF SentByOwner, True

LEMMA RestAcked ==
  ASSUME TablesInv, QuickInv, SendersKept,
         \A i \in Ids : TrueAck(i) => rflow'[i] = rflow[i],
         bwd' = bwd \/ (bwd # <<>> /\ bwd' = Tail(bwd))
  PROVE  AckedByOwner'
<1>1. ASSUME NEW k \in 1..Len(bwd'), NEW i, i = bwd'[k]
      PROVE  TrueAck(i)'
  <2>1. bwd \in Seq(Ids)
    BY DEF TablesInv, TypeOK
  <2>2. PICK j \in 1..Len(bwd) : bwd'[k] = bwd[j]
    <3> DEFINE rest == bwd'
    <3>1. k \in 1..Len(rest) /\ (rest = bwd \/ (bwd # <<>> /\ rest = Tail(bwd)))
      OBVIOUS
    <3> HIDE DEF rest
    <3>2. \E j \in 1..Len(bwd) : rest[k] = bwd[j]
      BY <2>1, <3>1, TailPlaces, SMTT(30)
    <3> QED BY <3>2 DEF rest
  <2>3. i \in Ids /\ TrueAck(i)
    BY <1>1, <2>1, <2>2, ElementOfSeq, TrueAll DEF QuickInv
  <2> QED BY <2>3, TrueAckStays
<1>2. \A k \in 1..Len(bwd') : \A i : i = bwd'[k] => TrueAck(i)'
  BY <1>1
<1> QED BY <1>2 DEF AckedByOwner, TrueAck

LEMMA RecvAckQuick ==
  ASSUME TablesInv, QuickInv, RecvAck
  PROVE  QuickInv'
<1> DEFINE i == Head(bwd)
<1>1. /\ i \in Ids /\ Establish(i) /\ bwd # <<>>
      /\ bwd' = bwd \/ bwd' = Tail(bwd)
      /\ UNCHANGED <<sflow_rindex, fwd, rflow>>
  BY AckTaken DEF RecvAck, receiverVars
<1>2. TrueAck(i)
  <2>1. i = bwd[1] /\ 1 \in 1..Len(bwd)
    BY AckTaken DEF TablesInv, TypeOK
  <2> QED BY <2>1, TrueAll DEF QuickInv
<1> HIDE DEF i
<1>3. \A f \in Flows :
        /\ sflow'[f].fid = sflow[f].fid
        /\ sflow'[f].soft_timeout = sflow[f].soft_timeout
        /\ sflow'[f].state # sflow[f].state =>
             sflow_rindex[i] = f /\ sflow[f].fid = i
  BY <1>1, Establishes
<1>4. SendersKept
  <2> SUFFICES ASSUME NEW f \in Flows, Known(f),
                      sflow[f].soft_timeout = SOFT_TIMEOUT
               PROVE  /\ sflow_rindex'[sflow[f].fid] = f
                      /\ sflow'[f].soft_timeout = SOFT_TIMEOUT
                      /\ sflow[f].state = "ESTABLISHED"
                           => sflow'[f].state = "ESTABLISHED"
    BY DEF SendersKept
  <2>1. sflow_rindex[sflow[f].fid] = f
    BY DEF TablesInv, TypeOK, TablesAgree
  <2>2. sflow[f].state = "ESTABLISHED" => sflow'[f].state = "ESTABLISHED"
    BY <1>1 DEF Establish, TablesInv, TypeOK
  <2> QED BY <1>1, <1>3, <2>1, <2>2
<1>5. SentByOwner' /\ AckedByOwner'
  BY <1>1, <1>4, RestTrue, RestAcked
<1>6. EstablishedAtPeer'
  BY <1>1, <1>2, <1>3 DEF TrueAck, EstablishedAtPeer, QuickInv
<1> QED BY <1>5, <1>6 DEF QuickInv

\* What a packet that is received on a quick link finds: its flow is the one
\* that has the id, and a compacted one is known by the id or not at all.
LEMMA ReceivedTrue ==
  ASSUME TablesInv, QuickInv, RecvCompress, Head(fwd).type # "IP"
  PROVE  LET p == Head(fwd) IN
         /\ p.fid \in Ids /\ p.flow \in Flows
         /\ sflow_rindex[p.fid] = p.flow
         /\ Known(p.flow) /\ sflow[p.flow].fid = p.fid
         /\ sflow[p.flow].soft_timeout = SOFT_TIMEOUT
         /\ p.type = "CPKT" /\ rflow[p.fid] # NoRflow
              => rflow[p.fid].flow = p.flow
<1> DEFINE p == Head(fwd)
<1>1. p \in Pkts /\ p = fwd[1] /\ 1 \in 1..Len(fwd)
  BY PktTaken DEF TablesInv, TypeOK
<1>2. True(p) /\ p.fid \in Ids /\ p.flow \in Flows
  BY <1>1, TrueAll DEF QuickInv, Pkts
<1>3. Known(p.flow) /\ sflow[p.flow].fid = p.fid
  BY <1>2 DEF True, TablesInv, TablesAgree
<1>4. p.type = "CPKT" /\ rflow[p.fid] # NoRflow => rflow[p.fid].flow = p.flow
  BY <1>2, <1>3 DEF True, QuickInv, EstablishedAtPeer, TablesInv, Blank
<1> QED BY <1>2, <1>3, <1>4 DEF True

LEMMA RecvCompressQuick ==
  ASSUME TablesInv, QuickInv, RecvCompress
  PROVE  QuickInv'
<1> DEFINE p == Head(fwd)
<1>1. /\ fwd # <<>>
      /\ fwd' = fwd \/ fwd' = Tail(fwd)
      /\ UNCHANGED <<sflow, sflow_rindex>>
  BY PktTaken DEF RecvCompress, senderVars
<1>2. SendersKept
  BY UnchangedKept DEF RecvCompress
<1>3. SentByOwner'
  BY <1>1, <1>2, RestTrue
<1>4. CASE /\ p.type = "REQ" /\ bwd' = Append(bwd, p.fid)
           /\ rflow[p.fid] = NoRflow /\ BuildRflow(p)
  <2>1. PICK j \in Ids, g \in Flows :
          /\ sflow_rindex[j] = g /\ sflow[g].fid = j
          /\ sflow[g].soft_timeout = SOFT_TIMEOUT
          /\ bwd' = Append(bwd, j)
          /\ rflow[j] = NoRflow
          /\ rflow' = [rflow EXCEPT ![j] = [flow |-> g,
                                           soft_timeout |-> SOFT_TIMEOUT]]
    BY <1>4, ReceivedTrue DEF BuildRflow
  <2>2. \A i \in Ids : rflow'[i] = IF i = j
                         THEN [flow |-> g, soft_timeout |-> SOFT_TIMEOUT]
                         ELSE rflow[i]
    BY <2>1 DEF TablesInv, TypeOK
  <2>3. TrueAck(j)'
    BY <1>1, <2>1, <2>2, ConstantsAssumption DEF TrueAck
  <2>4. ASSUME NEW i \in Ids, TrueAck(i)
        PROVE  TrueAck(i)'
    <3>1. CASE i = j
      BY <1>1, <2>1, <2>2, <3>1, ConstantsAssumption DEF TrueAck
    <3>2. CASE i # j
      BY <1>1, <2>2, <2>4, <3>2 DEF TrueAck
    <3> QED BY <3>1, <3>2
  <2>5. bwd \in Seq(Ids)
    BY DEF TablesInv, TypeOK
  <2>6. ASSUME NEW k \in 1..Len(bwd'), NEW i, i = bwd'[k]
        PROVE  i = j \/ (i \in Ids /\ TrueAck(i))
    <3>1. Len(bwd) \in Nat /\ k \in 1..(Len(bwd) + 1)
      BY <2>1, <2>5, AppendProperties, LenProperties
    <3>2. CASE k = Len(bwd) + 1
      BY <2>1, <2>5, <2>6, <3>2, AppendProperties
    <3>3. CASE k # Len(bwd) + 1
      <4>1. k \in 1..Len(bwd)
        BY <3>1, <3>3
      <4>2. i = bwd[k]
        BY <2>1, <2>5, <2>6, <4>1, AppendProperties
      <4> QED BY <2>5, <4>1, <4>2, ElementOfSeq, TrueAll DEF QuickInv
    <3> QED BY <3>2, <3>3
  <2>7. \A k \in 1..Len(bwd') : \A i : i = bwd'[k] => TrueAck(i)'
    BY <2>3, <2>4, <2>6
  <2>8. AckedByOwner'
    BY <2>7 DEF AckedByOwner, TrueAck
  <2>9. EstablishedAtPeer'
    <3> SUFFICES ASSUME NEW f \in Flows, sflow[f].state = "ESTABLISHED"
                 PROVE  rflow'[sflow[f].fid].flow \in {f, NULL}
      BY <1>1 DEF EstablishedAtPeer
    <3>1. sflow[f].fid \in Ids /\ sflow_rindex[sflow[f].fid] = f
      BY DEF TablesInv, TypeOK, TablesAgree, Known
    <3> QED BY <2>1, <2>2, <3>1 DEF QuickInv, EstablishedAtPeer
  <2> QED BY <1>3, <2>8, <2>9 DEF QuickInv
<1>5. CASE /\ p.type = "CPKT" /\ bwd' = bwd
           /\ rflow' = [rflow EXCEPT ![p.fid].soft_timeout = SOFT_TIMEOUT]
  <2>1. p.fid \in Ids
    BY <1>5, ReceivedTrue
  <2> HIDE DEF p
  <2>2. \A i \in Ids : /\ rflow'[i].flow = rflow[i].flow
                       /\ i # p.fid => rflow'[i] = rflow[i]
                       /\ i = p.fid => rflow'[i] = [rflow[i] EXCEPT
                                           !.soft_timeout = SOFT_TIMEOUT]
    BY <1>5, <2>1 DEF TablesInv, TypeOK
  <2>3. \A i \in Ids : TrueAck(i) => rflow'[i] = rflow[i]
    BY <2>2 DEF TrueAck
  <2>4. AckedByOwner'
    BY <1>2, <1>5, <2>3, RestAcked
  <2>5. EstablishedAtPeer'
    BY <1>1, <2>2 DEF EstablishedAtPeer, QuickInv, TablesInv, TypeOK
  <2> QED BY <1>3, <2>4, <2>5 DEF QuickInv
<1>6. CASE UNCHANGED <<bwd, rflow>>
  <2>1. AckedByOwner'
    BY <1>2, <1>6, RestAcked
  <2>2. EstablishedAtPeer'
    BY <1>1, <1>6 DEF EstablishedAtPeer, QuickInv
  <2> QED BY <1>3, <2>1, <2>2 DEF QuickInv
<1> QED BY <1>4, <1>5, <1>6, Received

LEMMA LoseQuick ==
  ASSUME TablesInv, QuickInv, LoseFwd \/ LoseBwd
  PROVE  QuickInv'
<1>1. /\ UNCHANGED <<senderVars, rflow>>
      /\ fwd' = fwd \/ (fwd # <<>> /\ fwd' = Tail(fwd))
      /\ bwd' = bwd \/ (bwd # <<>> /\ bwd' = Tail(bwd))
  BY DEF LoseFwd, LoseBwd, receiverVars
<1>2. SentByOwner' /\ AckedByOwner'
  BY <1>1, UnchangedKept, RestTrue, RestAcked
<1>3. EstablishedAtPeer'
  BY <1>1 DEF EstablishedAtPeer, QuickInv, senderVars
<1> QED BY <1>2, <1>3 DEF QuickInv

LEMMA TickQuick ==
  ASSUME TablesInv, QuickInv, Tick, "delays" \notin link
  PROVE  QuickInv'
<1>1. fwd' = <<>> /\ bwd' = <<>>
  BY DEF Tick
<1>2. SentByOwner' /\ AckedByOwner'
  BY <1>1 DEF SentByOwner, AckedByOwner
<1>3. \A f \in Flows : /\ sflow'[f].state = sflow[f].state
                       /\ sflow'[f].fid = sflow[f].fid
  BY DEF Tick, TablesInv, TypeOK
<1>4. \A i \in Ids : rflow'[i].flow = rflow[i].flow
  BY DEF Tick, TablesInv, TypeOK
<1>5. EstablishedAtPeer'
  BY <1>3, <1>4 DEF EstablishedAtPeer, QuickInv, TablesInv, TypeOK
<1> QED BY <1>2, <1>5 DEF QuickInv

\* The timers forget what was not used in this pass only.
LEMMA SenderTimerQuick ==
  ASSUME TablesInv, QuickInv, SenderTimer
  PROVE  QuickInv'
<1>1. /\ sflow' = [f \in Flows |-> IF f \in Expired THEN NoSflow ELSE sflow[f]]
      /\ sflow_rindex' = [i \in Ids |-> IF \E f \in Expired : sflow[f].fid = i
                                        THEN NULL ELSE sflow_rindex[i]]
      /\ UNCHANGED <<fwd, bwd, rflow>>
  BY DEF SenderTimer, receiverVars
<1>2. SendersKept
  <2> SUFFICES ASSUME NEW f \in Flows, Known(f),
                      sflow[f].soft_timeout = SOFT_TIMEOUT
               PROVE  /\ sflow_rindex'[sflow[f].fid] = f
                      /\ sflow'[f] = sflow[f]
    BY DEF SendersKept
  <2>1. f \notin Expired
    BY TimeoutType DEF Expired
  <2>2. sflow[f].fid \in Ids /\ sflow_rindex[sflow[f].fid] = f
    BY DEF TablesInv, TypeOK, TablesAgree
  <2>3. \A g \in Expired : sflow[g].fid = sflow[f].fid => g = f
    BY <2>2 DEF Expired, TablesInv, TablesAgree
  <2> QED BY <1>1, <2>1, <2>2, <2>3
<1>3. SentByOwner' /\ AckedByOwner'
  BY <1>1, <1>2, RestTrue, RestAcked
<1>4. EstablishedAtPeer'
  BY <1>1 DEF EstablishedAtPeer, QuickInv, NoSflow
<1> QED BY <1>3, <1>4 DEF QuickInv

LEMMA ReceiverTimerQuick ==
  ASSUME TablesInv, QuickInv, ReceiverTimer
  PROVE  QuickInv'
<1>1. /\ rflow' = [i \in Ids |-> IF rflow[i].soft_timeout = 0 THEN NoRflow
                                 ELSE rflow[i]]
      /\ UNCHANGED <<senderVars, fwd, bwd>>
  BY DEF ReceiverTimer
<1>2. \A i \in Ids : TrueAck(i) => rflow'[i] = rflow[i]
  BY <1>1, TimeoutType DEF TrueAck
<1>3. SentByOwner' /\ AckedByOwner'
  BY <1>1, <1>2, UnchangedKept, RestTrue, RestAcked
<1>4. EstablishedAtPeer'
  BY <1>1 DEF EstablishedAtPeer, QuickInv, senderVars, NoRflow, TablesInv, TypeOK
<1> QED BY <1>3, <1>4 DEF QuickInv

LEMMA NextQuick ==
  ASSUME TablesInv, QuickInv, [Next]_vars, "delays" \notin link
  PROVE  QuickInv'
<1>1. CASE UNCHANGED vars
  BY <1>1 DEF vars, nodeVars, QuickInv, SentByOwner, AckedByOwner,
              EstablishedAtPeer
<1>2. CASE Step
  BY <1>2, XmitCompressQuick, XmitUntouchedQuick, RecvAckQuick,
     RecvCompressQuick, LoseQuick, TickQuick, SenderTimerQuick,
     ReceiverTimerQuick DEF Step
<1> QED BY <1>1, <1>2 DEF Next

-----------------------------------------------------------------------------
(* A reliable link: what the peer will know. *)

\* Only what is before a place matters to it.
LEMMA WillBePrefix ==
  ASSUME NEW q, NEW q2, NEW g, NEW i, NEW f, NEW n \in Nat,
         \A j \in 1..(n - 1) : q2[j] = q[j],
         WillBe(q, g, i, n, f)
  PROVE  WillBe(q2, g, i, n, f)
<1>1. ASSUME NEW j \in 1..(n - 1), IsRequest(q2[j], i),
             \A m \in (j + 1)..(n - 1) : ~IsRequest(q2[m], i)
      PROVE  q2[j].flow = f
  <2>1. \A m \in (j + 1)..(n - 1) : m \in 1..(n - 1)
    OBVIOUS
  <2>2. \A m \in (j + 1)..(n - 1) : ~IsRequest(q[m], i)
    BY <1>1, <2>1
  <2>3. IsRequest(q[j], i) /\ q2[j] = q[j]
    BY <1>1
  <2> QED BY <2>2, <2>3 DEF WillBe
<1>2. ASSUME \A m \in 1..(n - 1) : ~IsRequest(q2[m], i)
      PROVE  g \in {f, NULL}
  BY <1>2 DEF WillBe
<1> QED BY <1>1, <1>2 DEF WillBe

\* Packets that are no requests for the id change nothing about it.
LEMMA WillBeLater ==
  ASSUME NEW q, NEW g, NEW i, NEW f, NEW n \in Nat \ {0}, NEW l \in Nat, n <= l,
         \A m \in n..(l - 1) : ~IsRequest(q[m], i),
         WillBe(q, g, i, n, f)
  PROVE  WillBe(q, g, i, l, f)
<1>1. ASSUME NEW j \in 1..(l - 1), IsRequest(q[j], i),
             \A m \in (j + 1)..(l - 1) : ~IsRequest(q[m], i)
      PROVE  q[j].flow = f
  <2>1. j \in 1..(n - 1)
    BY <1>1
  <2>2. \A m \in (j + 1)..(n - 1) : ~IsRequest(q[m], i)
    BY <1>1
  <2> QED BY <1>1, <2>1, <2>2 DEF WillBe
<1>2. ASSUME \A m \in 1..(l - 1) : ~IsRequest(q[m], i)
      PROVE  g \in {f, NULL}
  <2>1. \A m \in 1..(n - 1) : ~IsRequest(q[m], i)
    BY <1>2
  <2> QED BY <2>1 DEF WillBe
<1> QED BY <1>1, <1>2 DEF WillBe

\* Receiving the first packet: a request says what is known from now on.
LEMMA WillBeTail ==
  ASSUME NEW S, NEW q \in Seq(S), q # <<>>, NEW g, NEW i, NEW f,
         NEW n \in 2..(Len(q) + 1),
         WillBe(q, g, i, n, f),
         NEW h, h = IF IsRequest(q[1], i) THEN q[1].flow ELSE g
  PROVE  WillBe(Tail(q), h, i, n - 1, f)
<1> DEFINE q2 == Tail(q)
<1>1. Len(q) \in Nat /\ Len(q2) = Len(q) - 1 /\ n \in Nat
  BY LenProperties, HeadTailProperties
<1>2. \A j \in 1..(n - 2) : j \in 1..Len(q2)
  BY <1>1
<1>3. \A j \in 1..(n - 2) : q2[j] = q[j + 1]
  BY <1>2, HeadTailProperties
<1>4. (n - 1) - 1 = n - 2
  BY <1>1
<1> HIDE DEF q2
\* A place behind the first has the packet it gets in what is left.
<1>5. ASSUME NEW m \in 2..(n - 1)
      PROVE  m - 1 \in 1..(n - 2) /\ q2[m - 1] = q[m]
  <2>1. m - 1 \in 1..(n - 2)
    BY <1>1
  <2>2. q2[m - 1] = q[(m - 1) + 1] /\ (m - 1) + 1 = m
    BY <1>3, <2>1
  <2> QED BY <2>1, <2>2
<1>6. ASSUME NEW j \in 1..(n - 2), IsRequest(q2[j], i),
             \A m \in (j + 1)..(n - 2) : ~IsRequest(q2[m], i)
      PROVE  q2[j].flow = f
  <2>1. j + 1 \in 1..(n - 1) /\ q2[j] = q[j + 1]
    BY <1>1, <1>3
  <2>2. ASSUME NEW m \in ((j + 1) + 1)..(n - 1)
        PROVE  ~IsRequest(q[m], i)
    <3>1. m \in 2..(n - 1) /\ m - 1 \in (j + 1)..(n - 2)
      BY <1>1
    <3> QED BY <1>5, <1>6, <3>1
  <2> QED BY <1>6, <2>1, <2>2 DEF WillBe
<1>7. ASSUME \A m \in 1..(n - 2) : ~IsRequest(q2[m], i)
      PROVE  h \in {f, NULL}
  <2>1. \A m \in 2..(n - 1) : ~IsRequest(q[m], i)
    BY <1>5, <1>7
  <2>2. CASE IsRequest(q[1], i)
    <3>1. 1 \in 1..(n - 1) /\ \A m \in (1 + 1)..(n - 1) : m \in 2..(n - 1)
      BY <1>1
    <3>2. \A m \in (1 + 1)..(n - 1) : ~IsRequest(q[m], i)
      BY <2>1, <3>1
    <3>3. q[1].flow = f
      BY <2>2, <3>1, <3>2 DEF WillBe
    <3> QED BY <2>2, <3>3
  <2>3. CASE ~IsRequest(q[1], i)
    <3>1. \A m \in 1..(n - 1) : m = 1 \/ m \in 2..(n - 1)
      BY <1>1
    <3>2. \A m \in 1..(n - 1) : ~IsRequest(q[m], i)
      BY <2>1, <2>3, <3>1
    <3> QED BY <2>3, <3>2 DEF WillBe
  <2> QED BY <2>2, <2>3
<1> QED BY <1>4, <1>6, <1>7 DEF WillBe, q2

\* What was forgotten is known to nobody.
LEMMA WillBeForgotten ==
  ASSUME NEW q, NEW g, NEW i, NEW n, NEW f, WillBe(q, g, i, n, f)
  PROVE  WillBe(q, NULL, i, n, f)
BY DEF WillBe

InTime == CompactedInTime /\ OwnersInTime

LEMMA PktIs ==
  ASSUME NEW p \in Pkts
  PROVE  p = Pkt(p.type, p.fid, p.flow)
BY DEF Pkts, Pkt

\* What was under way before a sending keeps its place.
LEMMA SentBefore ==
  ASSUME TypeOK, NEW pkts \in Seq(Pkts), fwd' = fwd \o pkts
  PROVE  /\ Len(fwd) \in Nat /\ Len(fwd') = Len(fwd) + Len(pkts)
         /\ \A k \in 1..Len(fwd) : fwd'[k] = fwd[k]
         /\ \A k \in 1..Len(pkts) : fwd'[Len(fwd) + k] = pkts[k]
<1>1. /\ fwd \in Seq(Pkts) /\ Len(fwd) \in Nat /\ Len(pkts) \in Nat
      /\ Len(fwd') = Len(fwd) + Len(pkts)
      /\ \A k \in 1..(Len(fwd) + Len(pkts)) :
           fwd'[k] = IF k <= Len(fwd) THEN fwd[k] ELSE pkts[k - Len(fwd)]
  BY ConcatProperties, LenProperties DEF TypeOK
<1>2. \A k \in 1..Len(fwd) : fwd'[k] = fwd[k]
  BY <1>1
<1>3. ASSUME NEW k \in 1..Len(pkts)
      PROVE  fwd'[Len(fwd) + k] = pkts[k]
  <2>1. /\ Len(fwd) + k \in 1..(Len(fwd) + Len(pkts))
        /\ ~(Len(fwd) + k <= Len(fwd)) /\ (Len(fwd) + k) - Len(fwd) = k
    BY <1>1
  <2> QED BY <1>1, <2>1
<1> QED BY <1>1, <1>2, <1>3

\* ... and what is to be known before that place stays so.
LEMMA CompactedKept ==
  ASSUME TypeOK, InTime, UNCHANGED rflow,
         NEW pkts \in Seq(Pkts), fwd' = fwd \o pkts,
         NEW i \in Ids, NEW f \in Flows
  PROVE  /\ \A k \in 1..Len(fwd) : fwd'[k] = Pkt("CPKT", i, f)
              => WillBe(fwd', rflow'[i].flow, i, k, f)
         /\ sflow_rindex[i] = f
              => WillBe(fwd', rflow'[i].flow, i, Len(fwd) + 1, f)
<1>1. Len(fwd) \in Nat /\ \A k \in 1..Len(fwd) : fwd'[k] = fwd[k]
  BY SentBefore
<1>2. ASSUME NEW k \in 1..Len(fwd), fwd'[k] = Pkt("CPKT", i, f)
      PROVE  WillBe(fwd', rflow'[i].flow, i, k, f)
  <2>1. k \in Nat /\ \A j \in 1..(k - 1) : fwd'[j] = fwd[j]
    BY <1>1
  <2>2. WillBe(fwd, rflow'[i].flow, i, k, f)
    BY <1>1, <1>2 DEF InTime, CompactedInTime
  <2> QED BY <2>1, <2>2, WillBePrefix
<1>3. ASSUME sflow_rindex[i] = f
      PROVE  WillBe(fwd', rflow'[i].flow, i, Len(fwd) + 1, f)
  <2>1. Len(fwd) + 1 \in Nat /\ \A j \in 1..((Len(fwd) + 1) - 1) : fwd'[j] = fwd[j]
    BY <1>1
  <2>2. WillBe(fwd, rflow'[i].flow, i, Len(fwd) + 1, f)
    BY <1>3 DEF InTime, OwnersInTime
  <2> QED BY <2>1, <2>2, WillBePrefix
<1> QED BY <1>2, <1>3

\* A packet that is no request: a compacted one is of the flow with its id.
LEMMA SendInTime ==
  ASSUME TypeOK, InTime, UNCHANGED <<rflow, sflow_rindex>>,
         NEW q \in Pkts, Send(<<q>>), q.type # "REQ",
         q.type = "CPKT" => sflow_rindex[q.fid] = q.flow
  PROVE  InTime'
<1>1. <<q>> \in Seq(Pkts) /\ Len(<<q>>) = 1 /\ <<q>>[1] = q /\ fwd' = fwd \o <<q>>
  BY DEF Send
<1>2. /\ Len(fwd) \in Nat /\ Len(fwd') = Len(fwd) + 1
      /\ fwd'[Len(fwd) + 1] = q
  BY <1>1, SentBefore
<1>3. ASSUME NEW k \in 1..Len(fwd'), NEW i \in Ids, NEW f \in Flows,
             fwd'[k] = Pkt("CPKT", i, f)
      PROVE  WillBe(fwd', rflow'[i].flow, i, k, f)
  <2>1. CASE k \in 1..Len(fwd)
    BY <1>1, <1>3, <2>1, CompactedKept
  <2>2. CASE k \notin 1..Len(fwd)
    <3>1. k = Len(fwd) + 1 /\ q = Pkt("CPKT", i, f)
      BY <1>2, <1>3, <2>2
    <3>2. sflow_rindex[i] = f
      BY <3>1 DEF Pkt
    <3> QED BY <1>1, <3>1, <3>2, CompactedKept
  <2> QED BY <2>1, <2>2
<1>4. ASSUME NEW i \in Ids, NEW f \in Flows, sflow_rindex'[i] = f
      PROVE  WillBe(fwd', rflow'[i].flow, i, Len(fwd') + 1, f)
  <2> DEFINE n == Len(fwd) + 1
  <2>1. WillBe(fwd', rflow'[i].flow, i, n, f)
    BY <1>1, <1>4, CompactedKept
  <2>2. \A m \in n..((n + 1) - 1) : ~IsRequest(fwd'[m], i)
    BY <1>2 DEF IsRequest
  <2>3. n \in Nat \ {0} /\ n + 1 \in Nat /\ n <= n + 1 /\ Len(fwd') + 1 = n + 1
    BY <1>2
  <2> HIDE DEF n
  <2>4. WillBe(fwd', rflow'[i].flow, i, n + 1, f)
    BY <2>1, <2>2, <2>3, WillBeLater
  <2> QED BY <2>3, <2>4
<1> QED BY <1>3, <1>4 DEF InTime, CompactedInTime, OwnersInTime

LEMMA XmitNewInTime ==
  ASSUME TablesInv, InTime, NEW f \in Flows, XmitNew(f), UNCHANGED rflow
  PROVE  InTime'
<1> DEFINE fid == Head(free)
           pkts == <<Request(f, fid), Plain(f)>>
           n == Len(fwd) + 1
<1>1. fid \in Ids
  BY HeadIsFree DEF XmitNew
<1> HIDE DEF fid
<1>2. /\ \A i \in Ids : sflow_rindex'[i] = IF i = fid THEN f ELSE sflow_rindex[i]
      /\ fwd' = fwd \o pkts
  BY DEF XmitNew, Send, fid, TablesInv, TypeOK
<1>3. pkts \in Seq(Pkts) /\ Len(pkts) = 2
  BY <1>1, PktType, PlainType DEF Request
<1>4. /\ IsRequest(pkts[1], fid) /\ pkts[1].flow = f
      /\ \A i \in Ids : i # fid => ~IsRequest(pkts[1], i)
      /\ \A i \in Ids : ~IsRequest(pkts[2], i)
      /\ \A i \in Ids : \A g \in Flows : /\ pkts[1] # Pkt("CPKT", i, g)
                                         /\ pkts[2] # Pkt("CPKT", i, g)
  BY DEF Request, Plain, Pkt, IsRequest
<1> HIDE DEF pkts
<1>5. /\ Len(fwd) \in Nat /\ Len(fwd') = Len(fwd) + 2
      /\ fwd'[n] = pkts[1] /\ fwd'[n + 1] = pkts[2]
  <2>1. TypeOK /\ 1 \in 1..2 /\ 2 \in 1..2
    BY DEF TablesInv
  <2>2. /\ Len(fwd) \in Nat /\ Len(fwd') = Len(fwd) + 2
        /\ fwd'[Len(fwd) + 1] = pkts[1] /\ fwd'[Len(fwd) + 2] = pkts[2]
    BY <1>2, <1>3, <2>1, SentBefore
  <2>3. n + 1 = Len(fwd) + 2
    BY <2>2
  <2> QED BY <2>2, <2>3
<1>6. n \in Nat \ {0} /\ n + 2 \in Nat /\ n <= n + 2 /\ Len(fwd') + 1 = n + 2
  BY <1>5
<1>7. ASSUME NEW k \in 1..Len(fwd'), NEW i \in Ids, NEW g \in Flows,
             fwd'[k] = Pkt("CPKT", i, g)
      PROVE  WillBe(fwd', rflow'[i].flow, i, k, g)
  <2>1. k \in 1..Len(fwd) \/ k = n \/ k = n + 1
    BY <1>5
  <2>2. k \in 1..Len(fwd)
    BY <1>4, <1>5, <1>7, <2>1
  <2> QED BY <1>2, <1>3, <1>7, <2>2, CompactedKept DEF TablesInv
<1> HIDE DEF n
<1>8. ASSUME NEW i \in Ids, NEW g \in Flows, sflow_rindex'[i] = g
      PROVE  WillBe(fwd', rflow'[i].flow, i, n + 2, g)
  <2>1. CASE i = fid
    <3>1. g = f
      BY <1>2, <1>8, <2>1
    <3>2. ASSUME NEW j \in 1..((n + 2) - 1), IsRequest(fwd'[j], i),
                 \A m \in (j + 1)..((n + 2) - 1) : ~IsRequest(fwd'[m], i)
          PROVE  fwd'[j].flow = g
      <4>1. j \in Nat /\ j <= n + 1
        BY <1>6
      <4>2. j # n + 1
        BY <1>4, <1>5, <3>2
      <4>3. ~(j < n)
        <5> SUFFICES ASSUME j < n PROVE FALSE
          OBVIOUS
        <5>1. n \in (j + 1)..((n + 2) - 1)
          BY <1>6, <4>1
        <5> QED BY <1>4, <1>5, <2>1, <3>2, <5>1
      <4>4. j = n
        BY <1>6, <4>1, <4>2, <4>3
      <4> QED BY <1>4, <1>5, <3>1, <4>4
    <3>3. n \in 1..((n + 2) - 1) /\ IsRequest(fwd'[n], i)
      BY <1>4, <1>5, <1>6, <2>1
    <3> QED BY <3>2, <3>3 DEF WillBe
  <2>2. CASE i # fid
    <3>1. WillBe(fwd', rflow'[i].flow, i, n, g)
      BY <1>2, <1>3, <1>8, <2>2, CompactedKept DEF TablesInv, n
    <3>2. \A m \in n..((n + 2) - 1) : m = n \/ m = n + 1
      BY <1>6
    <3>3. \A m \in n..((n + 2) - 1) : ~IsRequest(fwd'[m], i)
      BY <1>4, <1>5, <2>2, <3>2
    <3> QED BY <1>6, <3>1, <3>3, WillBeLater
  <2> QED BY <2>1, <2>2
<1> QED BY <1>6, <1>7, <1>8 DEF InTime, CompactedInTime, OwnersInTime

LEMMA XmitCompressInTime ==
  ASSUME TablesInv, InTime, NEW f \in Flows, XmitCompress(f)
  PROVE  InTime'
<1>1. CASE XmitNew(f)
  BY <1>1, XmitNewInTime DEF XmitCompress, receiverVars
<1>2. CASE XmitPending(f)
  <2>1. Plain(f) \in Pkts /\ Plain(f).type = "IP"
    BY PlainType DEF Plain, Pkt
  <2> QED BY <1>2, <2>1, SendInTime
          DEF XmitCompress, XmitPending, receiverVars, TablesInv
<1>3. CASE XmitEstablished(f)
  <2>1. /\ Compacted(f) \in Pkts /\ Compacted(f).type = "CPKT"
        /\ Compacted(f).flow = f /\ Compacted(f).fid = sflow[f].fid
    BY PktType DEF Compacted, Pkt, TablesInv, TypeOK
  <2>2. sflow_rindex[sflow[f].fid] = f
    BY <1>3 DEF XmitEstablished, TablesInv, TypeOK, TablesAgree, Known
  <2> QED BY <1>3, <2>1, <2>2, SendInTime
          DEF XmitCompress, XmitEstablished, receiverVars, TablesInv
<1> QED BY <1>1, <1>2, <1>3 DEF XmitCompress

\* What the peer knows after it has received a packet: what a request says.
LEMMA KnownAfter ==
  ASSUME TablesInv, RecvCompress, failed' = "no", NEW i \in Ids
  PROVE  rflow'[i].flow = IF IsRequest(fwd[1], i) THEN fwd[1].flow
                          ELSE rflow[i].flow
<1> DEFINE p == Head(fwd)
<1>1. p \in Pkts /\ p = fwd[1] /\ p.fid \in Ids
  BY PktTaken DEF Pkts
<1> HIDE DEF p
<1>2. \/ p.type = "REQ" /\ BuildRflow(p)
      \/ /\ p.type = "CPKT"
         /\ rflow' = [rflow EXCEPT ![p.fid].soft_timeout = SOFT_TIMEOUT]
      \/ p.type = "IP" /\ UNCHANGED rflow
  BY Received DEF p
<1>3. CASE p.type = "REQ" /\ BuildRflow(p)
  BY <1>1, <1>3 DEF BuildRflow, IsRequest, TablesInv, TypeOK
<1>4. CASE /\ p.type = "CPKT"
           /\ rflow' = [rflow EXCEPT ![p.fid].soft_timeout = SOFT_TIMEOUT]
  BY <1>1, <1>4 DEF IsRequest, TablesInv, TypeOK
<1>5. CASE p.type = "IP" /\ UNCHANGED rflow
  BY <1>1, <1>5 DEF IsRequest
<1> QED BY <1>2, <1>3, <1>4, <1>5

LEMMA RecvCompressInTime ==
  ASSUME TablesInv, InTime, RecvCompress, failed' = "no", link = {"delays"}
  PROVE  InTime'
<1>1. fwd \in Seq(Pkts) /\ fwd # <<>> /\ fwd' = Tail(fwd)
  BY DEF RecvCompress, Taken, TablesInv, TypeOK
<1>2. /\ Len(fwd) \in Nat /\ Len(fwd) >= 1 /\ Len(fwd') = Len(fwd) - 1
      /\ \A k \in 1..Len(fwd') : fwd'[k] = fwd[k + 1]
  BY <1>1, HeadTailProperties, LenProperties, EmptySeq
<1>3. sflow_rindex' = sflow_rindex
  BY DEF RecvCompress, senderVars
<1>4. ASSUME NEW i \in Ids, NEW f \in Flows, NEW n \in 2..(Len(fwd) + 1),
             WillBe(fwd, rflow[i].flow, i, n, f)
      PROVE  WillBe(fwd', rflow'[i].flow, i, n - 1, f)
  <2> DEFINE g == rflow[i].flow
             h == rflow'[i].flow
  <2>1. h = IF IsRequest(fwd[1], i) THEN fwd[1].flow ELSE g
    BY KnownAfter
  <2>2. WillBe(fwd, g, i, n, f)
    BY <1>4
  <2> HIDE DEF g, h
  <2>3. WillBe(Tail(fwd), h, i, n - 1, f)
    BY <1>1, <2>1, <2>2, WillBeTail
  <2> QED BY <1>1, <2>3 DEF h
<1>5. ASSUME NEW k \in 1..Len(fwd'), NEW i \in Ids, NEW f \in Flows,
             fwd'[k] = Pkt("CPKT", i, f)
      PROVE  WillBe(fwd', rflow'[i].flow, i, k, f)
  <2>1. k + 1 \in 1..Len(fwd) /\ k + 1 \in 2..(Len(fwd) + 1) /\ (k + 1) - 1 = k
    BY <1>2
  <2>2. fwd[k + 1] = Pkt("CPKT", i, f)
    BY <1>2, <1>5
  <2>3. WillBe(fwd, rflow[i].flow, i, k + 1, f)
    BY <2>1, <2>2 DEF InTime, CompactedInTime
  <2>4. WillBe(fwd', rflow'[i].flow, i, (k + 1) - 1, f)
    BY <1>4, <2>1, <2>3
  <2> QED BY <2>1, <2>4
<1>6. ASSUME NEW i \in Ids, NEW f \in Flows, sflow_rindex'[i] = f
      PROVE  WillBe(fwd', rflow'[i].flow, i, Len(fwd') + 1, f)
  <2>1. Len(fwd) + 1 \in 2..(Len(fwd) + 1) /\ (Len(fwd) + 1) - 1 = Len(fwd') + 1
    BY <1>2
  <2>2. WillBe(fwd, rflow[i].flow, i, Len(fwd) + 1, f)
    BY <1>3, <1>6 DEF InTime, OwnersInTime
  <2>3. WillBe(fwd', rflow'[i].flow, i, (Len(fwd) + 1) - 1, f)
    BY <1>4, <2>1, <2>2
  <2> QED BY <2>1, <2>3
<1> QED BY <1>5, <1>6 DEF InTime, CompactedInTime, OwnersInTime

\* The other steps take no packet and send none; flows are forgotten at most.
LEMMA ForgetInTime ==
  ASSUME InTime, UNCHANGED fwd,
         \A i \in Ids : /\ rflow'[i].flow \in {rflow[i].flow, NULL}
                        /\ sflow_rindex'[i] \in {sflow_rindex[i], NULL}
  PROVE  InTime'
<1>1. ASSUME NEW i \in Ids, NEW f, NEW n, WillBe(fwd, rflow[i].flow, i, n, f)
      PROVE  WillBe(fwd, rflow'[i].flow, i, n, f)
  BY <1>1, WillBeForgotten
<1>2. ASSUME NEW i \in Ids, NEW f \in Flows, sflow_rindex'[i] = f
      PROVE  sflow_rindex[i] = f
  BY <1>2, ConstantsAssumption
<1> QED BY <1>1, <1>2 DEF InTime, CompactedInTime, OwnersInTime

LEMMA NextReliable ==
  ASSUME TablesInv, ReliableInv, [Next]_vars, link = {"delays"}
  PROVE  ReliableInv'
<1> SUFFICES ASSUME failed' = "no" PROVE InTime'
  BY DEF ReliableInv, InTime
<1>1. CASE UNCHANGED vars
  <2>1. InTime
    BY <1>1 DEF vars, nodeVars, ReliableInv, InTime
  <2> QED BY <1>1, <2>1, ForgetInTime DEF vars, nodeVars
<1>2. CASE Step
  <2>1. failed = "no"
    BY <1>2 DEF Step, XmitCompress, XmitUntouched, RecvAck, RecvCompress,
       LoseFwd, LoseBwd, Tick, SenderTimer, ReceiverTimer, receiverVars
  <2>2. InTime
    BY <2>1 DEF ReliableInv, InTime
  <2>3. ASSUME NEW f \in Flows, XmitCompress(f)
        PROVE  InTime'
    BY <2>2, <2>3, XmitCompressInTime
  <2>4. ASSUME NEW f \in Flows, XmitUntouched(f)
        PROVE  InTime'
    <3>1. Plain(f) \in Pkts /\ Plain(f).type = "IP"
      BY PlainType DEF Plain, Pkt
    <3> QED BY <2>2, <2>4, <3>1, SendInTime
            DEF XmitUntouched, senderVars, receiverVars, TablesInv
  <2>5. CASE RecvCompress
    BY <2>2, <2>5, RecvCompressInTime
  <2>6. CASE RecvAck
    BY <2>2, <2>6, ForgetInTime DEF RecvAck, receiverVars
  <2>7. ~LoseFwd /\ ~LoseBwd
    BY <2>1 DEF LoseFwd, LoseBwd
  <2>8. CASE Tick
    <3>1. \A i \in Ids : rflow'[i].flow = rflow[i].flow
      BY <2>8 DEF Tick, TablesInv, TypeOK
    <3> QED BY <2>2, <2>8, <3>1, ForgetInTime DEF Tick
  <2>9. CASE SenderTimer
    BY <2>2, <2>9, ForgetInTime DEF SenderTimer, receiverVars
  <2>10. CASE ReceiverTimer
    BY <2>2, <2>10, ForgetInTime DEF ReceiverTimer, senderVars, NoRflow
  <2> QED BY <1>2, <2>3, <2>4, <2>5, <2>6, <2>7, <2>8, <2>9, <2>10 DEF Step
<1> QED BY <1>1, <1>2 DEF Next

-----------------------------------------------------------------------------
(* The headers. *)

\* A compacted packet finds its own flow under its id, or none.
LEMMA FindsOwn ==
  ASSUME IInv, RecvCompress, QuickOrReliable, Head(fwd).type = "CPKT",
         rflow[Head(fwd).fid] # NoRflow
  PROVE  rflow[Head(fwd).fid].flow = Head(fwd).flow
<1> DEFINE p == Head(fwd)
<1>1. p \in Pkts /\ p = fwd[1] /\ 1 \in 1..Len(fwd)
  BY PktTaken DEF IInv, TablesInv, TypeOK
<1>2. CASE "delays" \notin link
  BY <1>2, ReceivedTrue DEF IInv, RestoreInv
<1>3. CASE link = {"delays"}
  <2>1. CompactedInTime
    BY <1>3 DEF IInv, RestoreInv, ReliableInv, RecvCompress
  <2>2. fwd[1] = Pkt("CPKT", p.fid, p.flow) /\ p.fid \in Ids /\ p.flow \in Flows
    BY <1>1, PktIs DEF Pkts
  <2>3. WillBe(fwd, rflow[p.fid].flow, p.fid, 1, p.flow)
    BY <1>1, <2>1, <2>2 DEF CompactedInTime
  <2>4. rflow[p.fid].flow \in {p.flow, NULL}
    BY <2>3 DEF WillBe
  <2> QED BY <2>2, <2>4 DEF IInv, TablesInv, Blank
<1> QED BY <1>2, <1>3 DEF QuickOrReliable

LEMMA NextRightFlow ==
  ASSUME IInv, [Next]_vars, QuickOrReliable
  PROVE  RightFlow'
<1>1. RightFlow
  BY DEF IInv, RestoreInv
<1>2. CASE UNCHANGED delivered
  BY <1>1, <1>2 DEF RightFlow
<1>3. CASE RecvCompress
  <2> DEFINE p == Head(fwd)
  <2>1. \A d \in delivered' : d \in delivered \/ d = <<p.flow, p.flow>>
    BY <1>3, Received, FindsOwn DEF IInv
  <2> QED BY <1>1, <2>1 DEF RightFlow
<1> QED BY <1>2, <1>3 DEF Next, Step, vars, nodeVars, XmitCompress,
     XmitUntouched, RecvAck, LoseFwd, LoseBwd, Tick, SenderTimer, ReceiverTimer,
     receiverVars

LEMMA InitInv == Init => IInv
<1> SUFFICES ASSUME Init PROVE IInv
  OBVIOUS
<1>1. TablesInv
  BY InitTables
<1>2. fwd = <<>> /\ Len(fwd) = 0 /\ bwd = <<>> /\ Len(bwd) = 0 /\ delivered = {}
  BY DEF Init
<1>3. RightFlow /\ QuickInv
  BY <1>2 DEF Init, RightFlow, QuickInv, SentByOwner, AckedByOwner,
     EstablishedAtPeer, NoSflow
<1>4. CompactedInTime /\ OwnersInTime
  BY <1>2, ConstantsAssumption DEF Init, CompactedInTime, OwnersInTime
<1> QED BY <1>1, <1>3, <1>4 DEF IInv, RestoreInv, ReliableInv

LEMMA NextInv == IInv /\ [Next]_vars => IInv'
<1> SUFFICES ASSUME IInv, [Next]_vars PROVE IInv'
  OBVIOUS
<1>1. TablesInv'
  BY NextTables DEF IInv
<1>2. link' = link
  BY DEF Next, vars
<1>3. QuickOrReliable => RightFlow'
  BY NextRightFlow
<1>4. "delays" \notin link => QuickInv'
  BY NextQuick DEF IInv, RestoreInv
<1>5. link = {"delays"} => ReliableInv'
  BY NextReliable DEF IInv, RestoreInv
<1> QED BY <1>1, <1>2, <1>3, <1>4, <1>5 DEF IInv, RestoreInv, QuickOrReliable

THEOREM Inductive == Spec => []IInv
BY InitInv, NextInv, PTL DEF Spec

\* A packet gets the headers of its own flow, with any number of flows that
\* share any number of ids, on a link that answers within a pass whatever it
\* loses or repeats, and on one that loses nothing however late it is.
THEOREM RestoresOwnFlow == Spec => [](QuickOrReliable => RightFlow)
BY Inductive, PTL DEF IInv, RestoreInv

\* On the links of the first kind the two nodes agree besides: an established
\* flow is known to the peer under its id as that flow, or forgotten there.
THEOREM PeersAgree == Spec => []("delays" \notin link => EstablishedAtPeer)
BY Inductive, PTL DEF IInv, RestoreInv, QuickInv
=============================================================================
