----------------------------- MODULE CompactFlow -----------------------------
(***************************************************************************)
(* The flow tables of header compaction (compact.c): the flows of a        *)
(* sending node, the flows its peer has learnt, and the packets between    *)
(* them, which the split layer carries.                                    *)
(*                                                                         *)
(* The first packet of a flow takes a compact id, is sent as it is, and is *)
(* preceded by a request (CTL_REQ) with the headers.  The peer learns the  *)
(* flow under the id and acknowledges (CTL_ACK).  From then on packets of  *)
(* the flow are sent compacted, with the id in place of the headers.  A    *)
(* flow that is not used for ten seconds is forgotten, on either side by   *)
(* its own clock, and its id goes back to the pool.                        *)
(*                                                                         *)
(* Abstractions.  A flow is a model value that stands for its key and its  *)
(* headers, those of a TCP or a UDP flow; a packet keeps the flow it       *)
(* belongs to in place of its contents (CompactCodec has those, and the    *)
(* flows of fragments).  The channel is what split promises on a link that *)
(* does not duplicate (LinkService and UpperInOrder): packets arrive in    *)
(* order, each several times before the next one, once or never.           *)
(* Time is counted in passes of the main loop, as in Split.                *)
(***************************************************************************)
EXTENDS Integers, Sequences, FiniteSets

CONSTANTS
  Flows,
  NULL,
  NumIds,           \* 1 << N_ID_BITS
  SOFT_TIMEOUT,     \* passes before an unused flow is forgotten
  Links,            \* the channels considered: what each may do, of LinkFaults
  ChanCap           \* bound: packets under way in one direction

Ids == 0..(NumIds - 1)
Nodes == {"snd", "rcv"}

\* Split gives a packet up, submits one again, takes longer than a pass.
LinkFaults == {"loses", "repeats", "delays"}

ASSUME ConstantsAssumption ==
  /\ NULL \notin Flows
  /\ IsFiniteSet(Flows)
  /\ NumIds \in Nat \ {0}
  /\ SOFT_TIMEOUT \in Nat \ {0}
  /\ Links \subseteq SUBSET LinkFaults
  /\ ChanCap \in Nat

VARIABLES
  sflow,            \* sflow_hmap of the sending node
  sflow_rindex,     \* sending node: the flow of an id, or NULL
  free,             \* idp, as the queue that IdPool implements
  rflow,            \* rflow_hmap of the receiving node, by id
  link,             \* what the channel may do
  fwd,              \* packets on their way to the receiving node
  bwd,              \* acknowledgements on their way back
  due,              \* nodes whose timer_event of this period is to run
  failed,           \* the assertion at which the receiving node stopped
  delivered         \* history: flow of a packet, flow it was restored to

senderVars == <<sflow, sflow_rindex, free>>
receiverVars == <<rflow, delivered, failed>>
nodeVars == <<sflow, sflow_rindex, free, rflow, fwd, bwd, due, failed, delivered>>
vars == <<nodeVars, link>>

Pkt(type, fid, flow) == [type |-> type, fid |-> fid, flow |-> flow]

Pkts == [type : {"IP", "REQ", "CPKT"}, fid : Ids, flow : Flows]

\* add_to_pkt_list: the packet as it is
Plain(f) == Pkt("IP", 0, f)

\* build_ctl: the request, with the headers of the flow
Request(f, fid) == Pkt("REQ", fid, f)

\* No flow: STATE_NEW never outlasts xmit_compress.
NoSflow == [state |-> "NONE", fid |-> 0, soft_timeout |-> 0]
NoRflow == [flow |-> NULL, soft_timeout |-> 0]

Known(f) == sflow[f].state # "NONE"

\* Mutation of Touch: the interval is added to the old deadline, not to now.
TouchAdds(f) == sflow' = [sflow EXCEPT ![f].soft_timeout = @ + SOFT_TIMEOUT]

\* touch_sflow
Touch(f) == sflow' = [sflow EXCEPT ![f].soft_timeout = SOFT_TIMEOUT]

\* build_sflow_by_hash, and the state in which xmit_compress leaves the flow
BuildSflow(f, fid) ==
  sflow' = [sflow EXCEPT ![f] = [state |-> "PENDING", fid |-> fid,
                                 soft_timeout |-> SOFT_TIMEOUT]]

\* build_cpkt, for a TCP or a UDP packet
Compacted(f) == Pkt("CPKT", sflow[f].fid, f)

\* build_rflow_by_hash
BuildRflow(p) ==
  rflow' = [rflow EXCEPT ![p.fid] = [flow |-> p.flow,
                                     soft_timeout |-> SOFT_TIMEOUT]]

\* The caller hands the list of packets to split, one after the other.
Send(pkts) ==
  /\ Len(fwd) + Len(pkts) <= ChanCap
  /\ fwd' = fwd \o pkts

-----------------------------------------------------------------------------
(* The sending node. *)

\* Mutation of XmitNew: packets are compacted from the second on.
XmitNewEstablished(f) ==
  /\ ~Known(f)
  /\ free # <<>>
  /\ LET fid == Head(free)
     IN /\ sflow' = [sflow EXCEPT ![f] = [state |-> "ESTABLISHED", fid |-> fid,
                                          soft_timeout |-> SOFT_TIMEOUT]]
        /\ sflow_rindex' = [sflow_rindex EXCEPT ![fid] = f]
        /\ Send(<<Request(f, fid), Plain(f)>>)
  /\ free' = Tail(free)

\* xmit_compress of a flow's first packet.  With no id left it drops the
\* packet and changes nothing.
XmitNew(f) ==
  /\ ~Known(f)
  /\ free # <<>>
  /\ LET fid == Head(free)
     IN /\ BuildSflow(f, fid)
        /\ sflow_rindex' = [sflow_rindex EXCEPT ![fid] = f]
        /\ Send(<<Request(f, fid), Plain(f)>>)
  /\ free' = Tail(free)

\* ... while the peer has not acknowledged: sent as it is
XmitPending(f) ==
  /\ sflow[f].state = "PENDING"
  /\ Send(<<Plain(f)>>)
  /\ Touch(f)
  /\ UNCHANGED <<sflow_rindex, free>>

\* ... afterwards: compacted
XmitEstablished(f) ==
  /\ sflow[f].state = "ESTABLISHED"
  /\ Send(<<Compacted(f)>>)
  /\ Touch(f)
  /\ UNCHANGED <<sflow_rindex, free>>

XmitCompress(f) ==
  /\ XmitNew(f) \/ XmitPending(f) \/ XmitEstablished(f)
  /\ UNCHANGED <<receiverVars, bwd, due>>

\* A packet that is not IPv4 or has options is not compacted.
XmitUntouched(f) ==
  /\ Send(<<Plain(f)>>)
  /\ UNCHANGED <<senderVars, receiverVars, bwd, due>>

\* Mutation of Establish: the peer's answer is taken for the id's successor.
EstablishNext(fid) ==
  LET f == sflow_rindex[(fid + 1) % NumIds]
  IN sflow' = IF f = NULL THEN sflow
              ELSE [sflow EXCEPT ![f].state = "ESTABLISHED"]

\* recv_compress, CTL_ACK: whatever flow has the id now
Establish(fid) ==
  LET f == sflow_rindex[fid]
  IN sflow' = IF f = NULL THEN sflow
              ELSE [sflow EXCEPT ![f].state = "ESTABLISHED"]

\* The channel keeps a packet it may submit again; Lose takes it away then.
Taken(chan) == IF "repeats" \in link THEN {chan, Tail(chan)} ELSE {Tail(chan)}

RecvAck ==
  /\ bwd # <<>>
  /\ bwd' \in Taken(bwd)
  /\ Establish(Head(bwd))
  /\ UNCHANGED <<receiverVars, sflow_rindex, free, fwd, due>>

-----------------------------------------------------------------------------
(* The receiving node: recv_compress. *)

\* An untouched packet is delivered as it is.
RecvIp(p) ==
  /\ p.type = "IP"
  /\ delivered' = delivered \cup {<<p.flow, p.flow>>}
  /\ UNCHANGED <<rflow, failed, bwd, due>>

\* assert(...) stops the process, its timer included.
Stop(assertion) ==
  /\ failed' = assertion
  /\ due' = due \ {"rcv"}
  /\ UNCHANGED <<rflow, delivered, bwd>>

\* Mutation of RecvReq: a flow that is known under the id stays.
RecvReqKeeps(p) ==
  /\ p.type = "REQ"
  /\ Len(bwd) < ChanCap
  /\ IF rflow[p.fid] # NoRflow THEN UNCHANGED rflow ELSE BuildRflow(p)
  /\ bwd' = Append(bwd, p.fid)
  /\ UNCHANGED <<delivered, failed, due>>

\* CTL_REQ: learn the flow and acknowledge
RecvReq(p) ==
  /\ p.type = "REQ"
  /\ Len(bwd) < ChanCap
  /\ IF rflow[p.fid] # NoRflow
     THEN Stop("assert(!rflow)")
     ELSE /\ BuildRflow(p)
          /\ bwd' = Append(bwd, p.fid)
          /\ UNCHANGED <<delivered, failed, due>>

\* FRM_TCP, FRM_UDP: restore the headers of the flow
RecvCpkt(p) ==
  /\ p.type = "CPKT"
  /\ IF rflow[p.fid] = NoRflow
     THEN Stop("assert(rflow)")
     ELSE /\ rflow' = [rflow EXCEPT ![p.fid].soft_timeout = SOFT_TIMEOUT]
          /\ delivered' = delivered \cup {<<p.flow, rflow[p.fid].flow>>}
          /\ UNCHANGED <<failed, bwd, due>>

RecvCompress ==
  /\ failed = "no"
  /\ fwd # <<>>
  /\ fwd' \in Taken(fwd)
  /\ LET p == Head(fwd) IN RecvIp(p) \/ RecvReq(p) \/ RecvCpkt(p)
  /\ UNCHANGED senderVars

-----------------------------------------------------------------------------
(* The channel gives a packet up, and loses all that a stopped node is     *)
(* sent.                                                                   *)

LoseFwd ==
  /\ fwd # <<>>
  /\ link \cap {"loses", "repeats"} # {} \/ failed # "no"
  /\ fwd' = Tail(fwd)
  /\ UNCHANGED <<senderVars, receiverVars, bwd, due>>

LoseBwd ==
  /\ bwd # <<>>
  /\ link \cap {"loses", "repeats"} # {}
  /\ bwd' = Tail(bwd)
  /\ UNCHANGED <<senderVars, receiverVars, fwd, due>>

-----------------------------------------------------------------------------
(* Time. *)

Elapsed(n) == IF n > 0 THEN n - 1 ELSE n

\* A period of the main loops goes by.
Tick ==
  /\ due = {}
  /\ "delays" \notin link => fwd = <<>> /\ bwd = <<>>
  /\ due' = IF failed = "no" THEN Nodes ELSE {"snd"}
  /\ sflow' = [f \in Flows |-> [sflow[f] EXCEPT !.soft_timeout = Elapsed(@)]]
  /\ rflow' = [i \in Ids |-> [rflow[i] EXCEPT !.soft_timeout = Elapsed(@)]]
  /\ UNCHANGED <<sflow_rindex, free, fwd, bwd, failed, delivered>>

\* The orders in which a hash table can be walked.
Walks(S) ==
  {w \in [1..Cardinality(S) -> S] : \A f \in S : \E i \in DOMAIN w : w[i] = f}

Expired == {f \in Flows : Known(f) /\ sflow[f].soft_timeout = 0}

\* Mutations of SenderTimer: the index entry is left, or the id not released.
SenderTimerKeepsIndex ==
  /\ "snd" \in due /\ due' = due \ {"snd"}
  /\ \E w \in Walks(Expired) :
       free' = free \o [i \in DOMAIN w |-> sflow[w[i]].fid]
  /\ sflow' = [f \in Flows |-> IF f \in Expired THEN NoSflow ELSE sflow[f]]
  /\ UNCHANGED <<receiverVars, sflow_rindex, fwd, bwd>>

SenderTimerKeepsId ==
  /\ "snd" \in due /\ due' = due \ {"snd"}
  /\ sflow' = [f \in Flows |-> IF f \in Expired THEN NoSflow ELSE sflow[f]]
  /\ sflow_rindex' = [i \in Ids |-> IF sflow_rindex[i] \in Expired THEN NULL
                                    ELSE sflow_rindex[i]]
  /\ UNCHANGED <<receiverVars, free, fwd, bwd>>

\* timer_event on the sending node
SenderTimer ==
  /\ "snd" \in due /\ due' = due \ {"snd"}
  /\ \E w \in Walks(Expired) :
       free' = free \o [i \in DOMAIN w |-> sflow[w[i]].fid]
  /\ sflow' = [f \in Flows |-> IF f \in Expired THEN NoSflow ELSE sflow[f]]
  /\ sflow_rindex' = [i \in Ids |-> IF \E f \in Expired : sflow[f].fid = i
                                    THEN NULL ELSE sflow_rindex[i]]
  /\ UNCHANGED <<receiverVars, fwd, bwd>>

\* timer_event on the receiving node
ReceiverTimer ==
  /\ "rcv" \in due /\ due' = due \ {"rcv"}
  /\ rflow' = [i \in Ids |-> IF rflow[i].soft_timeout = 0 THEN NoRflow
                             ELSE rflow[i]]
  /\ UNCHANGED <<senderVars, fwd, bwd, failed, delivered>>

-----------------------------------------------------------------------------
\* compact_init
Init ==
  /\ link \in Links
  /\ sflow = [f \in Flows |-> NoSflow]
  /\ sflow_rindex = [i \in Ids |-> NULL]
  /\ free = [i \in 1..NumIds |-> i - 1]
  /\ rflow = [i \in Ids |-> NoRflow]
  /\ fwd = <<>> /\ bwd = <<>>
  /\ due = {}
  /\ failed = "no"
  /\ delivered = {}

Step ==
  \/ \E f \in Flows : XmitCompress(f) \/ XmitUntouched(f)
  \/ RecvAck \/ RecvCompress
  \/ LoseFwd \/ LoseBwd
  \/ Tick \/ SenderTimer \/ ReceiverTimer

Next == Step /\ UNCHANGED link

Spec == Init /\ [][Next]_vars

\* The threads and the main loop of test.c keep running, and the channel
\* submits each packet a finite number of times.
Fairness ==
  /\ WF_nodeVars(RecvAck) /\ WF_nodeVars(RecvCompress)
  /\ WF_nodeVars(LoseFwd /\ failed # "no")
  /\ WF_nodeVars(Tick) /\ WF_nodeVars(SenderTimer) /\ WF_nodeVars(ReceiverTimer)

FairSpec == Spec /\ Fairness

-----------------------------------------------------------------------------
\* Type invariant.
TypeOK ==
  /\ sflow \in [Flows -> [state : {"NONE", "PENDING", "ESTABLISHED"},
                          fid : Ids, soft_timeout : 0..SOFT_TIMEOUT]]
  /\ sflow_rindex \in [Ids -> Flows \cup {NULL}]
  /\ free \in Seq(Ids)
  /\ rflow \in [Ids -> [flow : Flows \cup {NULL},
                        soft_timeout : 0..SOFT_TIMEOUT]]
  /\ fwd \in Seq(Pkts) /\ bwd \in Seq(Ids)
  /\ due \subseteq Nodes
  /\ failed \in {"no", "assert(!rflow)", "assert(rflow)"}
  /\ delivered \subseteq Flows \X Flows

\* The two indexes of the sending node tell the same: an id leads to a flow
\* exactly when that flow has it, and to none exactly when it is free.
TablesAgree ==
  \A i \in Ids :
    /\ \A f \in Flows : sflow_rindex[i] = f <=> Known(f) /\ sflow[f].fid = i
    /\ sflow_rindex[i] = NULL <=> \E k \in 1..Len(free) : free[k] = i

\* The ids are used as their pool expects: only held ids are released, each
\* once, so that the pool never has to refuse one.
Pool == INSTANCE IdFifo WITH held <- {sflow[f].fid : f \in {g \in Flows : Known(g)}}

UsesPool == Pool!Spec

\* A packet is restored with the headers of its own flow, though ids are used
\* again for other flows and requests, acknowledgements and packets get lost.
RightFlow == \A d \in delivered : d[1] = d[2]

\* A flow that waits for its acknowledgement does not wait for ever, where
\* nothing is lost.
PendingSettles ==
  "loses" \notin link =>
  \A f \in Flows : sflow[f].state = "PENDING" ~>
                     sflow[f].state # "PENDING" \/ failed # "no"

\* The assertions of recv_compress hold: the id of a request is not known
\* (assert(!rflow)), and that of a compacted packet is (assert(rflow)).
AssertionsHold == failed = "no"
=============================================================================
