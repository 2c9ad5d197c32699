-------------------------------- MODULE Split --------------------------------
(***************************************************************************)
(* The split layer (split.c): one sending session of a node (sse) and the  *)
(* matching receiving session of its peer (rse), over a datagram link that *)
(* loses, reorders, delays and duplicates frames and damages slices.       *)
(*                                                                         *)
(* A message is announced by a DATA frame that carries only its header.    *)
(* The receiver answers with the list of the slices it misses (ACKP), the  *)
(* sender sends those (PATCH), and the receiver, once it has all of them   *)
(* and the message checksum agrees, acknowledges (ACKA) and submits.  A    *)
(* sender that hears nothing asks again (ACKR), then resends DATA, then    *)
(* drops the message.  Every handler runs under its session's lock and is  *)
(* one atomic action here.                                                 *)
(*                                                                         *)
(* Abstractions.  A message is its number in order of acceptance; slice i  *)
(* of message m is identified by <<m, i>> and stored as m at index i.  The *)
(* checksums are taken to be collision free, so csum32(data) = d_csum says *)
(* that the data are those of the announced message, and a damaged frame   *)
(* header is a lost frame.  Time is counted in passes of the main loop     *)
(* (test.c: sleep(1), then proc_timer), and a deadline is kept as the      *)
(* number of passes left.                                                  *)
(***************************************************************************)
EXTENDS Integers, Sequences, FiniteSets

CONSTANTS
  NumMsgs,          \* bound: how many messages the caller sends
  NSlices,          \* number of slices of each message
  MAX_SLICE_NUM,    \* most slices a frame can hold (27 in the code)
  NumSeq,           \* sequence numbers are u8: 256 in the code
  ACK_TIMEOUT,      \* passes before the ack timer expires
  IDLE_TIMEOUT,     \* passes before a silent session is freed
  MAX_RETRY_TIMES,
  Links,            \* the links considered: what each may do, of LinkFaults
  NetCap,           \* bound: frames in flight at once
  SendCap,          \* bound: no frame is taken while a list holds as many
  UpperCap          \* bound: unread messages in upper_recv_list

Msgs == 1..NumMsgs
SeqNos == 0..(NumSeq - 1)
Nodes == {"snd", "rcv"}

\* Lose a frame or damage slices, deliver a frame again, hold a frame back for
\* longer than the period in which it was sent.
LinkFaults == {"loses", "repeats", "delays"}

ASSUME ConstantsAssumption ==
  /\ NumMsgs \in Nat
  /\ MAX_SLICE_NUM \in Nat \ {0}
  /\ NSlices \in [Msgs -> 1..MAX_SLICE_NUM]
  /\ NumSeq \in Nat \ {0}
  /\ ACK_TIMEOUT \in Nat \ {0}
  /\ IDLE_TIMEOUT \in Nat
  /\ ACK_TIMEOUT <= IDLE_TIMEOUT
  /\ MAX_RETRY_TIMES \in Nat
  /\ Links \subseteq SUBSET LinkFaults
  /\ NetCap \in Nat \ {0} /\ SendCap \in Nat \ {0} /\ UpperCap \in Nat \ {0}

VARIABLES
  sse,              \* the sender's session with the peer
  rse,              \* the receiver's session with the peer
  lower_send_list,  \* per node: frames waiting for lower_fetch
  link,             \* what the link may do
  net,              \* frames in flight
  upper_recv_list,  \* messages waiting for upper_recv
  due,              \* nodes whose timer pass of this period is still to run
  accepted,         \* messages taken by upper_send so far
  submits,          \* history: how often each message was submitted (up to 2)
  confirmed,        \* history: messages popped by an ACKA
  dropped           \* history: messages popped after the retries

senderVars == <<sse, accepted, confirmed, dropped>>
receiverVars == <<rse, upper_recv_list, submits>>
nodeVars == <<sse, rse, lower_send_list, net, upper_recv_list, due,
              accepted, submits, confirmed, dropped>>
vars == <<nodeVars, link>>

-----------------------------------------------------------------------------
(* Frames.  The addresses are those of the one pair of nodes. *)

Frame(type, seq, msg, slices) ==
  [type |-> type, seq |-> seq, msg |-> msg, slices |-> slices]

Frames == [type : {"DATA", "ACKR", "PATCH", "ACKA", "ACKP"},
           seq : SeqNos, msg : 0..NumMsgs, slices : SUBSET (0..MAX_SLICE_NUM)]

\* What upper_send keeps in send_node_t.escaped: the header of the message.
DataFrame(pkt) == Frame("DATA", pkt.seq, pkt.msg, {})

\* put_lower_send_list, for each of fs
Put(node, fs) ==
  lower_send_list' = [lower_send_list EXCEPT ![node] = @ \o fs]

-----------------------------------------------------------------------------
(* The sending session. *)

NoTimer == -1

Pkts == [msg : Msgs, seq : SeqNos]

SseType ==
  [live : BOOLEAN, seq : SeqNos, pkt_list : Seq(Pkts), is_waiting : BOOLEAN,
   ack_timeout : NoTimer..ACK_TIMEOUT, idle_timeout : 0..IDLE_TIMEOUT,
   ack_retry : 0..MAX_RETRY_TIMES, data_retry : 0..MAX_RETRY_TIMES]

NoSse ==
  [live |-> FALSE, seq |-> 0, pkt_list |-> <<>>, is_waiting |-> FALSE,
   ack_timeout |-> NoTimer, idle_timeout |-> 0,
   ack_retry |-> 0, data_retry |-> 0]

\* create_sse; get_sse refreshes the idle deadline of a session it finds
CreateSse == [NoSse EXCEPT !.live = TRUE, !.idle_timeout = IDLE_TIMEOUT]

\* Mutation of GetSse: the session is found but its deadline not pushed back.
GetSseNoRefresh == sse

GetSse == [sse EXCEPT !.idle_timeout = IDLE_TIMEOUT]

CanSend(se) == ~se.is_waiting /\ se.pkt_list # <<>>

TryLowerSend(se) ==
  IF CanSend(se)
  THEN [se EXCEPT !.ack_timeout = ACK_TIMEOUT, !.is_waiting = TRUE]
  ELSE se

LowerSent(se) ==
  IF CanSend(se) THEN <<DataFrame(Head(se.pkt_list))>> ELSE <<>>

\* Mutations of PopPkt: the ack timer is not removed, is_waiting not cleared.
PopPktKeepsTimer(se) ==
  [se EXCEPT !.pkt_list = Tail(@), !.is_waiting = FALSE,
             !.ack_retry = 0, !.data_retry = 0]

PopPktKeepsWaiting(se) ==
  [se EXCEPT !.pkt_list = Tail(@), !.ack_timeout = NoTimer,
             !.ack_retry = 0, !.data_retry = 0]

\* The state in which proc_ack_all and a drop leave the session before they
\* try to send the next packet.
PopPkt(se) ==
  [se EXCEPT !.pkt_list = Tail(@), !.is_waiting = FALSE,
             !.ack_timeout = NoTimer, !.ack_retry = 0, !.data_retry = 0]

UpperSend ==
  /\ accepted < NumMsgs
  /\ accepted' = accepted + 1
  /\ LET se == IF sse.live THEN GetSse ELSE CreateSse
         pkt == [msg |-> accepted + 1, seq |-> se.seq]
         queued == [se EXCEPT !.seq = (@ + 1) % NumSeq,
                              !.pkt_list = Append(@, pkt)]
     IN /\ sse' = TryLowerSend(queued)
        /\ Put("snd", LowerSent(queued))
  /\ UNCHANGED <<receiverVars, net, due, confirmed, dropped>>

\* Mutation of ForHead: any acknowledgement is taken for the head's.
ForHeadAnySeq(f) == sse.pkt_list # <<>>

\* An acknowledgement concerns the packet at the head of the queue.
ForHead(f) == sse.pkt_list # <<>> /\ Head(sse.pkt_list).seq = f.seq

ProcAckAll(f) ==
  /\ f.type = "ACKA"
  /\ IF sse.live /\ ForHead(f)
     THEN LET popped == PopPkt(GetSse)
          IN /\ sse' = TryLowerSend(popped)
             /\ Put("snd", LowerSent(popped))
             /\ confirmed' = confirmed \cup {Head(sse.pkt_list).msg}
     ELSE /\ sse' = IF sse.live THEN GetSse ELSE sse
          /\ UNCHANGED <<lower_send_list, confirmed>>
  /\ UNCHANGED <<receiverVars, accepted, dropped>>

\* send_patch: the requested slices that the packet has, none: no frame
PatchFrames(pkt, wanted) ==
  LET slices == {i \in wanted : i < NSlices[pkt.msg]}
  IN IF slices = {} THEN <<>>
     ELSE <<Frame("PATCH", pkt.seq, pkt.msg, slices)>>

ProcAckPart(f) ==
  /\ f.type = "ACKP"
  /\ IF sse.live /\ ForHead(f)
     THEN /\ sse' = [GetSse EXCEPT !.ack_timeout = ACK_TIMEOUT,
                                   !.ack_retry = 0]
          /\ Put("snd", PatchFrames(Head(sse.pkt_list), f.slices))
     ELSE /\ sse' = IF sse.live THEN GetSse ELSE sse
          /\ UNCHANGED lower_send_list
  /\ UNCHANGED <<receiverVars, accepted, confirmed, dropped>>

\* Mutation of AckReqFrame: the difference is not reduced to eight bits.
AckReqFrameUnmasked(se) == Frame("ACKR", se.seq - 1, 0, {})

\* send_ack_req: names the last packet queued, not the one waited for
AckReqFrame(se) == Frame("ACKR", (se.seq - 1) % NumSeq, 0, {})

-----------------------------------------------------------------------------
(* Time, and proc_timer on each node. *)

TimerPass(node) == node \in due /\ due' = due \ {node}

AckExpired == sse.live /\ sse.ack_timeout = 0

\* The last thing proc_timer does to a sending session: free it, packets and
\* all, once its idle deadline has passed.
IdleCheck(se) == IF se.live /\ se.idle_timeout = 0 THEN NoSse ELSE se

\* proc_timer on a session whose ack timer has not expired
TimerQuiet ==
  /\ TimerPass("snd")
  /\ ~AckExpired
  /\ sse' = IdleCheck(sse)
  /\ UNCHANGED <<receiverVars, lower_send_list, net, accepted, confirmed, dropped>>

\* proc_sse_ack_timeout asks for the acknowledgement; the timer stays expired,
\* so the next pass comes here again.
TimerAckReq ==
  /\ TimerPass("snd")
  /\ AckExpired
  /\ sse.ack_retry < MAX_RETRY_TIMES
  /\ sse' = IdleCheck([GetSse EXCEPT !.ack_retry = @ + 1])
  /\ Put("snd", <<AckReqFrame(sse)>>)
  /\ UNCHANGED <<receiverVars, net, accepted, confirmed, dropped>>

\* proc_sse_ack_timeout sends the packet at the head again
TimerResend ==
  /\ TimerPass("snd")
  /\ AckExpired
  /\ sse.ack_retry >= MAX_RETRY_TIMES
  /\ sse.data_retry < MAX_RETRY_TIMES
  /\ LET again == [GetSse EXCEPT !.ack_retry = 0, !.data_retry = @ + 1,
                                 !.is_waiting = FALSE]
     IN /\ sse' = IdleCheck(TryLowerSend(again))
        /\ Put("snd", LowerSent(again))
  /\ UNCHANGED <<receiverVars, net, accepted, confirmed, dropped>>

\* proc_sse_ack_timeout gives the packet at the head up
TimerDrop ==
  /\ TimerPass("snd")
  /\ AckExpired
  /\ sse.ack_retry >= MAX_RETRY_TIMES
  /\ sse.data_retry >= MAX_RETRY_TIMES
  /\ LET popped == PopPkt(GetSse)
     IN /\ sse' = IdleCheck(TryLowerSend(popped))
        /\ Put("snd", LowerSent(popped))
  /\ dropped' = dropped \cup {Head(sse.pkt_list).msg}
  /\ UNCHANGED <<receiverVars, net, accepted, confirmed>>

-----------------------------------------------------------------------------
(* The receiving session.  The field msg stands for what the DATA header   *)
(* announces: d_csum, msglen and n_slices.                                 *)

RseType ==
  [live : BOOLEAN, idle_timeout : 0..IDLE_TIMEOUT, seq_exp : SeqNos,
   msg : 0..NumMsgs, bitmap : SUBSET (0..MAX_SLICE_NUM),
   data : [0..MAX_SLICE_NUM -> 0..NumMsgs],
   completed : BOOLEAN, nak : BOOLEAN]

NoRse ==
  [live |-> FALSE, idle_timeout |-> 0, seq_exp |-> NumSeq - 1, msg |-> 0,
   bitmap |-> {}, data |-> [i \in 0..MAX_SLICE_NUM |-> 0],
   completed |-> FALSE, nak |-> FALSE]

\* create_rse with reset_rse; get_rse refreshes the idle deadline
CreateRse == [NoRse EXCEPT !.live = TRUE, !.idle_timeout = IDLE_TIMEOUT]

GetRse == [rse EXCEPT !.idle_timeout = IDLE_TIMEOUT]

\* The slices a complete message has, and their contents.
Whole(m) == 0..(NSlices[m] - 1)
Content(m) == [i \in Whole(m) |-> m]

\* Mutation of TestAllBitsSet: the mask is one bit short.
TestAllBitsSetShort(se) == se.bitmap = 0..(NSlices[se.msg] - 2)

\* test_all_bits_set compares the bitmap word with the mask of the lower
\* n_slices bits: a bit above them makes it false as well.
TestAllBitsSet(se) == se.bitmap = Whole(se.msg)

\* Mutation of CsumOk: the message checksum is not looked at.
CsumOkUnchecked(se) == TRUE

\* csum32(se->data, se->msglen) = se->d_csum
CsumOk(se) == \A i \in Whole(se.msg) : se.data[i] = se.msg

\* patch_rse: copies each slice of message m in slices.  cp_slice_to_rse
\* rejects a slice number above n_slices, but not n_slices itself.
PatchRse(se, m, slices) ==
  LET fit == {i \in slices : i <= NSlices[se.msg]}
  IN [se EXCEPT !.bitmap = @ \cup fit,
                !.data = [i \in 0..MAX_SLICE_NUM |-> IF i \in fit THEN m ELSE @[i]]]

\* send_ack: nothing under nak, nothing when no slice is missing but the
\* bitmap is not the expected one
AckFrames(se) ==
  LET missing == Whole(se.msg) \ se.bitmap
  IN IF se.nak THEN <<>>
     ELSE IF TestAllBitsSet(se) THEN <<Frame("ACKA", se.seq_exp, 0, {})>>
     ELSE IF missing = {} THEN <<>>
     ELSE <<Frame("ACKP", se.seq_exp, 0, missing)>>

CountSubmit(m) == [submits EXCEPT ![m] = IF @ = 0 THEN 1 ELSE 2]

\* Mutation of Complete: the message is put at the front of the list.
CompletePushFront(se) ==
  IF CsumOk(se)
  THEN /\ rse' = [se EXCEPT !.completed = TRUE]
       /\ Put("rcv", AckFrames(se))
       /\ upper_recv_list' = <<[i \in Whole(se.msg) |-> se.data[i]]>> \o upper_recv_list
       /\ submits' = CountSubmit(se.msg)
  ELSE /\ rse' = [se EXCEPT !.nak = TRUE]
       /\ UNCHANGED <<lower_send_list, upper_recv_list, submits>>

\* All slices are there: submit the message, or refuse to acknowledge
\* anything until the sender starts over.
Complete(se) ==
  IF CsumOk(se)
  THEN /\ rse' = [se EXCEPT !.completed = TRUE]
       /\ Put("rcv", AckFrames(se))
       /\ upper_recv_list' = Append(upper_recv_list,
                                    [i \in Whole(se.msg) |-> se.data[i]])
       /\ submits' = CountSubmit(se.msg)
  ELSE /\ rse' = [se EXCEPT !.nak = TRUE]
       /\ UNCHANGED <<lower_send_list, upper_recv_list, submits>>

\* A DATA frame starts the session over, whatever its state.
ProcData(f) ==
  /\ f.type = "DATA"
  /\ LET found == IF rse.live THEN GetRse ELSE CreateRse
         started == [found EXCEPT !.bitmap = {}, !.seq_exp = f.seq,
                                  !.msg = f.msg, !.completed = FALSE,
                                  !.nak = FALSE]
         se == PatchRse(started, f.msg, f.slices)
     IN IF TestAllBitsSet(se)
        THEN Complete(se)
        ELSE /\ rse' = se
             /\ Put("rcv", AckFrames(se))
             /\ UNCHANGED <<upper_recv_list, submits>>
  /\ UNCHANGED senderVars

ProcAckReq(f) ==
  /\ f.type = "ACKR"
  /\ rse' = IF rse.live THEN GetRse ELSE rse
  /\ IF rse.live /\ rse.seq_exp = f.seq
     THEN Put("rcv", AckFrames(rse))
     ELSE UNCHANGED lower_send_list
  /\ UNCHANGED <<senderVars, upper_recv_list, submits>>

\* good: the slices of the frame whose checksum survived the link
ProcPatch(f, good) ==
  /\ f.type = "PATCH"
  /\ LET se == PatchRse(GetRse, f.msg, good)
         taken == rse.live /\ rse.seq_exp = f.seq /\ ~rse.completed
     IN IF taken /\ TestAllBitsSet(se)
        THEN Complete(se)
        ELSE /\ rse' = IF taken THEN se ELSE IF rse.live THEN GetRse ELSE rse
             /\ UNCHANGED <<lower_send_list, upper_recv_list, submits>>
  /\ UNCHANGED senderVars

\* proc_timer on the receiving session
ReceiverTimer ==
  /\ TimerPass("rcv")
  /\ rse' = IF rse.live /\ rse.idle_timeout = 0 THEN NoRse ELSE rse
  /\ UNCHANGED <<senderVars, lower_send_list, net, upper_recv_list, submits>>

UpperRecv ==
  /\ upper_recv_list # <<>>
  /\ upper_recv_list' = Tail(upper_recv_list)
  /\ UNCHANGED <<senderVars, rse, lower_send_list, net, due, submits>>

-----------------------------------------------------------------------------
(* The link. *)

\* lower_fetch, then udp_send
LowerFetch(node) ==
  /\ lower_send_list[node] # <<>>
  /\ Cardinality(net) < NetCap
  /\ lower_send_list' = [lower_send_list EXCEPT ![node] = Tail(@)]
  /\ net' = net \cup {Head(lower_send_list[node])}
  /\ UNCHANGED <<senderVars, receiverVars, due>>

\* The link loses a frame, or damages its header: lower_put rejects it.
Lose(f) ==
  /\ "loses" \in link
  /\ net' = net \ {f}
  /\ UNCHANGED <<senderVars, receiverVars, lower_send_list, due>>

SendRoom == \A n \in Nodes : Len(lower_send_list[n]) < SendCap

\* udp_recv, then lower_put: the handler of the frame's type
LowerPut(f) ==
  /\ SendRoom
  /\ Len(upper_recv_list) < UpperCap
  /\ net' = net \ {f} \/ ("repeats" \in link /\ net' = net)
  /\ \/ ProcData(f)
     \/ ProcAckReq(f)
     \/ \E good \in SUBSET f.slices :
          ("loses" \in link \/ good = f.slices) /\ ProcPatch(f, good)
     \/ ProcAckAll(f)
     \/ ProcAckPart(f)
  /\ UNCHANGED due

\* A period of the main loops goes by.  Both nodes' loops run once a period.
Tick ==
  /\ due = {}
  /\ SendRoom
  /\ "delays" \notin link => net = {} /\ \A n \in Nodes : lower_send_list[n] = <<>>
  /\ due' = Nodes
  /\ sse' = [sse EXCEPT !.idle_timeout = IF @ > 0 THEN @ - 1 ELSE @,
                        !.ack_timeout = IF @ > 0 THEN @ - 1 ELSE @]
  /\ rse' = [rse EXCEPT !.idle_timeout = IF @ > 0 THEN @ - 1 ELSE @]
  /\ UNCHANGED <<lower_send_list, net, upper_recv_list,
                 accepted, submits, confirmed, dropped>>

-----------------------------------------------------------------------------
\* split_init
Init ==
  /\ link \in Links
  /\ sse = NoSse /\ rse = NoRse
  /\ lower_send_list = [n \in Nodes |-> <<>>]
  /\ net = {}
  /\ upper_recv_list = <<>>
  /\ due = {}
  /\ accepted = 0
  /\ submits = [m \in Msgs |-> 0]
  /\ confirmed = {} /\ dropped = {}

Step ==
  \/ UpperSend \/ UpperRecv
  \/ TimerQuiet \/ TimerAckReq \/ TimerResend \/ TimerDrop \/ ReceiverTimer
  \/ \E n \in Nodes : LowerFetch(n)
  \/ \E f \in net : Lose(f) \/ LowerPut(f)
  \/ Tick

Next == Step /\ UNCHANGED link

Spec == Init /\ [][Next]_vars

\* The loops of test.c keep running (WF), the link disposes of every frame,
\* and a link that carries slices for ever does not damage all of them (SF).
TimerSender == TimerQuiet \/ TimerAckReq \/ TimerResend \/ TimerDrop

Dispose == \E f \in net : Lose(f) \/ LowerPut(f)

PatchArrives ==
  \E f \in net : f.type = "PATCH" /\ LowerPut(f) /\ rse'.bitmap # rse.bitmap

Fairness ==
  /\ WF_nodeVars(Tick) /\ WF_nodeVars(TimerSender) /\ WF_nodeVars(ReceiverTimer)
  /\ \A n \in Nodes : WF_nodeVars(LowerFetch(n))
  /\ WF_nodeVars(UpperRecv) /\ WF_nodeVars(Dispose) /\ SF_nodeVars(PatchArrives)

FairSpec == Spec /\ Fairness

-----------------------------------------------------------------------------
\* Type invariant.
TypeOK ==
  /\ sse \in SseType /\ rse \in RseType /\ link \in Links
  /\ lower_send_list \in [Nodes -> Seq(Frames)]
  /\ net \subseteq Frames
  /\ upper_recv_list \in Seq(UNION {[Whole(m) -> 0..NumMsgs] : m \in Msgs})
  /\ due \subseteq Nodes
  /\ accepted \in 0..NumMsgs
  /\ submits \in [Msgs -> 0..2]
  /\ confirmed \subseteq Msgs /\ dropped \subseteq Msgs

\* The ack timer of a session runs exactly while a packet waits for its
\* acknowledgement, and a packet waits whenever the queue has one: the queue
\* can neither stall with nothing armed nor time out with nothing to resend
\* (proc_sse_ack_timeout takes the front of the list unchecked).
TimerGuardsQueue ==
  /\ sse.is_waiting <=> sse.pkt_list # <<>>
  /\ sse.is_waiting <=> sse.ack_timeout # NoTimer

\* proc_timer frees a sending session only when its queue is empty: the ack
\* timer always expires before the idle deadline and pushes it back.
ReapedQueueEmpty ==
  [][sse.live /\ ~sse'.live => sse.pkt_list = <<>>]_vars

\* Only whole messages, exactly as they were accepted, reach upper_recv_list,
\* even when slices of different messages with one sequence number mix.
Integrity ==
  \A i \in 1..Len(upper_recv_list) :
    \E m \in 1..accepted : upper_recv_list[i] = Content(m)

\* What the caller relies on: messages are resolved in order, and one whose
\* acknowledgement popped it had been submitted by the peer.
Service == INSTANCE LinkService WITH
  queue <- [i \in 1..Len(sse.pkt_list) |-> sse.pkt_list[i].msg],
  submitted <- {m \in Msgs : submits[m] > 0}

ImplementsService == Service!Spec

\* What compaction relies on (its channel in CompactFlow), on a link that neither
\* delivers a frame twice nor late: messages reach upper_recv in the order of
\* upper_send, one perhaps several times before the next, and one that still
\* waits for its acknowledgement comes after those not yet read.
UpperInOrder ==
  LET order == [i \in 1..Len(upper_recv_list) |-> upper_recv_list[i][0]]
                 \o [i \in 1..Len(sse.pkt_list) |-> sse.pkt_list[i].msg]
  IN link \cap {"repeats", "delays"} = {} =>
       \A i, j \in 1..Len(order) : i < j => order[i] <= order[j]

\* The send queue keeps moving: every message is confirmed or dropped, however
\* often frames are lost, though every ACKP sets the retry count back.
EveryMessageResolved ==
  \A m \in Msgs : accepted >= m ~> m \in confirmed \cup dropped

\* On a link that loses nothing and is quicker than the timers nothing is
\* given up: every message is confirmed.
EveryMessageConfirmed ==
  link = {} => \A m \in Msgs : accepted >= m ~> m \in confirmed

\* proc_data and proc_patch submit a message only once (the comment in
\* proc_data: "ensure submit only once").
SubmitOnce == \A m \in Msgs : submits[m] <= 1

=============================================================================
