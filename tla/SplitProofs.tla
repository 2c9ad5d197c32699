----------------------------- MODULE SplitProofs -----------------------------
(***************************************************************************)
(* Proofs about Split, for every value of its constants: the type          *)
(* invariant, the guard the ack timer keeps on the send queue, that only   *)
(* an empty sending session is freed, and the integrity of what is         *)
(* submitted, on a link that loses, delays, reorders and duplicates.       *)
(***************************************************************************)
EXTENDS Split, SequenceTheorems, TLAPS

-----------------------------------------------------------------------------
(* The inductive invariant. *)

\* The sending session: beside TimerGuardsQueue, the ack timer expires no
\* later than the idle deadline.
SseInv(se) ==
  /\ se.is_waiting <=> se.pkt_list # <<>>
  /\ se.is_waiting <=> se.ack_timeout # NoTimer
  /\ se.is_waiting => se.ack_timeout <= se.idle_timeout

\* What a handler has made of a session when it calls try_lower_send.
SendReady(se) ==
  /\ se \in SseType /\ se.live /\ se.idle_timeout = IDLE_TIMEOUT
  /\ se.is_waiting => se.pkt_list # <<>> /\ se.ack_timeout # NoTimer
  /\ ~se.is_waiting /\ se.pkt_list = <<>> => se.ack_timeout = NoTimer

\* Packets, frames and contents of messages among the first k accepted.
PktsOf(k) == [msg : 1..k, seq : SeqNos]

FramesOf(k) == {f \in Frames : f.type \in {"DATA", "PATCH"} => f.msg \in 1..k}

ContentsOf(k) == {Content(m) : m \in 1..k}

\* Typing and invariant of the sender, of the receiver and of what is under
\* way between them; whatever circulates belongs to an accepted message.
SenderInv ==
  /\ sse \in SseType /\ SseInv(sse)
  /\ sse.pkt_list \in Seq(PktsOf(accepted))
  /\ accepted \in 0..NumMsgs
  /\ confirmed \subseteq Msgs /\ dropped \subseteq Msgs

ReceiverInv ==
  /\ rse \in RseType
  /\ rse.live => rse.msg \in 1..accepted
  /\ upper_recv_list \in Seq(ContentsOf(accepted))
  /\ submits \in [Msgs -> 0..2]

LinkInv ==
  /\ lower_send_list \in [Nodes -> Seq(FramesOf(accepted))]
  /\ net \subseteq FramesOf(accepted)
  /\ due \subseteq Nodes

IInv == SenderInv /\ ReceiverInv /\ LinkInv

-----------------------------------------------------------------------------
(* The sending session. *)

\* The previous sequence number is a sequence number (send_ack_req).
LEMMA PrevSeqNo ==
  ASSUME NEW x \in SeqNos
  PROVE  (x - 1) % NumSeq \in SeqNos /\ (x + 1) % NumSeq \in SeqNos
BY ConstantsAssumption DEF SeqNos

\* try_lower_send leaves the session with its timer guarding the queue.
LEMMA TryLowerSendInv ==
  ASSUME NEW se, SendReady(se)
  PROVE  TryLowerSend(se) \in SseType /\ SseInv(TryLowerSend(se))
<1>1. se.live /\ se.idle_timeout = IDLE_TIMEOUT /\ se.pkt_list \in Seq(Pkts)
  BY DEF SendReady, SseType
<1>2. ACK_TIMEOUT \in NoTimer..ACK_TIMEOUT /\ ACK_TIMEOUT # NoTimer
  BY ConstantsAssumption DEF NoTimer
<1>3. CASE CanSend(se)
  <2>1. TryLowerSend(se) = [se EXCEPT !.ack_timeout = ACK_TIMEOUT, !.is_waiting = TRUE]
    BY <1>3 DEF TryLowerSend
  <2>2. TryLowerSend(se) \in SseType
    BY <1>2, <2>1 DEF SendReady, SseType
  <2>3. /\ TryLowerSend(se).live /\ TryLowerSend(se).is_waiting
        /\ TryLowerSend(se).pkt_list # <<>>
        /\ TryLowerSend(se).ack_timeout = ACK_TIMEOUT
        /\ TryLowerSend(se).idle_timeout = IDLE_TIMEOUT
    BY <1>1, <1>3, <2>1 DEF CanSend, SendReady, SseType
  <2> QED BY <1>2, <2>2, <2>3, ConstantsAssumption DEF SseInv
<1>4. CASE ~CanSend(se)
  <2>1. TryLowerSend(se) = se
    BY <1>4 DEF TryLowerSend
  <2>2. se.is_waiting => se.ack_timeout <= IDLE_TIMEOUT
    BY ConstantsAssumption DEF SendReady, SseType, NoTimer
  <2> QED BY <1>1, <1>4, <2>1, <2>2 DEF SendReady, SseInv, CanSend
<1> QED BY <1>3, <1>4

\* The state of a freed session.
LEMMA NoSseFields ==
  NoSse \in SseType /\ SseInv(NoSse) /\ NoSse.pkt_list = <<>> /\ ~NoSse.live
<1>1. /\ 0 \in SeqNos /\ NoTimer \in NoTimer..ACK_TIMEOUT
      /\ 0 \in 0..IDLE_TIMEOUT /\ 0 \in 0..MAX_RETRY_TIMES
  BY ConstantsAssumption DEF SeqNos, NoTimer
<1>2. <<>> \in Seq(Pkts)
  BY EmptySeq
<1>3. NoSse \in SseType
  BY <1>1, <1>2 DEF NoSse, SseType
<1> QED BY <1>3 DEF NoSse, SseInv

\* A new session is empty (create_sse).
LEMMA CreateSseFields ==
  /\ CreateSse \in SseType /\ CreateSse.live
  /\ CreateSse.idle_timeout = IDLE_TIMEOUT
  /\ CreateSse.pkt_list = <<>> /\ CreateSse.is_waiting = FALSE
  /\ CreateSse.ack_timeout = NoTimer
<1>1. IDLE_TIMEOUT \in 0..IDLE_TIMEOUT
  BY ConstantsAssumption
<1>2. CreateSse \in SseType
  BY <1>1, NoSseFields DEF CreateSse, SseType
<1> QED BY <1>2 DEF CreateSse, NoSse

\* The session of which get_sse has refreshed the deadline.
LEMMA GetSseFields ==
  ASSUME sse \in SseType
  PROVE  /\ GetSse \in SseType
         /\ GetSse = [sse EXCEPT !.idle_timeout = IDLE_TIMEOUT]
         /\ GetSse.idle_timeout = IDLE_TIMEOUT
         /\ GetSse.live = sse.live /\ GetSse.pkt_list = sse.pkt_list
         /\ GetSse.is_waiting = sse.is_waiting
         /\ GetSse.ack_timeout = sse.ack_timeout
         /\ GetSse.ack_retry = sse.ack_retry /\ GetSse.data_retry = sse.data_retry
         /\ GetSse.seq = sse.seq
<1>1. IDLE_TIMEOUT \in 0..IDLE_TIMEOUT
  BY ConstantsAssumption
<1>2. GetSse = [sse EXCEPT !.idle_timeout = IDLE_TIMEOUT]
  BY DEF GetSse
<1>3. GetSse \in SseType
  BY <1>1, <1>2 DEF SseType
<1> QED BY <1>2, <1>3 DEF SseType

\* Refreshing the deadline preserves the invariant of a live session.
LEMMA GetSseInv ==
  ASSUME sse \in SseType, SseInv(sse), sse.live
  PROVE  SseInv(GetSse) /\ SendReady(GetSse)
BY GetSseFields, ConstantsAssumption DEF SseInv, SendReady, SseType, NoTimer

\* Popping the head of a live queue makes the session ready to send.
LEMMA PopPktReady ==
  ASSUME sse \in SseType, sse.live, sse.pkt_list # <<>>
  PROVE  /\ SendReady(PopPkt(GetSse))
         /\ PopPkt(GetSse).pkt_list = Tail(sse.pkt_list)
<1>1. GetSse \in SseType /\ GetSse.live /\ GetSse.pkt_list = sse.pkt_list
      /\ GetSse.idle_timeout = IDLE_TIMEOUT
  BY GetSseFields
<1>2. Tail(sse.pkt_list) \in Seq(Pkts)
  BY HeadTailProperties DEF SseType
<1>3. NoTimer \in NoTimer..ACK_TIMEOUT /\ 0 \in 0..MAX_RETRY_TIMES
  BY ConstantsAssumption DEF NoTimer
<1> QED BY <1>1, <1>2, <1>3 DEF PopPkt, SendReady, SseType

\* What try_lower_send sends is the announcement of the head of the queue.
LEMMA LowerSentFrames ==
  ASSUME NEW k \in 0..NumMsgs, NEW se, se.pkt_list \in Seq(PktsOf(k))
  PROVE  LowerSent(se) \in Seq(FramesOf(k))
<1>1. CASE CanSend(se)
  <2>1. Head(se.pkt_list) \in PktsOf(k)
    BY <1>1, HeadTailProperties DEF CanSend
  <2>2. DataFrame(Head(se.pkt_list)) \in FramesOf(k)
    BY <2>1, ConstantsAssumption DEF DataFrame, Frame, Frames, FramesOf, PktsOf
  <2> QED BY <1>1, <2>2 DEF LowerSent
<1>2. CASE ~CanSend(se)
  BY <1>2 DEF LowerSent
<1> QED BY <1>1, <1>2

\* try_lower_send does not touch the queue, and the deadline is fresh.
LEMMA TryLowerSendQueue ==
  ASSUME NEW se, SendReady(se)
  PROVE  /\ TryLowerSend(se).pkt_list = se.pkt_list
         /\ TryLowerSend(se).live
         /\ TryLowerSend(se).idle_timeout = IDLE_TIMEOUT
BY DEF TryLowerSend, SendReady, SseType

\* proc_timer does not free a session it has just refreshed.
LEMMA FreshNotFreed ==
  ASSUME NEW se, se.idle_timeout = IDLE_TIMEOUT
  PROVE  IdleCheck(se) = se
BY ConstantsAssumption DEF IdleCheck

\* put_lower_send_list keeps the lists lists of frames of accepted messages.
LEMMA PutFrames ==
  ASSUME NEW k, NEW node \in Nodes, NEW fs \in Seq(FramesOf(k)),
         lower_send_list \in [Nodes -> Seq(FramesOf(k))], Put(node, fs)
  PROVE  lower_send_list' \in [Nodes -> Seq(FramesOf(k))]
<1>1. lower_send_list[node] \o fs \in Seq(FramesOf(k))
  BY ConcatProperties
<1> QED BY <1>1 DEF Put

\* Later acceptances only widen what may circulate.
LEMMA FramesMonotonic ==
  ASSUME NEW k \in Nat
  PROVE  /\ FramesOf(k) \subseteq FramesOf(k + 1)
         /\ Seq(FramesOf(k)) \subseteq Seq(FramesOf(k + 1))
         /\ Seq(PktsOf(k)) \subseteq Seq(PktsOf(k + 1))
         /\ Seq(ContentsOf(k)) \subseteq Seq(ContentsOf(k + 1))
<1>1. FramesOf(k) \subseteq FramesOf(k + 1)
  BY DEF FramesOf
<1>2. PktsOf(k) \subseteq PktsOf(k + 1)
  BY DEF PktsOf
<1>3. ContentsOf(k) \subseteq ContentsOf(k + 1)
  BY DEF ContentsOf
<1> QED BY <1>1, <1>2, <1>3, SeqMonotonic

-----------------------------------------------------------------------------
(* Each action of the sending side preserves the invariant. *)

\* The receiver's part holds on when its variables stay and messages are
\* accepted.
LEMMA ReceiverStays ==
  ASSUME SenderInv, ReceiverInv, UNCHANGED receiverVars,
         accepted' \in {accepted, accepted + 1}
  PROVE  ReceiverInv'
<1>1. accepted \in Nat
  BY ConstantsAssumption DEF SenderInv
<1>2. upper_recv_list \in Seq(ContentsOf(accepted'))
  BY <1>1, FramesMonotonic DEF ReceiverInv
<1>3. rse.live => rse.msg \in 1..accepted'
  BY <1>1 DEF ReceiverInv
<1> QED BY <1>2, <1>3 DEF ReceiverInv, receiverVars

LEMMA UpperSendInv ==
  ASSUME IInv, UpperSend
  PROVE  IInv' /\ sse'.live
<1> DEFINE se == IF sse.live THEN GetSse ELSE CreateSse
           pkt == [msg |-> accepted + 1, seq |-> se.seq]
           queued == [se EXCEPT !.seq = (@ + 1) % NumSeq,
                                !.pkt_list = Append(@, pkt)]
<1>1. /\ accepted < NumMsgs /\ accepted' = accepted + 1
      /\ sse' = TryLowerSend(queued) /\ Put("snd", LowerSent(queued))
      /\ UNCHANGED <<rse, upper_recv_list, submits, net, due, confirmed, dropped>>
  BY DEF UpperSend, receiverVars
<1>2. accepted \in Nat /\ accepted + 1 \in Msgs /\ accepted' \in 0..NumMsgs
  BY <1>1, ConstantsAssumption DEF IInv, SenderInv, Msgs
<1>3. /\ se \in SseType /\ se.live /\ se.idle_timeout = IDLE_TIMEOUT
      /\ se.pkt_list \in Seq(PktsOf(accepted + 1))
      /\ se.is_waiting <=> se.pkt_list # <<>>
      /\ se.is_waiting <=> se.ack_timeout # NoTimer
  <2>1. CASE sse.live
    <3>1. se = GetSse /\ sse \in SseType /\ SseInv(sse)
      BY <2>1 DEF IInv, SenderInv
    <3>2. sse.pkt_list \in Seq(PktsOf(accepted + 1))
      BY <1>2, FramesMonotonic DEF IInv, SenderInv
    <3> QED BY <2>1, <3>1, <3>2, GetSseFields, GetSseInv DEF SseInv
  <2>2. CASE ~sse.live
    <3>1. se = CreateSse
      BY <2>2
    <3> QED BY <3>1, CreateSseFields, EmptySeq
  <2> QED BY <2>1, <2>2
<1> HIDE DEF se
<1>4. pkt \in PktsOf(accepted + 1) /\ pkt \in Pkts
  BY <1>2, <1>3 DEF PktsOf, Pkts, SseType
<1> HIDE DEF pkt
<1>5. /\ Append(se.pkt_list, pkt) \in Seq(PktsOf(accepted + 1))
      /\ Append(se.pkt_list, pkt) \in Seq(Pkts)
      /\ Append(se.pkt_list, pkt) # <<>>
  BY <1>3, <1>4 DEF SseType
<1>6. (se.seq + 1) % NumSeq \in SeqNos
  BY <1>3, PrevSeqNo DEF SseType
<1>7. /\ queued.pkt_list = Append(se.pkt_list, pkt)
      /\ queued.live = se.live /\ queued.idle_timeout = se.idle_timeout
      /\ queued.is_waiting = se.is_waiting
      /\ queued.ack_timeout = se.ack_timeout
      /\ queued \in SseType
  BY <1>3, <1>5, <1>6 DEF SseType
<1> HIDE DEF queued
<1>8. SendReady(queued)
  BY <1>3, <1>5, <1>7 DEF SendReady
<1>9. SenderInv'
  <2>1. sse' \in SseType /\ SseInv(sse')
    BY <1>1, <1>8, TryLowerSendInv
  <2>2. sse'.pkt_list \in Seq(PktsOf(accepted'))
    BY <1>1, <1>5, <1>7, <1>8, TryLowerSendQueue
  <2> QED BY <1>1, <1>2, <2>1, <2>2 DEF IInv, SenderInv, SseInv
<1>10. LinkInv'
  <2>1. LowerSent(queued) \in Seq(FramesOf(accepted'))
    BY <1>1, <1>2, <1>5, <1>7, LowerSentFrames
  <2>2. lower_send_list \in [Nodes -> Seq(FramesOf(accepted'))]
    BY <1>1, <1>2, FramesMonotonic DEF IInv, LinkInv
  <2>3. lower_send_list' \in [Nodes -> Seq(FramesOf(accepted'))]
    BY <1>1, <2>1, <2>2, PutFrames DEF Nodes
  <2>4. net' \subseteq FramesOf(accepted')
    BY <1>1, <1>2, FramesMonotonic DEF IInv, LinkInv
  <2> QED BY <1>1, <2>3, <2>4 DEF IInv, LinkInv
<1>11. ReceiverInv'
  BY <1>1, ReceiverStays DEF IInv, receiverVars
<1> QED BY <1>1, <1>8, <1>9, <1>10, <1>11, TryLowerSendQueue DEF IInv

\* Once the head is popped (acknowledged or given up), the next packet is sent
\* and everything is in place.
LEMMA ResolveHead ==
  ASSUME IInv, sse.live, sse.pkt_list # <<>>,
         sse' = TryLowerSend(PopPkt(GetSse)),
         Put("snd", LowerSent(PopPkt(GetSse))),
         UNCHANGED <<receiverVars, accepted>>,
         net' \subseteq net, due' \subseteq due,
         confirmed' \subseteq Msgs, dropped' \subseteq Msgs
  PROVE  IInv'
<1> DEFINE popped == PopPkt(GetSse)
<1>1. sse \in SseType /\ sse.pkt_list \in Seq(PktsOf(accepted))
  BY DEF IInv, SenderInv
<1>2. SendReady(popped) /\ popped.pkt_list = Tail(sse.pkt_list)
  BY <1>1, PopPktReady
<1>3. popped.pkt_list \in Seq(PktsOf(accepted))
  BY <1>1, <1>2, HeadTailProperties
<1> HIDE DEF popped
<1>4. SenderInv'
  <2>1. sse' \in SseType /\ SseInv(sse')
    BY <1>2, TryLowerSendInv DEF popped
  <2>2. sse'.pkt_list \in Seq(PktsOf(accepted))
    BY <1>2, <1>3, TryLowerSendQueue DEF popped
  <2> QED BY <2>1, <2>2 DEF IInv, SenderInv, SseInv
<1>5. LinkInv'
  <2>1. LowerSent(popped) \in Seq(FramesOf(accepted))
    BY <1>3, LowerSentFrames DEF IInv, SenderInv
  <2>2. lower_send_list' \in [Nodes -> Seq(FramesOf(accepted))]
    BY <2>1, PutFrames DEF IInv, LinkInv, Nodes, popped
  <2> QED BY <2>2 DEF IInv, LinkInv
<1>6. ReceiverInv'
  BY ReceiverStays DEF IInv
<1> QED BY <1>4, <1>5, <1>6 DEF IInv

\* The head of the queue is one of the messages.
LEMMA HeadIsMsg ==
  ASSUME IInv, sse.pkt_list # <<>>
  PROVE  Head(sse.pkt_list) \in PktsOf(accepted) /\ Head(sse.pkt_list).msg \in Msgs
<1>1. Head(sse.pkt_list) \in PktsOf(accepted)
  BY HeadTailProperties DEF IInv, SenderInv
<1>2. 1..accepted \subseteq Msgs
  BY ConstantsAssumption DEF IInv, SenderInv, Msgs
<1> QED BY <1>1, <1>2 DEF PktsOf

\* An acknowledgement only makes the session of get_sse, unless it is the
\* head's.
LEMMA RefreshInv ==
  ASSUME IInv, sse' = IF sse.live THEN GetSse ELSE sse,
         UNCHANGED <<receiverVars, lower_send_list, accepted, confirmed, dropped>>,
         net' \subseteq net, due' \subseteq due
  PROVE  IInv'
<1>1. sse' \in SseType /\ SseInv(sse') /\ sse'.pkt_list = sse.pkt_list
  BY GetSseFields, GetSseInv DEF IInv, SenderInv
<1>2. SenderInv'
  BY <1>1 DEF IInv, SenderInv, SseInv
<1>3. LinkInv'
  BY DEF IInv, LinkInv
<1> QED BY <1>2, <1>3, ReceiverStays DEF IInv

\* net shrinks or stays while lower_put handles a frame of it.
LEMMA ProcAckAllInv ==
  ASSUME IInv, NEW f \in net, ProcAckAll(f), net' \subseteq net, UNCHANGED due
  PROVE  IInv'
<1>1. CASE sse.live /\ ForHead(f)
  <2>1. /\ sse' = TryLowerSend(PopPkt(GetSse))
        /\ Put("snd", LowerSent(PopPkt(GetSse)))
        /\ confirmed' = confirmed \cup {Head(sse.pkt_list).msg}
        /\ UNCHANGED <<receiverVars, accepted, dropped>>
        /\ sse.pkt_list # <<>>
    BY <1>1 DEF ProcAckAll, ForHead
  <2>2. confirmed' \subseteq Msgs /\ dropped' \subseteq Msgs
    BY <2>1, HeadIsMsg DEF IInv, SenderInv
  <2> QED BY <1>1, <2>1, <2>2, ResolveHead
<1>2. CASE ~(sse.live /\ ForHead(f))
  BY <1>2, RefreshInv DEF ProcAckAll
<1> QED BY <1>1, <1>2

LEMMA ProcAckPartInv ==
  ASSUME IInv, NEW f \in net, ProcAckPart(f), net' \subseteq net, UNCHANGED due
  PROVE  IInv'
<1>1. CASE sse.live /\ ForHead(f)
  <2> DEFINE pkt == Head(sse.pkt_list)
  <2>1. /\ sse' = [GetSse EXCEPT !.ack_timeout = ACK_TIMEOUT, !.ack_retry = 0]
        /\ Put("snd", PatchFrames(pkt, f.slices))
        /\ UNCHANGED <<receiverVars, accepted, confirmed, dropped>>
        /\ sse.pkt_list # <<>>
    BY <1>1 DEF ProcAckPart, ForHead
  <2>2. pkt \in PktsOf(accepted)
    BY <2>1, HeadIsMsg
  <2>3. GetSse \in SseType /\ SseInv(GetSse) /\ GetSse.live
        /\ GetSse.pkt_list = sse.pkt_list /\ GetSse.idle_timeout = IDLE_TIMEOUT
    BY <1>1, GetSseFields, GetSseInv DEF IInv, SenderInv
  <2>4. ACK_TIMEOUT \in NoTimer..ACK_TIMEOUT /\ 0 \in 0..MAX_RETRY_TIMES
        /\ ACK_TIMEOUT # NoTimer /\ ACK_TIMEOUT <= IDLE_TIMEOUT
    BY ConstantsAssumption DEF NoTimer
  <2>5. sse' \in SseType
    BY <2>1, <2>3, <2>4 DEF SseType
  <2>6. /\ sse'.live /\ sse'.pkt_list = sse.pkt_list
        /\ sse'.is_waiting = GetSse.is_waiting
        /\ sse'.ack_timeout = ACK_TIMEOUT /\ sse'.idle_timeout = IDLE_TIMEOUT
    BY <2>1, <2>3 DEF SseType
  <2>7. SenderInv'
    BY <2>1, <2>3, <2>4, <2>5, <2>6 DEF IInv, SenderInv, SseInv
  <2>8. PatchFrames(pkt, f.slices) \in Seq(FramesOf(accepted))
    <3> DEFINE slices == {i \in f.slices : i < NSlices[pkt.msg]}
    <3>1. f \in Frames
      BY DEF IInv, LinkInv, FramesOf
    <3>2. slices \subseteq 0..MAX_SLICE_NUM
      BY <3>1 DEF Frames
    <3>3. pkt.msg \in 0..NumMsgs
      BY <2>2, ConstantsAssumption DEF IInv, SenderInv, PktsOf
    <3> HIDE DEF slices
    <3>4. Frame("PATCH", pkt.seq, pkt.msg, slices) \in FramesOf(accepted)
      BY <2>2, <3>2, <3>3 DEF Frame, Frames, FramesOf, PktsOf
    <3> QED BY <3>4 DEF PatchFrames, slices
  <2>9. LinkInv'
    BY <2>1, <2>8, PutFrames DEF IInv, LinkInv, Nodes
  <2> QED BY <2>1, <2>7, <2>9, ReceiverStays DEF IInv
<1>2. CASE ~(sse.live /\ ForHead(f))
  BY <1>2, RefreshInv DEF ProcAckPart
<1> QED BY <1>1, <1>2

-----------------------------------------------------------------------------
(* proc_timer preserves the invariant, and frees only an empty session. *)

\* A session with a packet in its queue is never freed while its ack timer is
\* still running: the timer expires first.
LEMMA TimerQuietInv ==
  ASSUME IInv, TimerQuiet
  PROVE  IInv' /\ (sse.live /\ ~sse'.live => sse.pkt_list = <<>>)
<1>1. sse \in SseType /\ SseInv(sse)
  BY DEF IInv, SenderInv
<1>2. CASE sse.live /\ sse.idle_timeout = 0
  <2>1. sse' = NoSse
    BY <1>2 DEF TimerQuiet, IdleCheck
  <2>2. sse.ack_timeout # 0
    BY <1>2 DEF TimerQuiet, AckExpired
  <2>3. ~sse.is_waiting
    <3>1. SUFFICES ASSUME sse.is_waiting PROVE FALSE
      OBVIOUS
    <3>2. sse.ack_timeout <= 0 /\ sse.ack_timeout # NoTimer
      BY <1>1, <1>2, <3>1 DEF SseInv
    <3> QED BY <1>1, <2>2, <3>2, ConstantsAssumption DEF SseType, NoTimer
  <2>4. sse.pkt_list = <<>>
    BY <1>1, <2>3 DEF SseInv
  <2>5. SenderInv'
    BY <2>1, NoSseFields, EmptySeq DEF IInv, SenderInv, SseInv, TimerQuiet
  <2>6. LinkInv'
    BY DEF IInv, LinkInv, TimerQuiet, TimerPass
  <2> QED BY <2>4, <2>5, <2>6, ReceiverStays DEF IInv, TimerQuiet
<1>3. CASE ~(sse.live /\ sse.idle_timeout = 0)
  <2>1. sse' = sse
    BY <1>3 DEF TimerQuiet, IdleCheck
  <2>2. SenderInv'
    BY <2>1 DEF IInv, SenderInv, SseInv, TimerQuiet
  <2>3. LinkInv'
    BY DEF IInv, LinkInv, TimerQuiet, TimerPass
  <2> QED BY <2>1, <2>2, <2>3, ReceiverStays DEF IInv, TimerQuiet
<1> QED BY <1>2, <1>3

\* The ack timer only expires with a packet at the head of the queue.
LEMMA AckExpiredHead ==
  ASSUME IInv, AckExpired
  PROVE  /\ sse.live /\ sse.is_waiting /\ sse.pkt_list # <<>>
         /\ sse \in SseType /\ SseInv(sse)
         /\ GetSse \in SseType /\ SseInv(GetSse)
BY GetSseFields, GetSseInv DEF IInv, SenderInv, SseInv, AckExpired, NoTimer

LEMMA TimerAckReqInv ==
  ASSUME IInv, TimerAckReq
  PROVE  IInv' /\ sse'.live
<1> DEFINE asked == [GetSse EXCEPT !.ack_retry = @ + 1]
<1>1. /\ AckExpired /\ sse.ack_retry < MAX_RETRY_TIMES
      /\ sse' = IdleCheck(asked) /\ Put("snd", <<AckReqFrame(sse)>>)
      /\ UNCHANGED <<receiverVars, net, accepted, confirmed, dropped>>
      /\ due' \subseteq due
  BY DEF TimerAckReq, TimerPass
<1>2. sse.live /\ sse \in SseType /\ GetSse \in SseType /\ SseInv(GetSse)
  BY <1>1, AckExpiredHead
<1>3. /\ GetSse.ack_retry = sse.ack_retry /\ GetSse.live
      /\ GetSse.pkt_list = sse.pkt_list /\ GetSse.idle_timeout = IDLE_TIMEOUT
  BY <1>2, GetSseFields
<1>4. GetSse.ack_retry + 1 \in 0..MAX_RETRY_TIMES
  BY <1>1, <1>2, <1>3, ConstantsAssumption DEF SseType
<1>5. /\ asked \in SseType /\ asked.live /\ asked.pkt_list = sse.pkt_list
      /\ asked.is_waiting = GetSse.is_waiting
      /\ asked.ack_timeout = GetSse.ack_timeout
      /\ asked.idle_timeout = IDLE_TIMEOUT
  BY <1>2, <1>3, <1>4 DEF SseType
<1> HIDE DEF asked
<1>6. sse' = asked
  BY <1>1, <1>5, FreshNotFreed
<1>7. SenderInv'
  BY <1>1, <1>2, <1>3, <1>5, <1>6 DEF IInv, SenderInv, SseInv
<1>8. AckReqFrame(sse) \in FramesOf(accepted)
  BY <1>2, PrevSeqNo, ConstantsAssumption
  DEF AckReqFrame, Frame, Frames, FramesOf, SseType
<1>9. <<AckReqFrame(sse)>> \in Seq(FramesOf(accepted))
  BY <1>8
<1>10. LinkInv'
  BY <1>1, <1>9, PutFrames DEF IInv, LinkInv, Nodes
<1> QED BY <1>1, <1>5, <1>6, <1>7, <1>10, ReceiverStays DEF IInv

LEMMA TimerResendInv ==
  ASSUME IInv, TimerResend
  PROVE  IInv' /\ sse'.live
<1> DEFINE again == [GetSse EXCEPT !.ack_retry = 0, !.data_retry = @ + 1,
                                   !.is_waiting = FALSE]
<1>1. /\ AckExpired /\ sse.data_retry < MAX_RETRY_TIMES
      /\ sse' = IdleCheck(TryLowerSend(again)) /\ Put("snd", LowerSent(again))
      /\ UNCHANGED <<receiverVars, net, accepted, confirmed, dropped>>
      /\ due' \subseteq due
  BY DEF TimerResend, TimerPass
<1>2. /\ sse.live /\ sse.pkt_list # <<>>
      /\ sse \in SseType /\ GetSse \in SseType
  BY <1>1, AckExpiredHead
<1>3. /\ GetSse.data_retry = sse.data_retry /\ GetSse.live
      /\ GetSse.pkt_list = sse.pkt_list /\ GetSse.idle_timeout = IDLE_TIMEOUT
  BY <1>2, GetSseFields
<1>4. GetSse.data_retry + 1 \in 0..MAX_RETRY_TIMES /\ 0 \in 0..MAX_RETRY_TIMES
  BY <1>1, <1>2, <1>3, ConstantsAssumption DEF SseType
<1>5. SendReady(again) /\ again.pkt_list = sse.pkt_list
  BY <1>2, <1>3, <1>4 DEF SendReady, SseType
<1> HIDE DEF again
<1>6. /\ sse' = TryLowerSend(again) /\ sse'.live
      /\ sse' \in SseType /\ SseInv(sse') /\ sse'.pkt_list = sse.pkt_list
  BY <1>1, <1>5, TryLowerSendQueue, TryLowerSendInv, FreshNotFreed
<1>7. SenderInv'
  BY <1>1, <1>6 DEF IInv, SenderInv, SseInv
<1>8. LowerSent(again) \in Seq(FramesOf(accepted))
  BY <1>5, LowerSentFrames DEF IInv, SenderInv
<1>9. LinkInv'
  BY <1>1, <1>8, PutFrames DEF IInv, LinkInv, Nodes
<1> QED BY <1>1, <1>6, <1>7, <1>9, ReceiverStays DEF IInv

LEMMA TimerDropInv ==
  ASSUME IInv, TimerDrop
  PROVE  IInv' /\ sse'.live
<1>1. /\ AckExpired
      /\ sse' = IdleCheck(TryLowerSend(PopPkt(GetSse)))
      /\ Put("snd", LowerSent(PopPkt(GetSse)))
      /\ UNCHANGED <<receiverVars, net, accepted, confirmed>>
      /\ due' \subseteq due
      /\ dropped' = dropped \cup {Head(sse.pkt_list).msg}
  BY DEF TimerDrop, TimerPass
<1>2. sse.live /\ sse.pkt_list # <<>> /\ sse \in SseType
  BY <1>1, AckExpiredHead
<1>3. SendReady(PopPkt(GetSse))
  BY <1>2, PopPktReady
<1>4. sse' = TryLowerSend(PopPkt(GetSse)) /\ sse'.live
  BY <1>1, <1>3, TryLowerSendQueue, FreshNotFreed
<1>5. confirmed' \subseteq Msgs /\ dropped' \subseteq Msgs
  BY <1>1, <1>2, HeadIsMsg DEF IInv, SenderInv
<1> QED BY <1>1, <1>2, <1>4, <1>5, ResolveHead

LEMMA TickInv ==
  ASSUME IInv, Tick
  PROVE  IInv' /\ sse'.live = sse.live
<1>1. /\ sse' = [sse EXCEPT !.idle_timeout = IF @ > 0 THEN @ - 1 ELSE @,
                            !.ack_timeout = IF @ > 0 THEN @ - 1 ELSE @]
      /\ rse' = [rse EXCEPT !.idle_timeout = IF @ > 0 THEN @ - 1 ELSE @]
      /\ due' = Nodes
      /\ UNCHANGED <<lower_send_list, net, upper_recv_list,
                     accepted, submits, confirmed, dropped>>
  BY DEF Tick
<1>2. sse \in SseType /\ SseInv(sse)
  BY DEF IInv, SenderInv
<1>3. /\ sse'.live = sse.live /\ sse'.pkt_list = sse.pkt_list
      /\ sse'.is_waiting = sse.is_waiting
      /\ sse'.idle_timeout = IF sse.idle_timeout > 0 THEN sse.idle_timeout - 1
                             ELSE sse.idle_timeout
      /\ sse'.ack_timeout = IF sse.ack_timeout > 0 THEN sse.ack_timeout - 1
                            ELSE sse.ack_timeout
  BY <1>1, <1>2 DEF SseType
<1>4. sse' \in SseType
  <2>1. /\ sse'.idle_timeout \in 0..IDLE_TIMEOUT
        /\ sse'.ack_timeout \in NoTimer..ACK_TIMEOUT
    BY <1>2, <1>3, ConstantsAssumption DEF SseType, NoTimer
  <2>2. sse' = [sse EXCEPT !.idle_timeout = sse'.idle_timeout,
                           !.ack_timeout = sse'.ack_timeout]
    BY <1>1, <1>2, <1>3 DEF SseType
  <2> QED BY <1>2, <2>1, <2>2 DEF SseType
<1>5. SseInv(sse')
  <2>1. sse'.ack_timeout # NoTimer <=> sse.ack_timeout # NoTimer
    BY <1>2, <1>3, ConstantsAssumption DEF SseType, NoTimer
  <2>2. sse.is_waiting => sse'.ack_timeout <= sse'.idle_timeout
    BY <1>2, <1>3, ConstantsAssumption DEF SseInv, SseType, NoTimer
  <2> QED BY <1>2, <1>3, <2>1, <2>2 DEF SseInv
<1>6. SenderInv'
  BY <1>1, <1>3, <1>4, <1>5 DEF IInv, SenderInv, SseInv
<1>7. ReceiverInv'
  <2>1. rse \in RseType
    BY DEF IInv, ReceiverInv
  <2>2. rse' \in RseType /\ rse'.live = rse.live /\ rse'.msg = rse.msg
    <3> DEFINE left == IF rse.idle_timeout > 0 THEN rse.idle_timeout - 1
                       ELSE rse.idle_timeout
    <3>1. left \in 0..IDLE_TIMEOUT
      BY <2>1, ConstantsAssumption DEF RseType
    <3>2. rse' = [rse EXCEPT !.idle_timeout = left]
      BY <1>1
    <3> HIDE DEF left
    <3> QED BY <2>1, <3>1, <3>2 DEF RseType
  <2> QED BY <1>1, <2>2 DEF IInv, ReceiverInv
<1>8. LinkInv'
  BY <1>1 DEF IInv, LinkInv
<1> QED BY <1>3, <1>6, <1>7, <1>8 DEF IInv

-----------------------------------------------------------------------------
(* Each action of the receiving side preserves the invariant. *)

LEMMA SenderStays ==
  ASSUME SenderInv, UNCHANGED senderVars
  PROVE  SenderInv'
BY DEF SenderInv, SseInv, senderVars

\* The session of which get_rse has refreshed the deadline, and a new one.
LEMMA GetRseFields ==
  ASSUME rse \in RseType
  PROVE  /\ GetRse \in RseType
         /\ GetRse.live = rse.live /\ GetRse.msg = rse.msg
<1>1. IDLE_TIMEOUT \in 0..IDLE_TIMEOUT
  BY ConstantsAssumption
<1> QED BY <1>1 DEF GetRse, RseType

LEMMA NewRseFields ==
  NoRse \in RseType /\ ~NoRse.live /\ CreateRse \in RseType /\ CreateRse.live
<1>1. /\ NumSeq - 1 \in SeqNos /\ 0 \in 0..NumMsgs
      /\ 0 \in 0..IDLE_TIMEOUT /\ IDLE_TIMEOUT \in 0..IDLE_TIMEOUT
  BY ConstantsAssumption DEF SeqNos
<1>2. [i \in 0..MAX_SLICE_NUM |-> 0] \in [0..MAX_SLICE_NUM -> 0..NumMsgs]
  BY <1>1
<1>3. NoRse \in RseType
  BY <1>1, <1>2 DEF NoRse, RseType
<1> QED BY <1>1, <1>3 DEF CreateRse, NoRse, RseType

\* patch_rse only sets bits and data.
LEMMA PatchRseFields ==
  ASSUME NEW se \in RseType, NEW m \in 0..NumMsgs,
         NEW slices \in SUBSET (0..MAX_SLICE_NUM)
  PROVE  /\ PatchRse(se, m, slices) \in RseType
         /\ PatchRse(se, m, slices).live = se.live
         /\ PatchRse(se, m, slices).msg = se.msg
<1> DEFINE fit == {i \in slices : i <= NSlices[se.msg]}
           data == [i \in 0..MAX_SLICE_NUM |-> IF i \in fit THEN m ELSE se.data[i]]
<1>1. fit \subseteq 0..MAX_SLICE_NUM
  OBVIOUS
<1> HIDE DEF fit
<1>2. se.bitmap \cup fit \in SUBSET (0..MAX_SLICE_NUM)
  BY <1>1 DEF RseType
<1>3. data \in [0..MAX_SLICE_NUM -> 0..NumMsgs]
  BY DEF RseType
<1>4. PatchRse(se, m, slices) = [se EXCEPT !.bitmap = se.bitmap \cup fit, !.data = data]
  BY DEF PatchRse, fit
<1> HIDE DEF data
<1> QED BY <1>2, <1>3, <1>4 DEF RseType

\* The slices of a message are among those a frame can hold.
LEMMA WholeRange ==
  ASSUME NEW m \in Msgs
  PROVE  Whole(m) \subseteq 0..MAX_SLICE_NUM
BY ConstantsAssumption DEF Whole

\* send_ack sends acknowledgements only, which name no message.
LEMMA AckFramesType ==
  ASSUME NEW se \in RseType, se.msg \in Msgs, NEW k
  PROVE  AckFrames(se) \in Seq(FramesOf(k))
<1> DEFINE missing == Whole(se.msg) \ se.bitmap
<1>1. missing \subseteq 0..MAX_SLICE_NUM /\ {} \subseteq 0..MAX_SLICE_NUM
  BY WholeRange
<1>2. 0 \in 0..NumMsgs /\ se.seq_exp \in SeqNos
  BY ConstantsAssumption DEF RseType
<1> HIDE DEF missing
<1>3. Frame("ACKA", se.seq_exp, 0, {}) \in FramesOf(k)
  BY <1>1, <1>2 DEF Frame, Frames, FramesOf
<1>4. Frame("ACKP", se.seq_exp, 0, missing) \in FramesOf(k)
  BY <1>1, <1>2 DEF Frame, Frames, FramesOf
<1> QED BY <1>3, <1>4 DEF AckFrames, missing

\* What a completed session submits is the content of the announced message.
LEMMA CompleteInv ==
  ASSUME IInv, NEW se \in RseType, se.live, se.msg \in 1..accepted, Complete(se),
         UNCHANGED senderVars, net' \subseteq net, UNCHANGED due
  PROVE  IInv'
<1>1. accepted' = accepted /\ se.msg \in Msgs
  BY ConstantsAssumption DEF IInv, SenderInv, senderVars, Msgs
<1>2. CASE CsumOk(se)
  <2>1. /\ rse' = [se EXCEPT !.completed = TRUE]
        /\ Put("rcv", AckFrames(se))
        /\ upper_recv_list' = Append(upper_recv_list,
                                     [i \in Whole(se.msg) |-> se.data[i]])
        /\ submits' = CountSubmit(se.msg)
    BY <1>2 DEF Complete
  <2>2. [i \in Whole(se.msg) |-> se.data[i]] = Content(se.msg)
    BY <1>2 DEF CsumOk, Content
  <2>3. Content(se.msg) \in ContentsOf(accepted)
    BY DEF ContentsOf
  <2>4. upper_recv_list' \in Seq(ContentsOf(accepted))
    BY <2>1, <2>2, <2>3 DEF IInv, ReceiverInv
  <2>5. rse' \in RseType /\ rse'.msg = se.msg
    BY <2>1 DEF RseType
  <2>6. submits' \in [Msgs -> 0..2]
    <3>1. submits \in [Msgs -> 0..2]
      BY DEF IInv, ReceiverInv
    <3>2. (IF submits[se.msg] = 0 THEN 1 ELSE 2) \in 0..2
      OBVIOUS
    <3>3. submits' = [submits EXCEPT ![se.msg] = IF submits[se.msg] = 0 THEN 1 ELSE 2]
      BY <2>1 DEF CountSubmit
    <3> QED BY <1>1, <3>1, <3>2, <3>3
  <2>7. ReceiverInv'
    BY <1>1, <2>4, <2>5, <2>6 DEF ReceiverInv
  <2>8. LinkInv'
    BY <1>1, <2>1, AckFramesType, PutFrames DEF IInv, LinkInv, Nodes
  <2> QED BY <2>7, <2>8, SenderStays DEF IInv
<1>3. CASE ~CsumOk(se)
  <2>1. /\ rse' = [se EXCEPT !.nak = TRUE]
        /\ UNCHANGED <<lower_send_list, upper_recv_list, submits>>
    BY <1>3 DEF Complete
  <2>2. rse' \in RseType /\ rse'.msg = se.msg
    BY <2>1 DEF RseType
  <2>3. ReceiverInv'
    BY <1>1, <2>1, <2>2 DEF IInv, ReceiverInv
  <2>4. LinkInv'
    BY <1>1, <2>1 DEF IInv, LinkInv
  <2> QED BY <2>3, <2>4, SenderStays DEF IInv
<1> QED BY <1>2, <1>3

\* A session that is stored without submitting anything, with frames sent.
LEMMA StoreRse ==
  ASSUME IInv, rse' \in RseType, rse'.live => rse'.msg \in 1..accepted,
         lower_send_list' \in [Nodes -> Seq(FramesOf(accepted))],
         UNCHANGED <<senderVars, upper_recv_list, submits>>,
         net' \subseteq net, due' \subseteq due
  PROVE  IInv'
<1>1. accepted' = accepted
  BY DEF senderVars
<1>2. ReceiverInv'
  BY <1>1 DEF IInv, ReceiverInv
<1>3. LinkInv'
  BY <1>1 DEF IInv, LinkInv
<1> QED BY <1>2, <1>3, SenderStays DEF IInv

LEMMA ProcDataInv ==
  ASSUME IInv, NEW f \in net, ProcData(f), net' \subseteq net, UNCHANGED due
  PROVE  IInv'
<1> DEFINE found == IF rse.live THEN GetRse ELSE CreateRse
           started == [found EXCEPT !.bitmap = {}, !.seq_exp = f.seq,
                                    !.msg = f.msg, !.completed = FALSE,
                                    !.nak = FALSE]
           se == PatchRse(started, f.msg, f.slices)
<1>1. /\ f.type = "DATA" /\ UNCHANGED senderVars
      /\ IF TestAllBitsSet(se)
         THEN Complete(se)
         ELSE /\ rse' = se
              /\ Put("rcv", AckFrames(se))
              /\ UNCHANGED <<upper_recv_list, submits>>
  BY DEF ProcData
<1>2. /\ f \in Frames /\ f.msg \in 1..accepted /\ f.msg \in Msgs
      /\ f.msg \in 0..NumMsgs
  BY <1>1, ConstantsAssumption DEF IInv, LinkInv, SenderInv, FramesOf, Msgs
<1>3. found \in RseType /\ found.live
  BY GetRseFields, NewRseFields DEF IInv, ReceiverInv
<1> HIDE DEF found
<1>4. started \in RseType /\ started.live /\ started.msg = f.msg
  BY <1>2, <1>3 DEF RseType, Frames
<1> HIDE DEF started
<1>5. se \in RseType /\ se.live /\ se.msg = f.msg
  BY <1>2, <1>4, PatchRseFields DEF Frames
<1> HIDE DEF se
<1>6. CASE TestAllBitsSet(se)
  BY <1>1, <1>2, <1>5, <1>6, CompleteInv
<1>7. CASE ~TestAllBitsSet(se)
  <2>1. AckFrames(se) \in Seq(FramesOf(accepted))
    BY <1>2, <1>5, AckFramesType
  <2>2. lower_send_list' \in [Nodes -> Seq(FramesOf(accepted))]
    BY <1>1, <1>7, <2>1, PutFrames DEF IInv, LinkInv, Nodes
  <2> QED BY <1>1, <1>2, <1>5, <1>7, <2>2, StoreRse
<1> QED BY <1>6, <1>7

LEMMA ProcAckReqInv ==
  ASSUME IInv, NEW f \in net, ProcAckReq(f), net' \subseteq net, UNCHANGED due
  PROVE  IInv'
<1>1. rse' \in RseType /\ (rse'.live => rse'.msg \in 1..accepted)
  BY GetRseFields DEF ProcAckReq, IInv, ReceiverInv
<1>2. lower_send_list' \in [Nodes -> Seq(FramesOf(accepted))]
  <2>1. CASE rse.live /\ rse.seq_exp = f.seq
    <3>1. rse \in RseType /\ rse.msg \in Msgs
      BY <2>1, ConstantsAssumption DEF IInv, ReceiverInv, SenderInv, Msgs
    <3>2. Put("rcv", AckFrames(rse))
      BY <2>1 DEF ProcAckReq
    <3> QED BY <3>1, <3>2, AckFramesType, PutFrames DEF IInv, LinkInv, Nodes
  <2>2. CASE ~(rse.live /\ rse.seq_exp = f.seq)
    BY <2>2 DEF ProcAckReq, IInv, LinkInv
  <2> QED BY <2>1, <2>2
<1> QED BY <1>1, <1>2, StoreRse DEF ProcAckReq

LEMMA ProcPatchInv ==
  ASSUME IInv, NEW f \in net, NEW good \in SUBSET f.slices, ProcPatch(f, good),
         net' \subseteq net, UNCHANGED due
  PROVE  IInv'
<1> DEFINE se == PatchRse(GetRse, f.msg, good)
           taken == rse.live /\ rse.seq_exp = f.seq /\ ~rse.completed
<1>1. /\ f.type = "PATCH" /\ UNCHANGED senderVars
      /\ IF taken /\ TestAllBitsSet(se)
         THEN Complete(se)
         ELSE /\ rse' = IF taken THEN se ELSE IF rse.live THEN GetRse ELSE rse
              /\ UNCHANGED <<lower_send_list, upper_recv_list, submits>>
  BY DEF ProcPatch
<1>2. /\ f \in Frames /\ f.msg \in 0..NumMsgs
      /\ good \in SUBSET (0..MAX_SLICE_NUM)
  BY DEF IInv, LinkInv, FramesOf, Frames
<1>3. /\ rse \in RseType /\ GetRse \in RseType
      /\ GetRse.live = rse.live /\ GetRse.msg = rse.msg
      /\ rse.live => rse.msg \in 1..accepted
  BY GetRseFields DEF IInv, ReceiverInv
<1>4. se \in RseType /\ se.live = rse.live /\ se.msg = rse.msg
  BY <1>2, <1>3, PatchRseFields
<1> HIDE DEF se
<1>5. CASE taken /\ TestAllBitsSet(se)
  BY <1>1, <1>3, <1>4, <1>5, CompleteInv
<1>6. CASE ~(taken /\ TestAllBitsSet(se))
  <2>1. rse' \in RseType /\ (rse'.live => rse'.msg \in 1..accepted)
    BY <1>1, <1>3, <1>4, <1>6
  <2>2. lower_send_list' \in [Nodes -> Seq(FramesOf(accepted))]
    BY <1>1, <1>6 DEF IInv, LinkInv
  <2> QED BY <1>1, <1>6, <2>1, <2>2, StoreRse
<1> QED BY <1>5, <1>6

LEMMA ReceiverTimerInv ==
  ASSUME IInv, ReceiverTimer
  PROVE  IInv'
<1>1. rse' \in RseType /\ (rse'.live => rse'.msg \in 1..accepted)
  BY NewRseFields DEF ReceiverTimer, IInv, ReceiverInv
<1>2. lower_send_list' \in [Nodes -> Seq(FramesOf(accepted))]
  BY DEF ReceiverTimer, IInv, LinkInv
<1> QED BY <1>1, <1>2, StoreRse DEF ReceiverTimer, TimerPass

LEMMA UpperRecvInv ==
  ASSUME IInv, UpperRecv
  PROVE  IInv'
<1>1. upper_recv_list' \in Seq(ContentsOf(accepted))
  BY HeadTailProperties DEF UpperRecv, IInv, ReceiverInv
<1>2. ReceiverInv'
  BY <1>1 DEF UpperRecv, IInv, ReceiverInv, senderVars
<1>3. LinkInv'
  BY DEF UpperRecv, IInv, LinkInv, senderVars
<1> QED BY <1>2, <1>3, SenderStays DEF UpperRecv, IInv

LEMMA LowerFetchInv ==
  ASSUME IInv, NEW n \in Nodes, LowerFetch(n)
  PROVE  IInv'
<1>1. /\ Head(lower_send_list[n]) \in FramesOf(accepted)
      /\ Tail(lower_send_list[n]) \in Seq(FramesOf(accepted))
  BY HeadTailProperties DEF LowerFetch, IInv, LinkInv
<1>2. LinkInv'
  BY <1>1 DEF LowerFetch, IInv, LinkInv, senderVars
<1> QED BY <1>2, SenderStays, ReceiverStays
        DEF LowerFetch, IInv, senderVars, receiverVars

LEMMA LoseInv ==
  ASSUME IInv, NEW f \in net, Lose(f)
  PROVE  IInv'
<1>1. LinkInv'
  BY DEF Lose, IInv, LinkInv, senderVars
<1> QED BY <1>1, SenderStays, ReceiverStays DEF Lose, IInv, senderVars, receiverVars

LEMMA LowerPutInv ==
  ASSUME IInv, NEW f \in net, LowerPut(f)
  PROVE  IInv'
<1>1. net' \subseteq net /\ UNCHANGED due
  BY DEF LowerPut
<1>2. CASE ProcData(f)
  BY <1>1, <1>2, ProcDataInv
<1>3. CASE ProcAckReq(f)
  BY <1>1, <1>3, ProcAckReqInv
<1>4. CASE \E good \in SUBSET f.slices : ProcPatch(f, good)
  BY <1>1, <1>4, ProcPatchInv
<1>5. CASE ProcAckAll(f)
  BY <1>1, <1>5, ProcAckAllInv
<1>6. CASE ProcAckPart(f)
  BY <1>1, <1>6, ProcAckPartInv
<1> QED BY <1>2, <1>3, <1>4, <1>5, <1>6 DEF LowerPut

\* The handlers of frames never free the sending session.
LEMMA LowerPutKeepsSse ==
  ASSUME IInv, NEW f \in net, LowerPut(f)
  PROVE  sse.live => sse'.live
<1>1. CASE ProcData(f) \/ ProcAckReq(f) \/ \E good \in SUBSET f.slices : ProcPatch(f, good)
  BY <1>1 DEF ProcData, ProcAckReq, ProcPatch, senderVars
<1>2. CASE ProcAckAll(f)
  <2>1. CASE sse.live /\ ForHead(f)
    <3>1. SendReady(PopPkt(GetSse))
      BY <2>1, PopPktReady DEF ForHead, IInv, SenderInv
    <3> QED BY <1>2, <2>1, <3>1, TryLowerSendQueue DEF ProcAckAll
  <2>2. CASE ~(sse.live /\ ForHead(f))
    BY <1>2, <2>2, GetSseFields DEF ProcAckAll, IInv, SenderInv
  <2> QED BY <2>1, <2>2
<1>3. CASE ProcAckPart(f)
  <2>1. GetSse \in SseType /\ GetSse.live = sse.live
    BY GetSseFields DEF IInv, SenderInv
  <2>2. CASE sse.live /\ ForHead(f)
    <3>1. sse' = [GetSse EXCEPT !.ack_timeout = ACK_TIMEOUT, !.ack_retry = 0]
      BY <1>3, <2>2 DEF ProcAckPart
    <3> QED BY <2>1, <3>1 DEF SseType
  <2>3. CASE ~(sse.live /\ ForHead(f))
    BY <1>3, <2>1, <2>3 DEF ProcAckPart
  <2> QED BY <2>2, <2>3
<1> QED BY <1>1, <1>2, <1>3 DEF LowerPut

-----------------------------------------------------------------------------
(* The theorems. *)

LEMMA InitInv == Init => IInv
<1> SUFFICES ASSUME Init PROVE IInv
  OBVIOUS
<1>1. /\ sse = NoSse /\ rse = NoRse
      /\ lower_send_list = [n \in Nodes |-> <<>>] /\ net = {}
      /\ upper_recv_list = <<>> /\ due = {} /\ accepted = 0
      /\ submits = [m \in Msgs |-> 0] /\ confirmed = {} /\ dropped = {}
  BY DEF Init
<1>2. SenderInv
  BY <1>1, NoSseFields, EmptySeq, ConstantsAssumption DEF SenderInv, SseInv
<1>3. ReceiverInv
  BY <1>1, NewRseFields, EmptySeq DEF ReceiverInv
<1>4. LinkInv
  BY <1>1, EmptySeq DEF LinkInv
<1> QED BY <1>2, <1>3, <1>4 DEF IInv

\* IInv is inductive, and no step frees a sending session with packets.
LEMMA NextInv ==
  IInv /\ [Next]_vars => IInv' /\ (sse.live /\ ~sse'.live => sse.pkt_list = <<>>)
<1> SUFFICES ASSUME IInv, [Next]_vars
             PROVE  IInv' /\ (sse.live /\ ~sse'.live => sse.pkt_list = <<>>)
  OBVIOUS
<1>1. CASE UpperSend
  BY <1>1, UpperSendInv
<1>2. CASE UpperRecv
  BY <1>2, UpperRecvInv DEF UpperRecv, senderVars
<1>3. CASE TimerQuiet
  BY <1>3, TimerQuietInv
<1>4. CASE TimerAckReq
  BY <1>4, TimerAckReqInv
<1>5. CASE TimerResend
  BY <1>5, TimerResendInv
<1>6. CASE TimerDrop
  BY <1>6, TimerDropInv
<1>7. CASE ReceiverTimer
  BY <1>7, ReceiverTimerInv DEF ReceiverTimer, senderVars
<1>8. CASE \E n \in Nodes : LowerFetch(n)
  BY <1>8, LowerFetchInv DEF LowerFetch, senderVars
<1>9. CASE \E f \in net : Lose(f)
  BY <1>9, LoseInv DEF Lose, senderVars
<1>10. CASE \E f \in net : LowerPut(f)
  BY <1>10, LowerPutInv, LowerPutKeepsSse
<1>11. CASE Tick
  BY <1>11, TickInv
<1>12. CASE UNCHANGED vars
  BY <1>12 DEF vars, nodeVars, IInv, SenderInv, SseInv, ReceiverInv, LinkInv
<1> QED BY <1>1, <1>2, <1>3, <1>4, <1>5, <1>6, <1>7, <1>8, <1>9, <1>10, <1>11, <1>12
        DEF Next, Step

THEOREM Inductive == Spec => []IInv
BY InitInv, NextInv, PTL DEF Spec

\* What the link may do is chosen once.
LEMMA LinkFixed == Spec => [](link \in Links)
<1>1. Init => link \in Links
  BY DEF Init
<1>2. link \in Links /\ [Next]_vars => (link \in Links)'
  BY DEF Next, vars
<1> QED BY <1>1, <1>2, PTL DEF Spec

\* Every variable has its type in every state (the u8 sequence numbers, the
\* retry counts and deadlines within their limits, the lists of frames).
THEOREM TypeCorrect == Spec => []TypeOK
<1>1. IInv /\ link \in Links => TypeOK
  <2> SUFFICES ASSUME IInv, link \in Links PROVE TypeOK
    OBVIOUS
  <2>1. accepted \in 0..NumMsgs /\ 1..accepted \subseteq Msgs
    BY ConstantsAssumption DEF IInv, SenderInv, Msgs
  <2>2. FramesOf(accepted) \subseteq Frames
    BY DEF FramesOf
  <2>3. lower_send_list \in [Nodes -> Seq(Frames)] /\ net \subseteq Frames
    <3>1. ASSUME NEW n \in Nodes PROVE lower_send_list[n] \in Seq(Frames)
      BY <2>2, SeqMonotonic DEF IInv, LinkInv
    <3> QED BY <2>2, <3>1 DEF IInv, LinkInv
  <2>4. ContentsOf(accepted) \subseteq UNION {[Whole(m) -> 0..NumMsgs] : m \in Msgs}
    <3>1. ASSUME NEW m \in 1..accepted
          PROVE  Content(m) \in [Whole(m) -> 0..NumMsgs] /\ m \in Msgs
      <4>1. m \in 0..NumMsgs /\ m \in Msgs
        BY <2>1, ConstantsAssumption DEF Msgs
      <4> QED BY <4>1 DEF Content
    <3> QED BY <3>1 DEF ContentsOf
  <2>5. upper_recv_list \in Seq(UNION {[Whole(m) -> 0..NumMsgs] : m \in Msgs})
    BY <2>4, SeqMonotonic DEF IInv, ReceiverInv
  <2> QED BY <2>3, <2>5 DEF TypeOK, IInv, SenderInv, ReceiverInv, LinkInv
<1> QED BY <1>1, Inductive, LinkFixed, PTL

\* The ack timer runs exactly while the send queue holds a packet, so neither
\* can it expire on an empty queue nor can a packet wait without a timer.
THEOREM TimerGuard == Spec => []TimerGuardsQueue
<1>1. IInv => TimerGuardsQueue
  BY DEF IInv, SenderInv, SseInv, TimerGuardsQueue
<1> QED BY <1>1, Inductive, PTL

\* proc_timer never frees a sending session that still has packets.
THEOREM NothingReaped == Spec => ReapedQueueEmpty
<1>1. IInv /\ [Next]_vars => [sse.live /\ ~sse'.live => sse.pkt_list = <<>>]_vars
  BY NextInv
<1> QED BY <1>1, Inductive, PTL DEF Spec, ReapedQueueEmpty

\* Whatever the link does, only accepted messages, whole and unaltered, reach
\* upper_recv_list.
THEOREM OnlyWhole == Spec => []Integrity
<1>1. IInv => Integrity
  <2> SUFFICES ASSUME IInv, NEW i \in 1..Len(upper_recv_list)
               PROVE  \E m \in 1..accepted : upper_recv_list[i] = Content(m)
    BY DEF Integrity
  <2>1. upper_recv_list[i] \in ContentsOf(accepted)
    BY ElementOfSeq DEF IInv, ReceiverInv
  <2> QED BY <2>1 DEF ContentsOf
<1> QED BY <1>1, Inductive, PTL

=============================================================================
