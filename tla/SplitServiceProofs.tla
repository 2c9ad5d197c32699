------------------------- MODULE SplitServiceProofs -------------------------
(***************************************************************************)
(* Proofs about Split on a link that holds no frame back beyond the period *)
(* in which it was sent: that it implements LinkService as long as no      *)
(* session has used up its sequence numbers (ServiceKept), and that the    *)
(* peer reads in the order of sending if the link does not repeat frames   *)
(* either (ReadInOrder).                                                   *)
(***************************************************************************)
EXTENDS SplitProofs

-----------------------------------------------------------------------------
(* What is under way, and what holds of it on every such link. *)

\* The frames on the link and in the lists before it.
Flight ==
  {f \in Frames :
     \/ f \in net
     \/ \E n \in Nodes : \E i \in DOMAIN lower_send_list[n] :
          lower_send_list[n][i] = f}

\* A freed session leaves nothing behind.
FreedEmpty == ~sse.live => sse = NoSse

\* When the ack timer expires nothing is under way until proc_timer has
\* seen it: the frames of the last period are gone.
PassFirst ==
  "delays" \notin link =>
    ("snd" \in due /\ sse.ack_timeout = 0 => Flight = {})

Calm == FreedEmpty /\ PassFirst

-----------------------------------------------------------------------------
(* Lemmas on Flight. *)

LEMMA NetInFlight ==
  ASSUME IInv, NEW f \in net
  PROVE  f \in Flight /\ f \in FramesOf(accepted) /\ f \in Frames
BY DEF IInv, LinkInv, FramesOf, Flight

LEMMA FlightTyped == IInv => Flight \subseteq FramesOf(accepted)
<1> SUFFICES ASSUME IInv, NEW f \in Flight PROVE f \in FramesOf(accepted)
  OBVIOUS
<1>1. CASE f \in net
  BY <1>1 DEF IInv, LinkInv
<1>2. CASE \E n \in Nodes : \E i \in DOMAIN lower_send_list[n] :
             lower_send_list[n][i] = f
  <2>1. PICK n \in Nodes : \E i \in DOMAIN lower_send_list[n] :
               lower_send_list[n][i] = f
    BY <1>2
  <2>2. lower_send_list[n] \in Seq(FramesOf(accepted))
    BY DEF IInv, LinkInv
  <2> QED BY <2>1, <2>2, ElementOfSeq
<1> QED BY <1>1, <1>2 DEF Flight

\* put_lower_send_list adds what it is given and nothing else.
LEMMA FlightPut ==
  ASSUME IInv, NEW node \in Nodes, NEW fs, NEW S, fs \in Seq(S),
         Put(node, fs), net' \subseteq net, NEW g \in Flight'
  PROVE  g \in Flight \/ \E i \in 1..Len(fs) : g = fs[i]
<1>1. lower_send_list \in [Nodes -> Seq(FramesOf(accepted))]
  BY DEF IInv, LinkInv
<1>2. lower_send_list' = [lower_send_list EXCEPT ![node] = @ \o fs]
  BY DEF Put
<1>3. CASE g \in net'
  BY <1>3 DEF Flight
<1>4. CASE \E n \in Nodes : \E i \in DOMAIN lower_send_list'[n] :
             lower_send_list'[n][i] = g
  <2>0. PICK n \in Nodes : \E i \in DOMAIN lower_send_list'[n] :
               lower_send_list'[n][i] = g
    BY <1>4
  <2>1. PICK i \in DOMAIN lower_send_list'[n] : lower_send_list'[n][i] = g
    BY <2>0
  <2>2. CASE n # node
    <3>1. lower_send_list'[n] = lower_send_list[n]
      BY <1>1, <1>2, <2>2
    <3> QED BY <2>1, <3>1 DEF Flight
  <2>3. CASE n = node
    <3> DEFINE old == lower_send_list[node]
    <3>1. /\ old \in Seq(FramesOf(accepted))
          /\ lower_send_list'[n] = old \o fs
      BY <1>1, <1>2, <2>3
    <3> HIDE DEF old
    <3>2. /\ Len(old) \in Nat /\ Len(fs) \in Nat
          /\ DOMAIN (old \o fs) = 1..(Len(old) + Len(fs))
          /\ \A j \in 1..(Len(old) + Len(fs)) :
               (old \o fs)[j] = IF j <= Len(old) THEN old[j] ELSE fs[j - Len(old)]
      BY <3>1
    <3>3. i \in 1..(Len(old) + Len(fs))
      BY <2>1, <3>1, <3>2
    <3>4. CASE i <= Len(old)
      <4>1. i \in DOMAIN old /\ old[i] = g
        BY <2>1, <3>1, <3>2, <3>3, <3>4
      <4> QED BY <2>3, <4>1 DEF Flight, old
    <3>5. CASE ~(i <= Len(old))
      <4>1. i - Len(old) \in 1..Len(fs) /\ fs[i - Len(old)] = g
        BY <2>1, <3>1, <3>2, <3>3, <3>5
      <4> QED BY <4>1
    <3> QED BY <3>4, <3>5
  <2> QED BY <2>2, <2>3
<1> QED BY <1>3, <1>4 DEF Flight

LEMMA FlightPutNone ==
  ASSUME IInv, NEW node \in Nodes, Put(node, <<>>), net' \subseteq net
  PROVE  Flight' \subseteq Flight
<1>1. <<>> \in Seq(Frames) /\ 1..Len(<<>>) = {}
  BY EmptySeq
<1> DEFINE fs == <<>>
<1>2. fs \in Seq(Frames) /\ 1..Len(fs) = {} /\ Put(node, fs)
  BY <1>1
<1> HIDE DEF fs
<1> QED BY <1>2, FlightPut

LEMMA FlightPutOne ==
  ASSUME IInv, NEW node \in Nodes, NEW h, Put(node, <<h>>), net' \subseteq net
  PROVE  Flight' \subseteq Flight \cup {h}
<1> DEFINE fs == <<h>>
<1>1. fs \in Seq({h}) /\ Len(fs) = 1 /\ fs[1] = h /\ Put(node, fs)
  OBVIOUS
<1> HIDE DEF fs
<1>2. 1..Len(fs) = {1}
  BY <1>1
<1> QED BY <1>1, <1>2, FlightPut

\* Nothing is added while the lists stay and the link only loses.
LEMMA FlightShrinks ==
  ASSUME net' \subseteq net, UNCHANGED lower_send_list
  PROVE  Flight' \subseteq Flight
BY DEF Flight

\* lower_fetch moves a frame from a list to the link.
LEMMA FlightFetch ==
  ASSUME IInv, NEW n \in Nodes, LowerFetch(n)
  PROVE  Flight' \subseteq Flight
<1> DEFINE list == lower_send_list[n]
<1>1. /\ list \in Seq(FramesOf(accepted)) /\ list # <<>>
      /\ lower_send_list \in [Nodes -> Seq(FramesOf(accepted))]
      /\ lower_send_list' = [lower_send_list EXCEPT ![n] = Tail(@)]
      /\ net' = net \cup {Head(list)}
  BY DEF LowerFetch, IInv, LinkInv
<1> SUFFICES ASSUME NEW g \in Flight' PROVE g \in Flight
  OBVIOUS
<1>2. 1 \in DOMAIN list /\ list[1] = Head(list)
  BY <1>1
<1>3. CASE g \in net'
  BY <1>1, <1>2, <1>3 DEF Flight
<1>4. CASE \E m \in Nodes : \E i \in DOMAIN lower_send_list'[m] :
             lower_send_list'[m][i] = g
  <2>0. PICK m \in Nodes : \E i \in DOMAIN lower_send_list'[m] :
               lower_send_list'[m][i] = g
    BY <1>4
  <2>1. PICK i \in DOMAIN lower_send_list'[m] : lower_send_list'[m][i] = g
    BY <2>0
  <2>2. CASE m # n
    <3>1. lower_send_list'[m] = lower_send_list[m]
      BY <1>1, <2>2
    <3> QED BY <2>1, <3>1 DEF Flight
  <2>3. CASE m = n
    <3>1. lower_send_list'[m] = Tail(list)
      BY <1>1, <2>3
    <3> HIDE DEF list
    <3>2. i \in DOMAIN Tail(list) /\ Tail(list)[i] = g
      BY <2>1, <3>1
    <3>3. /\ Len(list) \in Nat /\ Len(list) # 0 /\ DOMAIN list = 1..Len(list)
          /\ DOMAIN Tail(list) = 1..(Len(list) - 1)
          /\ \A j \in 1..(Len(list) - 1) : Tail(list)[j] = list[j + 1]
      BY <1>1
    <3>4. i + 1 \in DOMAIN list /\ list[i + 1] = g
      BY <3>2, <3>3
    <3> QED BY <2>3, <3>4 DEF Flight, list
  <2> QED BY <2>2, <2>3
<1> QED BY <1>3, <1>4 DEF Flight

\* Flight is empty exactly when the link and both lists are.
LEMMA FlightNone ==
  ASSUME IInv
  PROVE  Flight = {} <=> net = {} /\ \A n \in Nodes : lower_send_list[n] = <<>>
<1>1. ASSUME net = {}, \A n \in Nodes : lower_send_list[n] = <<>>
      PROVE  Flight = {}
  BY <1>1 DEF Flight
<1>2. ASSUME Flight = {} PROVE net = {}
  BY <1>2, NetInFlight
<1>3. ASSUME Flight = {}, NEW n \in Nodes PROVE lower_send_list[n] = <<>>
  <2>1. lower_send_list[n] \in Seq(FramesOf(accepted))
    BY DEF IInv, LinkInv
  <2>2. SUFFICES ASSUME lower_send_list[n] # <<>> PROVE FALSE
    OBVIOUS
  <2>3. 1 \in DOMAIN lower_send_list[n]
        /\ lower_send_list[n][1] \in FramesOf(accepted)
    BY <2>1, <2>2
  <2> QED BY <1>3, <2>3 DEF Flight, FramesOf
<1> QED BY <1>1, <1>2, <1>3

-----------------------------------------------------------------------------
(* What the sender's steps do to its session. *)

\* try_lower_send starts the timer exactly when it sends.
LEMMA TryFields ==
  ASSUME NEW se \in SseType
  PROVE  /\ TryLowerSend(se).seq = se.seq
         /\ TryLowerSend(se).pkt_list = se.pkt_list
         /\ TryLowerSend(se).live = se.live
         /\ TryLowerSend(se).idle_timeout = se.idle_timeout
         /\ CanSend(se) => /\ TryLowerSend(se).ack_timeout = ACK_TIMEOUT
                           /\ LowerSent(se) = <<DataFrame(Head(se.pkt_list))>>
         /\ ~CanSend(se) => TryLowerSend(se) = se /\ LowerSent(se) = <<>>
BY DEF TryLowerSend, LowerSent, SseType

\* upper_send queues the message under the next number, and announces it if
\* it is alone.
LEMMA UpperSendFields ==
  ASSUME IInv, FreedEmpty, UpperSend
  PROVE  LET pkt == [msg |-> accepted + 1, seq |-> sse.seq]
         IN /\ accepted < NumMsgs /\ accepted' = accepted + 1
            /\ pkt \in PktsOf(accepted + 1)
            /\ sse'.live /\ sse'.idle_timeout = IDLE_TIMEOUT
            /\ sse'.seq = (sse.seq + 1) % NumSeq
            /\ sse'.pkt_list = Append(sse.pkt_list, pkt)
            /\ IF sse.pkt_list = <<>>
               THEN sse'.ack_timeout = ACK_TIMEOUT /\ Put("snd", <<DataFrame(pkt)>>)
               ELSE sse'.ack_timeout = sse.ack_timeout /\ Put("snd", <<>>)
            /\ UNCHANGED <<receiverVars, net, due, confirmed, dropped>>
<1> DEFINE se == IF sse.live THEN GetSse ELSE CreateSse
           pkt == [msg |-> accepted + 1, seq |-> se.seq]
           queued == [se EXCEPT !.seq = (@ + 1) % NumSeq,
                                !.pkt_list = Append(@, pkt)]
<1>1. /\ accepted < NumMsgs /\ accepted' = accepted + 1
      /\ sse' = TryLowerSend(queued) /\ Put("snd", LowerSent(queued))
      /\ UNCHANGED <<receiverVars, net, due, confirmed, dropped>>
  BY DEF UpperSend
<1>2. accepted \in Nat
  BY ConstantsAssumption DEF IInv, SenderInv
<1>3. sse \in SseType /\ SseInv(sse)
  BY DEF IInv, SenderInv
<1>4. /\ se \in SseType /\ se.live /\ se.idle_timeout = IDLE_TIMEOUT
      /\ se.pkt_list = sse.pkt_list /\ se.seq = sse.seq
      /\ se.ack_timeout = sse.ack_timeout /\ se.is_waiting = sse.is_waiting
  <2>1. CASE sse.live
    BY <1>3, <2>1, GetSseFields
  <2>2. CASE ~sse.live
    <3>1. se = CreateSse /\ sse = NoSse
      BY <2>2 DEF FreedEmpty
    <3>2. CreateSse.seq = 0 /\ NoSse.seq = 0
      BY DEF CreateSse, NoSse
    <3>3. NoSse.pkt_list = <<>> /\ NoSse.is_waiting = FALSE /\ NoSse.ack_timeout = NoTimer
      BY DEF NoSse
    <3> QED BY <3>1, <3>2, <3>3, CreateSseFields
  <2> QED BY <2>1, <2>2
<1> HIDE DEF se
<1>5. pkt \in PktsOf(accepted + 1) /\ pkt = [msg |-> accepted + 1, seq |-> sse.seq]
  BY <1>2, <1>4 DEF PktsOf, SseType
<1>6. pkt \in Pkts
  BY <1>1, <1>2, <1>4, ConstantsAssumption DEF Pkts, SseType, Msgs
<1> HIDE DEF pkt
<1>7. /\ se.pkt_list \in Seq(Pkts) /\ Append(se.pkt_list, pkt) \in Seq(Pkts)
      /\ Append(se.pkt_list, pkt) # <<>>
      /\ se.pkt_list = <<>> => Head(Append(se.pkt_list, pkt)) = pkt
  BY <1>4, <1>6 DEF SseType
<1>8. (se.seq + 1) % NumSeq \in SeqNos
  BY <1>4, PrevSeqNo DEF SseType
<1>9. /\ queued \in SseType /\ queued.live /\ queued.idle_timeout = IDLE_TIMEOUT
      /\ queued.pkt_list = Append(sse.pkt_list, pkt)
      /\ queued.seq = (sse.seq + 1) % NumSeq
      /\ queued.ack_timeout = sse.ack_timeout /\ queued.is_waiting = sse.is_waiting
  BY <1>4, <1>7, <1>8 DEF SseType
<1> HIDE DEF queued
<1>10. CanSend(queued) <=> sse.pkt_list = <<>>
  BY <1>3, <1>4, <1>7, <1>9 DEF CanSend, SseInv
<1>11. IF sse.pkt_list = <<>>
       THEN sse'.ack_timeout = ACK_TIMEOUT /\ Put("snd", <<DataFrame(pkt)>>)
       ELSE sse'.ack_timeout = sse.ack_timeout /\ Put("snd", <<>>)
  BY <1>1, <1>4, <1>7, <1>9, <1>10, TryFields
<1> QED BY <1>1, <1>5, <1>9, <1>11, TryFields

\* proc_sse_ack_timeout sends the head again; the retry counts do not matter
\* here, nor do they below.
LEMMA ResendFields ==
  ASSUME IInv, TimerResend
  PROVE  /\ sse.live /\ sse.pkt_list # <<>> /\ sse.ack_timeout = 0
         /\ sse'.live /\ sse'.idle_timeout = IDLE_TIMEOUT
         /\ sse'.seq = sse.seq /\ sse'.pkt_list = sse.pkt_list
         /\ sse'.ack_timeout = ACK_TIMEOUT
         /\ Put("snd", <<DataFrame(Head(sse.pkt_list))>>)
<1> DEFINE again == [GetSse EXCEPT !.ack_retry = 0, !.data_retry = @ + 1,
                                   !.is_waiting = FALSE]
<1>1. /\ AckExpired /\ sse.data_retry < MAX_RETRY_TIMES
      /\ sse' = IdleCheck(TryLowerSend(again)) /\ Put("snd", LowerSent(again))
  BY DEF TimerResend
<1>2. /\ sse.live /\ sse.pkt_list # <<>> /\ sse.ack_timeout = 0
      /\ sse \in SseType /\ GetSse \in SseType
  BY <1>1, AckExpiredHead DEF AckExpired
<1>3. /\ GetSse.data_retry = sse.data_retry /\ GetSse.live /\ GetSse.seq = sse.seq
      /\ GetSse.pkt_list = sse.pkt_list /\ GetSse.idle_timeout = IDLE_TIMEOUT
  BY <1>2, GetSseFields
<1>4. GetSse.data_retry + 1 \in 0..MAX_RETRY_TIMES /\ 0 \in 0..MAX_RETRY_TIMES
  BY <1>1, <1>2, <1>3, ConstantsAssumption DEF SseType
<1>5. /\ again \in SseType /\ again.pkt_list = sse.pkt_list /\ again.live
      /\ again.seq = sse.seq /\ again.idle_timeout = IDLE_TIMEOUT /\ ~again.is_waiting
  BY <1>2, <1>3, <1>4 DEF SseType
<1> HIDE DEF again
<1>6. CanSend(again)
  BY <1>2, <1>5 DEF CanSend
<1>7. sse' = TryLowerSend(again)
  BY <1>1, <1>5, TryFields, FreshNotFreed
<1> QED BY <1>1, <1>2, <1>5, <1>6, <1>7, TryFields

\* What a resolved head leaves: the next packet is announced, if there is one.
LEMMA ResolveFields ==
  ASSUME IInv, sse.live, sse.pkt_list # <<>>,
         sse' = TryLowerSend(PopPkt(GetSse)), Put("snd", LowerSent(PopPkt(GetSse)))
  PROVE  /\ sse'.live /\ sse'.idle_timeout = IDLE_TIMEOUT
         /\ sse'.seq = sse.seq /\ sse'.pkt_list = Tail(sse.pkt_list)
         /\ IF Tail(sse.pkt_list) = <<>>
            THEN sse'.ack_timeout = NoTimer /\ Put("snd", <<>>)
            ELSE /\ sse'.ack_timeout = ACK_TIMEOUT
                 /\ Put("snd", <<DataFrame(Head(Tail(sse.pkt_list)))>>)
<1> DEFINE popped == PopPkt(GetSse)
<1>1. sse \in SseType
  BY DEF IInv, SenderInv
<1>2. SendReady(popped) /\ popped.pkt_list = Tail(sse.pkt_list)
  BY <1>1, PopPktReady
<1>3. /\ popped.seq = sse.seq /\ popped.ack_timeout = NoTimer /\ ~popped.is_waiting
  BY <1>1, GetSseFields DEF PopPkt, SseType
<1>4. popped \in SseType /\ popped.live /\ popped.idle_timeout = IDLE_TIMEOUT
  BY <1>2 DEF SendReady
<1>5. sse' = TryLowerSend(popped) /\ Put("snd", LowerSent(popped))
  OBVIOUS
<1> HIDE DEF popped
<1>6. CanSend(popped) <=> Tail(sse.pkt_list) # <<>>
  BY <1>2, <1>3 DEF CanSend
<1> QED BY <1>2, <1>3, <1>4, <1>5, <1>6, TryFields

LEMMA DropFields ==
  ASSUME IInv, TimerDrop
  PROVE  /\ sse.live /\ sse.pkt_list # <<>> /\ sse.ack_timeout = 0
         /\ sse' = TryLowerSend(PopPkt(GetSse))
         /\ Put("snd", LowerSent(PopPkt(GetSse)))
<1>1. /\ AckExpired
      /\ sse' = IdleCheck(TryLowerSend(PopPkt(GetSse)))
      /\ Put("snd", LowerSent(PopPkt(GetSse)))
  BY DEF TimerDrop
<1>2. sse.live /\ sse.pkt_list # <<>> /\ sse \in SseType /\ sse.ack_timeout = 0
  BY <1>1, AckExpiredHead DEF AckExpired
<1>3. SendReady(PopPkt(GetSse))
  BY <1>2, PopPktReady
<1> QED BY <1>1, <1>2, <1>3, TryLowerSendQueue, FreshNotFreed

\* send_ack_req after the first timeout: the timer stays expired.
LEMMA AckReqFields ==
  ASSUME IInv, TimerAckReq
  PROVE  /\ sse.live /\ sse.pkt_list # <<>> /\ sse.ack_timeout = 0
         /\ sse'.live /\ sse'.idle_timeout = IDLE_TIMEOUT
         /\ sse'.seq = sse.seq /\ sse'.pkt_list = sse.pkt_list
         /\ sse'.ack_timeout = 0
         /\ Put("snd", <<AckReqFrame(sse)>>)
<1> DEFINE asked == [GetSse EXCEPT !.ack_retry = @ + 1]
<1>1. AckExpired /\ sse' = IdleCheck(asked) /\ Put("snd", <<AckReqFrame(sse)>>)
  BY DEF TimerAckReq
<1>2. /\ sse.live /\ sse.pkt_list # <<>> /\ sse.ack_timeout = 0
      /\ sse \in SseType /\ GetSse \in SseType
  BY <1>1, AckExpiredHead DEF AckExpired
<1>3. /\ asked.live /\ asked.idle_timeout = IDLE_TIMEOUT /\ asked.seq = sse.seq
      /\ asked.pkt_list = sse.pkt_list /\ asked.ack_timeout = 0
  BY <1>2, GetSseFields DEF SseType
<1> HIDE DEF asked
<1>4. sse' = asked
  BY <1>1, <1>3, FreshNotFreed
<1> QED BY <1>1, <1>2, <1>3, <1>4

\* proc_ack_part for the head: the wanted slices are sent, the timer restarts.
LEMMA PartFields ==
  ASSUME IInv, NEW f \in net, ProcAckPart(f), sse.live, ForHead(f)
  PROVE  LET pkt == Head(sse.pkt_list)
         IN /\ sse'.live /\ sse'.idle_timeout = IDLE_TIMEOUT
            /\ sse'.seq = sse.seq /\ sse'.pkt_list = sse.pkt_list
            /\ sse'.ack_timeout = ACK_TIMEOUT
            /\ pkt \in PktsOf(accepted) /\ sse.pkt_list # <<>> /\ pkt.seq = f.seq
            /\ \E fs \in Seq(Frames) :
                 /\ Put("snd", fs)
                 /\ fs = <<>> \/ \E slices \in SUBSET (0..MAX_SLICE_NUM) :
                                   fs = <<Frame("PATCH", pkt.seq, pkt.msg, slices)>>
<1> DEFINE pkt == Head(sse.pkt_list)
           slices == {i \in f.slices : i < NSlices[pkt.msg]}
           fs == PatchFrames(pkt, f.slices)
<1>1. /\ sse' = [GetSse EXCEPT !.ack_timeout = ACK_TIMEOUT, !.ack_retry = 0]
      /\ Put("snd", fs)
      /\ sse.pkt_list # <<>> /\ pkt.seq = f.seq
  BY DEF ProcAckPart, ForHead
<1>2. pkt \in PktsOf(accepted) /\ pkt.msg \in 0..NumMsgs
  BY <1>1, HeadIsMsg DEF Msgs
<1>3. f \in Frames
  BY NetInFlight
<1>4. slices \in SUBSET (0..MAX_SLICE_NUM)
  BY <1>3 DEF Frames
<1>5. fs = <<>> \/ fs = <<Frame("PATCH", pkt.seq, pkt.msg, slices)>>
  BY DEF PatchFrames
<1> HIDE DEF slices, fs
<1>6. Frame("PATCH", pkt.seq, pkt.msg, slices) \in Frames
  BY <1>2, <1>4 DEF Frame, Frames, PktsOf
<1>7. fs \in Seq(Frames)
  <2>1. <<Frame("PATCH", pkt.seq, pkt.msg, slices)>> \in Seq(Frames)
    BY <1>6
  <2> QED BY <1>5, <2>1, EmptySeq
<1>8. GetSse \in SseType /\ GetSse.live /\ GetSse.pkt_list = sse.pkt_list
      /\ GetSse.seq = sse.seq /\ GetSse.idle_timeout = IDLE_TIMEOUT
  BY GetSseFields DEF IInv, SenderInv
<1>9. /\ sse'.live /\ sse'.idle_timeout = IDLE_TIMEOUT
      /\ sse'.seq = sse.seq /\ sse'.pkt_list = sse.pkt_list
      /\ sse'.ack_timeout = ACK_TIMEOUT
  BY <1>1, <1>8 DEF SseType
<1> QED BY <1>1, <1>2, <1>4, <1>5, <1>7, <1>9

\* An acknowledgement that is not the head's.
LEMMA RefreshFields ==
  ASSUME IInv, sse' = IF sse.live THEN GetSse ELSE sse
  PROVE  /\ sse'.live = sse.live /\ sse'.seq = sse.seq
         /\ sse'.pkt_list = sse.pkt_list /\ sse'.ack_timeout = sse.ack_timeout
         /\ sse.live => sse'.idle_timeout = IDLE_TIMEOUT
         /\ ~sse.live => sse' = sse
BY GetSseFields DEF IInv, SenderInv

\* proc_timer on a quiet session frees it only if it is idle and empty.
LEMMA QuietFields ==
  ASSUME IInv, TimerQuiet
  PROVE  \/ sse' = sse
         \/ sse' = NoSse /\ sse.live /\ sse.idle_timeout = 0 /\ sse.pkt_list = <<>>
<1>1. CASE sse.live /\ sse.idle_timeout = 0
  <2>1. sse' = NoSse /\ ~sse'.live
    BY <1>1, NoSseFields DEF TimerQuiet, IdleCheck
  <2> QED BY <1>1, <2>1, TimerQuietInv
<1>2. CASE ~(sse.live /\ sse.idle_timeout = 0)
  BY <1>2 DEF TimerQuiet, IdleCheck
<1> QED BY <1>1, <1>2

LEMMA TickFields ==
  ASSUME IInv, Tick
  PROVE  /\ due = {} /\ due' = Nodes
         /\ sse'.live = sse.live /\ sse'.seq = sse.seq /\ sse'.pkt_list = sse.pkt_list
         /\ sse'.idle_timeout = IF sse.idle_timeout > 0 THEN sse.idle_timeout - 1
                                ELSE sse.idle_timeout
         /\ rse' = [rse EXCEPT !.idle_timeout = rse'.idle_timeout]
         /\ rse'.idle_timeout = IF rse.idle_timeout > 0 THEN rse.idle_timeout - 1
                                ELSE rse.idle_timeout
         /\ UNCHANGED <<lower_send_list, net, upper_recv_list, accepted,
                        submits, confirmed, dropped>>
         /\ "delays" \notin link => Flight = {}
<1>1. /\ sse' = [sse EXCEPT !.idle_timeout = IF @ > 0 THEN @ - 1 ELSE @,
                            !.ack_timeout = IF @ > 0 THEN @ - 1 ELSE @]
      /\ rse' = [rse EXCEPT !.idle_timeout = IF @ > 0 THEN @ - 1 ELSE @]
      /\ due = {} /\ due' = Nodes
      /\ UNCHANGED <<lower_send_list, net, upper_recv_list, accepted,
                     submits, confirmed, dropped>>
      /\ "delays" \notin link => net = {} /\ \A n \in Nodes : lower_send_list[n] = <<>>
  BY DEF Tick
<1>2. sse \in SseType /\ rse \in RseType
  BY DEF IInv, SenderInv, ReceiverInv
<1>3. /\ sse'.live = sse.live /\ sse'.seq = sse.seq /\ sse'.pkt_list = sse.pkt_list
      /\ sse'.idle_timeout = IF sse.idle_timeout > 0 THEN sse.idle_timeout - 1
                             ELSE sse.idle_timeout
  BY <1>1, <1>2 DEF SseType
<1>4. /\ rse' = [rse EXCEPT !.idle_timeout = rse'.idle_timeout]
      /\ rse'.idle_timeout = IF rse.idle_timeout > 0 THEN rse.idle_timeout - 1
                             ELSE rse.idle_timeout
  BY <1>1, <1>2 DEF RseType
<1> QED BY <1>1, <1>3, <1>4, FlightNone

-----------------------------------------------------------------------------
(* Calm is an invariant. *)

LEMMA InitCalm == Init => Calm
BY DEF Init, Calm, FreedEmpty, PassFirst

\* A handler of frames never leaves an expired timer.
LEMMA LowerPutAck ==
  ASSUME IInv, NEW f \in net, LowerPut(f), sse.ack_timeout # 0
  PROVE  sse'.ack_timeout # 0
<1>0. ACK_TIMEOUT # 0 /\ NoTimer # 0
  BY ConstantsAssumption DEF NoTimer
<1>1. CASE ProcData(f) \/ ProcAckReq(f) \/ \E good \in SUBSET f.slices : ProcPatch(f, good)
  BY <1>1 DEF ProcData, ProcAckReq, ProcPatch, senderVars
<1>2. CASE ProcAckAll(f)
  <2>1. CASE sse.live /\ ForHead(f)
    <3>1. sse' = TryLowerSend(PopPkt(GetSse)) /\ Put("snd", LowerSent(PopPkt(GetSse)))
          /\ sse.pkt_list # <<>>
      BY <1>2, <2>1 DEF ProcAckAll, ForHead
    <3> QED BY <1>0, <2>1, <3>1, ResolveFields
  <2>2. CASE ~(sse.live /\ ForHead(f))
    BY <1>2, <2>2, RefreshFields DEF ProcAckAll
  <2> QED BY <2>1, <2>2
<1>3. CASE ProcAckPart(f)
  <2>1. CASE sse.live /\ ForHead(f)
    BY <1>0, <1>3, <2>1, PartFields
  <2>2. CASE ~(sse.live /\ ForHead(f))
    BY <1>3, <2>2, RefreshFields DEF ProcAckPart
  <2> QED BY <2>1, <2>2
<1> QED BY <1>1, <1>2, <1>3 DEF LowerPut

LEMMA LowerPutFreed ==
  ASSUME IInv, FreedEmpty, NEW f \in net, LowerPut(f)
  PROVE  FreedEmpty'
<1>1. CASE sse.live
  BY <1>1, LowerPutKeepsSse DEF FreedEmpty
<1>2. CASE ~sse.live
  <2>1. sse' = sse
    BY <1>2 DEF LowerPut, ProcData, ProcAckReq, ProcPatch, ProcAckAll, ProcAckPart, senderVars
  <2> QED BY <2>1 DEF FreedEmpty
<1> QED BY <1>1, <1>2

LEMMA NextCalm ==
  IInv /\ Calm /\ [Next]_vars => Calm'
<1> SUFFICES ASSUME IInv, Calm, [Next]_vars PROVE Calm'
  OBVIOUS
<1>0. link' = link /\ FreedEmpty /\ PassFirst /\ ACK_TIMEOUT # 0
  BY ConstantsAssumption DEF Next, vars, Calm
<1>1. CASE UpperSend
  <2>1. FreedEmpty'
    BY <1>0, <1>1, UpperSendFields DEF FreedEmpty
  <2>2. SUFFICES ASSUME "delays" \notin link, "snd" \in due', sse'.ack_timeout = 0
                 PROVE  Flight' = {}
    BY <1>0, <2>1 DEF Calm, PassFirst
  <2>3. /\ Put("snd", <<>>) /\ sse.ack_timeout = 0
        /\ UNCHANGED <<net, due>>
    BY <1>0, <1>1, <2>2, UpperSendFields
  <2>4. Flight' \subseteq Flight
    BY <2>3, FlightPutNone DEF Nodes
  <2> QED BY <1>0, <2>2, <2>3, <2>4 DEF PassFirst
<1>2. CASE UpperRecv \/ \E f \in net : Lose(f)
  <2>1. UNCHANGED <<sse, due, lower_send_list>> /\ net' \subseteq net
    BY <1>2 DEF UpperRecv, Lose, senderVars
  <2> QED BY <1>0, <2>1, FlightShrinks DEF Calm, FreedEmpty, PassFirst
<1>3. CASE TimerQuiet
  <2>1. "snd" \notin due'
    BY <1>3 DEF TimerQuiet, TimerPass
  <2> QED BY <1>0, <1>3, <2>1, QuietFields DEF Calm, FreedEmpty, PassFirst
<1>4. CASE TimerAckReq \/ TimerResend \/ TimerDrop
  <2>1. "snd" \notin due'
    BY <1>4 DEF TimerAckReq, TimerResend, TimerDrop, TimerPass
  <2>2. sse'.live
    BY <1>4, AckReqFields, ResendFields, TimerDropInv
  <2> QED BY <2>1, <2>2 DEF Calm, FreedEmpty, PassFirst
<1>5. CASE ReceiverTimer
  <2>1. UNCHANGED <<sse, lower_send_list, net>> /\ due' \subseteq due
    BY <1>5 DEF ReceiverTimer, TimerPass, senderVars
  <2> QED BY <1>0, <2>1, FlightShrinks DEF Calm, FreedEmpty, PassFirst
<1>6. CASE \E n \in Nodes : LowerFetch(n)
  <2>1. UNCHANGED <<sse, due>>
    BY <1>6 DEF LowerFetch, senderVars
  <2> QED BY <1>0, <1>6, <2>1, FlightFetch DEF Calm, FreedEmpty, PassFirst
<1>7. CASE \E f \in net : LowerPut(f)
  <2>1. PICK f \in net : LowerPut(f)
    BY <1>7
  <2>2. due' = due /\ Flight # {}
    BY <2>1, NetInFlight DEF LowerPut
  <2>3. "delays" \notin link /\ "snd" \in due' => sse'.ack_timeout # 0
    BY <1>0, <2>1, <2>2, LowerPutAck DEF PassFirst
  <2> QED BY <1>0, <2>1, <2>3, LowerPutFreed DEF Calm, PassFirst
<1>8. CASE Tick
  <2>1. "delays" \notin link => Flight' = {}
    BY <1>8, TickFields, FlightShrinks
  <2>2. FreedEmpty'
    <3> SUFFICES ASSUME ~sse.live PROVE sse' = NoSse
      BY <1>8, TickFields DEF FreedEmpty
    <3>1. sse = NoSse
      BY <1>0 DEF FreedEmpty
    <3>2. sse.idle_timeout = 0 /\ sse.ack_timeout = -1 /\ sse \in SseType
      BY <3>1, NoSseFields DEF NoSse, NoTimer
    <3>3. sse' = [sse EXCEPT !.idle_timeout = IF sse.idle_timeout > 0
                                              THEN sse.idle_timeout - 1
                                              ELSE sse.idle_timeout,
                             !.ack_timeout = IF sse.ack_timeout > 0
                                             THEN sse.ack_timeout - 1
                                             ELSE sse.ack_timeout]
      BY <1>8, <3>2 DEF Tick, SseType
    <3>4. sse' = [sse EXCEPT !.idle_timeout = sse.idle_timeout,
                             !.ack_timeout = sse.ack_timeout]
      BY <3>2, <3>3
    <3>5. [sse EXCEPT !.idle_timeout = sse.idle_timeout,
                      !.ack_timeout = sse.ack_timeout] = sse
      BY <3>2 DEF SseType
    <3> QED BY <3>1, <3>4, <3>5
  <2> QED BY <1>0, <2>1, <2>2 DEF Calm, PassFirst
<1>9. CASE UNCHANGED vars
  BY <1>9 DEF vars, nodeVars, Calm, FreedEmpty, PassFirst, Flight
<1> QED BY <1>1, <1>2, <1>3, <1>4, <1>5, <1>6, <1>7, <1>8, <1>9 DEF Next, Step

LEMMA CalmAlways == Spec => []Calm
BY InitCalm, NextCalm, Inductive, PTL DEF Spec

-----------------------------------------------------------------------------
(* The invariant behind LinkService.  As long as the numbers of a session do *)
(* not wrap, a number stands for one message: the last accepted message has  *)
(* the number before sse.seq.                                                *)

\* upper_send never wraps the number of a session.
NeverWraps == [][accepted' # accepted => sse'.seq # 0]_vars

\* The message of number s in the sender's present session.
MsgOf(s) == accepted - sse.seq + 1 + s

Arrived == {m \in Msgs : submits[m] > 0}

AtHead(m) == sse.pkt_list # <<>> /\ Head(sse.pkt_list).msg = m

Numbered ==
  /\ sse.seq <= accepted
  /\ \A i \in 1..Len(sse.pkt_list) :
       /\ sse.pkt_list[i].seq < sse.seq
       /\ sse.pkt_list[i].msg = MsgOf(sse.pkt_list[i].seq)

\* Whatever is under way belongs to the sender's present session, which is then
\* fresh; data are the head's, or of a message that arrived; an acknowledgement
\* is of one that arrived.
FrameOk(f) ==
  /\ sse.live /\ sse.idle_timeout = IDLE_TIMEOUT
  /\ f.seq < sse.seq
  /\ f.type \in {"DATA", "PATCH"} =>
       f.msg = MsgOf(f.seq) /\ (f.msg \in Arrived \/ AtHead(f.msg))
  /\ f.type = "ACKA" => MsgOf(f.seq) \in Arrived

FlightOk == \A f \in Flight : FrameOk(f)

\* The receiver's session is about a message of the sender's present session...
Current ==
  sse.live /\ rse.seq_exp < sse.seq /\ rse.msg = MsgOf(rse.seq_exp)

\* ...or of one that was freed, and then it is itself freed by the timer of this
\* period or started over by the first DATA frame.
Stale ==
  /\ rse.idle_timeout = 0 /\ sse.ack_timeout # 0
  /\ \A f \in Flight : f.type = "DATA"

ReceiverOk ==
  rse.live =>
    /\ rse.idle_timeout = 0 => "rcv" \in due
    /\ rse.idle_timeout <= sse.idle_timeout
    /\ Current \/ Stale
    /\ TestAllBitsSet(rse) /\ ~rse.nak => rse.msg \in Arrived

ServiceInv == Numbered /\ FlightOk /\ ReceiverOk

\* The conjuncts that make a step preserve what is under way.
LEMMA FrameOkKept ==
  ASSUME NEW g, FrameOk(g), sse'.live, sse'.idle_timeout = IDLE_TIMEOUT,
         sse \in SseType, sse' \in SseType, accepted \in Nat, accepted' \in Nat,
         g \in Frames,
         accepted' - sse'.seq = accepted - sse.seq, sse.seq <= sse'.seq,
         Arrived \subseteq Arrived',
         \A m \in Msgs : AtHead(m) => AtHead(m)' \/ m \in Arrived',
         g.type \in {"DATA", "PATCH"} => g.msg \in Msgs
  PROVE  FrameOk(g)'
<1>1. g.seq \in Nat /\ sse.seq \in Nat /\ sse'.seq \in Nat
  BY ConstantsAssumption DEF Frames, SseType, SeqNos
<1>2. g.seq < sse'.seq
  BY <1>1 DEF FrameOk
<1>3. MsgOf(g.seq)' = MsgOf(g.seq)
  BY <1>1 DEF MsgOf
<1> QED BY <1>2, <1>3 DEF FrameOk

\* A step of the sending side that keeps its session fresh and adds only frames
\* of the present session.
LEMMA SenderStep ==
  ASSUME IInv, IInv', ServiceInv, Numbered', NEW S,
         Flight' \subseteq Flight \cup S,
         \A g \in S : FrameOk(g)',
         UNCHANGED <<rse, submits>>, "rcv" \in due => "rcv" \in due',
         sse'.live, sse'.idle_timeout = IDLE_TIMEOUT,
         sse.live => accepted' - sse'.seq = accepted - sse.seq /\ sse.seq <= sse'.seq,
         Flight # {} => \A m \in Msgs : AtHead(m) => AtHead(m)' \/ m \in Arrived,
         rse.live /\ Stale => sse'.ack_timeout # 0 /\ \A g \in S : g.type = "DATA"
  PROVE  ServiceInv'
<1>0. /\ sse \in SseType /\ sse' \in SseType /\ accepted \in Nat /\ accepted' \in Nat
      /\ rse \in RseType /\ Arrived' = Arrived
  BY ConstantsAssumption DEF IInv, SenderInv, ReceiverInv, Arrived
<1>1. FlightOk'
  <2> SUFFICES ASSUME NEW g \in Flight' PROVE FrameOk(g)'
    BY DEF FlightOk
  <2>1. CASE g \in Flight
    <3>1. FrameOk(g) /\ sse.live
      BY <2>1 DEF ServiceInv, FlightOk, FrameOk
    <3>2. g \in Frames /\ (g.type \in {"DATA", "PATCH"} => g.msg \in Msgs)
      <4>1. g \in FramesOf(accepted)
        BY <2>1, FlightTyped
      <4> QED BY <4>1, ConstantsAssumption DEF FramesOf, IInv, SenderInv, Msgs
    <3> QED BY <1>0, <2>1, <3>1, <3>2, FrameOkKept
  <2>2. CASE g \in S
    BY <2>2
  <2> QED BY <2>1, <2>2
<1>2. ReceiverOk'
  <2> SUFFICES ASSUME rse.live PROVE ReceiverOk'
    BY DEF ReceiverOk
  <2>1. ReceiverOk
    BY DEF ServiceInv
  <2>2. rse.idle_timeout <= sse'.idle_timeout
    BY <1>0, ConstantsAssumption DEF RseType
  <2>3. CASE Current
    <3>1. /\ sse.seq \in Nat /\ sse'.seq \in Nat /\ rse.seq_exp \in Nat
      BY <1>0, ConstantsAssumption DEF SseType, RseType, SeqNos
    <3>2. Current'
      BY <1>0, <2>3, <3>1 DEF Current, MsgOf
    <3> QED BY <1>0, <2>1, <2>2, <3>2 DEF ReceiverOk, TestAllBitsSet
  <2>4. CASE Stale
    <3>1. Stale'
      BY <2>4 DEF Stale
    <3> QED BY <1>0, <2>1, <2>2, <3>1 DEF ReceiverOk, TestAllBitsSet
  <2> QED BY <2>1, <2>3, <2>4 DEF ReceiverOk
<1> QED BY <1>1, <1>2 DEF ServiceInv

\* The announcement of the head of the queue is a frame of the session.
LEMMA AnnounceOk ==
  ASSUME NEW g, sse'.live, sse'.idle_timeout = IDLE_TIMEOUT,
         sse'.pkt_list # <<>>, g = DataFrame(Head(sse'.pkt_list)),
         Head(sse'.pkt_list).seq < sse'.seq,
         Head(sse'.pkt_list).msg = accepted' - sse'.seq + 1 + Head(sse'.pkt_list).seq
  PROVE  FrameOk(g)' /\ g.type = "DATA"
<1>1. /\ g.type = "DATA" /\ g.seq = Head(sse'.pkt_list).seq
      /\ g.msg = Head(sse'.pkt_list).msg
  BY DEF DataFrame, Frame
<1> QED BY <1>1 DEF FrameOk, AtHead, MsgOf

\* The head of the queue is numbered.
HeadOk ==
  sse.pkt_list # <<>> =>
    /\ Head(sse.pkt_list).seq < sse.seq
    /\ Head(sse.pkt_list).msg = MsgOf(Head(sse.pkt_list).seq)

LEMMA HeadNumbered == IInv /\ Numbered => HeadOk
<1> SUFFICES ASSUME IInv, Numbered, sse.pkt_list # <<>>
             PROVE  /\ Head(sse.pkt_list).seq < sse.seq
                    /\ Head(sse.pkt_list).msg = MsgOf(Head(sse.pkt_list).seq)
  BY DEF HeadOk
<1>1. sse.pkt_list \in Seq(Pkts)
  BY DEF IInv, SenderInv, SseType
<1>2. 1 \in 1..Len(sse.pkt_list) /\ Head(sse.pkt_list) = sse.pkt_list[1]
  BY <1>1
<1> QED BY <1>2 DEF Numbered

\* It still is after the step.
LEMMA NextHeadNumbered ==
  ASSUME IInv', Numbered', sse'.pkt_list # <<>>
  PROVE  /\ Head(sse'.pkt_list).seq < sse'.seq
         /\ Head(sse'.pkt_list).msg = accepted' - sse'.seq + 1 + Head(sse'.pkt_list).seq
<1>1. HeadOk'
  BY HeadNumbered, PTL
<1> QED BY <1>1 DEF HeadOk, MsgOf

\* A step that only shortens the queue, or leaves it, keeps it numbered.
LEMMA NumberedKept ==
  ASSUME IInv, Numbered, UNCHANGED accepted, sse'.seq = sse.seq,
         \/ sse'.pkt_list = sse.pkt_list
         \/ sse.pkt_list # <<>> /\ sse'.pkt_list = Tail(sse.pkt_list)
  PROVE  Numbered'
<1>1. sse.pkt_list \in Seq(Pkts)
  BY DEF IInv, SenderInv, SseType
<1>2. \A s : MsgOf(s)' = accepted - sse.seq + 1 + s
  BY DEF MsgOf
<1>3. CASE sse'.pkt_list = sse.pkt_list
  BY <1>3 DEF Numbered, MsgOf
<1>4. CASE sse.pkt_list # <<>> /\ sse'.pkt_list = Tail(sse.pkt_list)
  <2> DEFINE q == sse.pkt_list
  <2>1. /\ Len(q) \in Nat /\ Len(Tail(q)) = Len(q) - 1
        /\ \A i \in 1..(Len(q) - 1) : i + 1 \in 1..Len(q) /\ Tail(q)[i] = q[i + 1]
    BY <1>1, <1>4
  <2>2. \A i \in 1..Len(q) :
          q[i].seq < sse.seq /\ q[i].msg = accepted - sse.seq + 1 + q[i].seq
    BY DEF Numbered, MsgOf
  <2>3. sse'.pkt_list = Tail(q)
    BY <1>4
  <2> HIDE DEF q
  <2>4. \A i \in 1..Len(Tail(q)) :
          /\ Tail(q)[i].seq < sse.seq
          /\ Tail(q)[i].msg = accepted - sse.seq + 1 + Tail(q)[i].seq
    BY <2>1, <2>2
  <2> QED BY <2>3, <2>4 DEF Numbered, MsgOf
<1> QED BY <1>3, <1>4

\* upper_send, while the number does not wrap.
LEMMA UpperSendService ==
  ASSUME IInv, IInv', Calm, ServiceInv, UpperSend, sse'.seq # 0
  PROVE  ServiceInv'
<1> DEFINE pkt == [msg |-> accepted + 1, seq |-> sse.seq]
           q == sse.pkt_list
<1>0. sse \in SseType /\ accepted \in Nat /\ FreedEmpty /\ Numbered
  BY ConstantsAssumption DEF IInv, SenderInv, Calm, ServiceInv
<1>1. /\ accepted' = accepted + 1 /\ sse'.live /\ sse'.idle_timeout = IDLE_TIMEOUT
      /\ sse'.seq = (sse.seq + 1) % NumSeq /\ sse'.pkt_list = Append(q, pkt)
      /\ IF q = <<>>
         THEN sse'.ack_timeout = ACK_TIMEOUT /\ Put("snd", <<DataFrame(pkt)>>)
         ELSE sse'.ack_timeout = sse.ack_timeout /\ Put("snd", <<>>)
      /\ UNCHANGED <<receiverVars, net, due>>
      /\ pkt \in PktsOf(accepted + 1) /\ accepted < NumMsgs
  BY <1>0, UpperSendFields
<1>2. sse.seq \in 0..(NumSeq - 1) /\ sse'.seq = sse.seq + 1
  <2>1. sse.seq \in 0..(NumSeq - 1)
    BY <1>0 DEF SseType, SeqNos
  <2>2. CASE sse.seq = NumSeq - 1
    <3>1. (sse.seq + 1) % NumSeq = 0
      BY <2>2, ConstantsAssumption
    <3> QED BY <1>1, <3>1
  <2>3. CASE sse.seq # NumSeq - 1
    <3>1. sse.seq + 1 \in 0..(NumSeq - 1) /\ sse.seq + 1 \in Nat
      BY <2>1, <2>3, ConstantsAssumption
    <3>2. (sse.seq + 1) % NumSeq = sse.seq + 1
      BY <3>1, ConstantsAssumption
    <3> QED BY <1>1, <2>1, <3>2
  <2> QED BY <2>1, <2>2, <2>3
<1>3. q \in Seq(Pkts)
  BY <1>0 DEF SseType
<1>4. pkt.msg = accepted + 1 /\ pkt.seq = sse.seq
  OBVIOUS
<1>5. \A i \in 1..Len(q) :
        q[i] \in Pkts /\ q[i].seq < sse.seq /\ q[i].msg = accepted - sse.seq + 1 + q[i].seq
  BY <1>0, <1>3 DEF Numbered, MsgOf
<1>6. sse.seq <= accepted /\ sse.seq \in Nat
  BY <1>0, <1>2, ConstantsAssumption DEF Numbered
<1> HIDE DEF pkt, q
<1>7. /\ Len(q) \in Nat /\ Len(Append(q, pkt)) = Len(q) + 1
      /\ \A i \in 1..(Len(q) + 1) :
           Append(q, pkt)[i] = IF i = Len(q) + 1 THEN pkt ELSE q[i]
      /\ Append(q, pkt) # <<>>
      /\ q = <<>> => Head(Append(q, pkt)) = pkt
      /\ q # <<>> => Head(Append(q, pkt)) = Head(q)
  <2>1. pkt \in Pkts
    BY <1>0, <1>1, ConstantsAssumption DEF PktsOf, Pkts, Msgs
  <2>2. /\ Append(q, pkt) \in Seq(Pkts) /\ Len(q) \in Nat
        /\ q = <<>> => Head(Append(q, pkt)) = pkt
    BY <1>3, <2>1
  <2>3. q # <<>> => Head(Append(q, pkt)) = Head(q)
    BY <1>3, <2>1
  <2>4. /\ Len(Append(q, pkt)) = Len(q) + 1
        /\ \A i \in 1..(Len(q) + 1) :
             Append(q, pkt)[i] = IF i = Len(q) + 1 THEN pkt ELSE q[i]
    BY <1>3, <2>1
  <2>5. Append(q, pkt) # <<>>
    BY <1>3, <2>1, AppendProperties
  <2> QED BY <2>2, <2>3, <2>4, <2>5
<1>8. Numbered'
  <2>1. ASSUME NEW i \in 1..Len(Append(q, pkt))
        PROVE  /\ Append(q, pkt)[i].seq < sse.seq + 1
               /\ Append(q, pkt)[i].msg
                    = (accepted + 1) - (sse.seq + 1) + 1 + Append(q, pkt)[i].seq
    <3>1. CASE i = Len(q) + 1
      BY <1>0, <1>2, <1>4, <1>7, <3>1, ConstantsAssumption
    <3>2. CASE i # Len(q) + 1
      <4>1. i \in 1..Len(q) /\ Append(q, pkt)[i] = q[i]
        BY <1>7, <3>2
      <4>2. q[i].seq \in Int
        BY <1>5, <4>1, ConstantsAssumption DEF Pkts, SeqNos
      <4> QED BY <1>0, <1>2, <1>5, <4>1, <4>2, ConstantsAssumption
    <3> QED BY <3>1, <3>2
  <2>2. sse'.seq <= accepted'
    BY <1>0, <1>1, <1>2, <1>6, ConstantsAssumption
  <2> QED BY <1>1, <1>2, <2>1, <2>2 DEF Numbered, MsgOf
<1> DEFINE S == IF q = <<>> THEN {DataFrame(pkt)} ELSE {}
<1>9. Flight' \subseteq Flight \cup S
  <2>1. CASE q = <<>>
    BY <1>1, <2>1, FlightPutOne DEF Nodes
  <2>2. CASE q # <<>>
    BY <1>1, <2>2, FlightPutNone DEF Nodes
  <2> QED BY <2>1, <2>2
<1>10. \A g \in S : FrameOk(g)' /\ g.type = "DATA"
  <2> SUFFICES ASSUME NEW g, q = <<>>, g = DataFrame(pkt)
               PROVE  FrameOk(g)' /\ g.type = "DATA"
    OBVIOUS
  <2>1. pkt = Head(sse'.pkt_list) /\ sse'.pkt_list # <<>>
    BY <1>1, <1>7
  <2> QED BY <1>1, <1>8, <2>1, NextHeadNumbered, AnnounceOk
<1>11. \A m \in Msgs : AtHead(m) => AtHead(m)' \/ m \in Arrived
  BY <1>1, <1>7 DEF AtHead, q
<1>12. accepted' - sse'.seq = accepted - sse.seq /\ sse.seq <= sse'.seq
  <2>1. accepted' = accepted + 1 /\ sse'.seq = sse.seq + 1
    BY <1>1, <1>2
  <2> QED BY <1>0, <1>6, <2>1
<1>13. Stale => sse'.ack_timeout # 0
  BY <1>1, ConstantsAssumption DEF Stale
<1> HIDE DEF S
<1>14. UNCHANGED <<rse, submits>> /\ ("rcv" \in due => "rcv" \in due')
  BY <1>1 DEF receiverVars
<1> QED BY <1>1, <1>8, <1>9, <1>10, <1>11, <1>12, <1>13, <1>14, SenderStep

\* The timer asks for an acknowledgement, or sends the head again.
LEMMA AckReqService ==
  ASSUME IInv, IInv', ServiceInv, TimerAckReq
  PROVE  ServiceInv'
<1> DEFINE h == AckReqFrame(sse)
           S == {h}
<1>1. /\ sse.live /\ sse.pkt_list # <<>> /\ sse.ack_timeout = 0
      /\ sse'.live /\ sse'.idle_timeout = IDLE_TIMEOUT
      /\ sse'.seq = sse.seq /\ sse'.pkt_list = sse.pkt_list
      /\ Put("snd", <<h>>)
  BY AckReqFields
<1>2. UNCHANGED <<rse, submits, net, accepted>> /\ ("rcv" \in due => "rcv" \in due')
  BY DEF TimerAckReq, TimerPass, receiverVars
<1>3. Numbered /\ Numbered'
  BY <1>1, <1>2, NumberedKept DEF ServiceInv
<1>4. h.type = "ACKR" /\ h.seq < sse.seq
  <2>1. sse.seq \in 0..(NumSeq - 1) /\ 0 < sse.seq
    <3>1. sse \in SseType /\ Head(sse.pkt_list) \in PktsOf(accepted)
      BY <1>1, HeadIsMsg DEF IInv, SenderInv
    <3> QED BY <1>1, <1>3, <3>1, HeadNumbered, ConstantsAssumption
            DEF HeadOk, SseType, SeqNos, PktsOf
  <2>2. (sse.seq - 1) % NumSeq = sse.seq - 1
    BY <2>1, ConstantsAssumption
  <2> QED BY <2>1, <2>2 DEF AckReqFrame, Frame
<1>5. Flight' \subseteq Flight \cup S
  BY <1>1, <1>2, FlightPutOne DEF Nodes
<1> HIDE DEF h
<1>6. \A g \in S : FrameOk(g)'
  BY <1>1, <1>4 DEF FrameOk
<1> HIDE DEF S
<1>7. ~Stale
  BY <1>1 DEF Stale
<1>8. accepted' - sse'.seq = accepted - sse.seq /\ sse.seq <= sse'.seq
  <2>1. sse.seq \in Nat
    BY ConstantsAssumption DEF IInv, SenderInv, SseType, SeqNos
  <2> QED BY <1>1, <1>2, <2>1
<1>9. \A m \in Msgs : AtHead(m) => AtHead(m)'
  BY <1>1 DEF AtHead
<1> QED BY <1>1, <1>2, <1>3, <1>5, <1>6, <1>7, <1>8, <1>9, SenderStep

LEMMA ResendService ==
  ASSUME IInv, IInv', ServiceInv, TimerResend
  PROVE  ServiceInv'
<1> DEFINE pkt == Head(sse.pkt_list)
           S == {DataFrame(pkt)}
<1>1. /\ sse.live /\ sse.pkt_list # <<>> /\ sse.ack_timeout = 0
      /\ sse'.live /\ sse'.idle_timeout = IDLE_TIMEOUT
      /\ sse'.seq = sse.seq /\ sse'.pkt_list = sse.pkt_list
      /\ Put("snd", <<DataFrame(pkt)>>)
  BY ResendFields
<1>2. UNCHANGED <<rse, submits, net, accepted>> /\ ("rcv" \in due => "rcv" \in due')
  BY DEF TimerResend, TimerPass, receiverVars
<1>3. Numbered /\ Numbered'
  BY <1>1, <1>2, NumberedKept DEF ServiceInv
<1>5. Flight' \subseteq Flight \cup S
  BY <1>1, <1>2, FlightPutOne DEF Nodes
<1>6. \A g \in S : FrameOk(g)'
  BY <1>1, <1>3, NextHeadNumbered, AnnounceOk
<1> HIDE DEF pkt, S
<1>7. ~Stale
  BY <1>1 DEF Stale
<1>8. accepted' - sse'.seq = accepted - sse.seq /\ sse.seq <= sse'.seq
  <2>1. sse.seq \in Nat
    BY ConstantsAssumption DEF IInv, SenderInv, SseType, SeqNos
  <2> QED BY <1>1, <1>2, <2>1
<1>9. \A m \in Msgs : AtHead(m) => AtHead(m)'
  BY <1>1 DEF AtHead
<1> QED BY <1>1, <1>2, <1>3, <1>5, <1>6, <1>7, <1>8, <1>9, SenderStep

\* The head leaves the queue: nothing is under way about it any more, or it has
\* arrived.
LEMMA ResolveService ==
  ASSUME IInv, IInv', ServiceInv, sse.live, sse.pkt_list # <<>>,
         sse' = TryLowerSend(PopPkt(GetSse)), Put("snd", LowerSent(PopPkt(GetSse))),
         UNCHANGED <<rse, submits, accepted>>, net' \subseteq net,
         "rcv" \in due => "rcv" \in due', rse.live => ~Stale,
         Flight = {} \/ Head(sse.pkt_list).msg \in Arrived
  PROVE  ServiceInv'
<1> DEFINE rest == Tail(sse.pkt_list)
           S == IF rest = <<>> THEN {} ELSE {DataFrame(Head(rest))}
<1>1. /\ sse'.live /\ sse'.idle_timeout = IDLE_TIMEOUT
      /\ sse'.seq = sse.seq /\ sse'.pkt_list = rest
      /\ rest = <<>> => Put("snd", <<>>)
      /\ rest # <<>> => Put("snd", <<DataFrame(Head(rest))>>)
  BY ResolveFields
<1>2. Numbered /\ Numbered'
  BY <1>1, NumberedKept DEF ServiceInv
<1>3. Flight' \subseteq Flight \cup S
  <2>1. CASE rest = <<>>
    BY <1>1, <2>1, FlightPutNone DEF Nodes
  <2>2. CASE rest # <<>>
    BY <1>1, <2>2, FlightPutOne DEF Nodes
  <2> QED BY <2>1, <2>2
<1>4. \A g \in S : FrameOk(g)'
  <2> SUFFICES ASSUME NEW g, rest # <<>>, g = DataFrame(Head(rest)) PROVE FrameOk(g)'
    OBVIOUS
  <2> QED BY <1>1, <1>2, NextHeadNumbered, AnnounceOk
<1> HIDE DEF rest, S
<1>5. Flight # {} => \A m \in Msgs : AtHead(m) => m \in Arrived
  BY DEF AtHead
<1>6. accepted' - sse'.seq = accepted - sse.seq /\ sse.seq <= sse'.seq
  <2>1. sse.seq \in Nat
    BY ConstantsAssumption DEF IInv, SenderInv, SseType, SeqNos
  <2> QED BY <1>1, <2>1
<1> QED BY <1>1, <1>2, <1>3, <1>4, <1>5, <1>6, SenderStep

LEMMA DropService ==
  ASSUME IInv, IInv', Calm, ServiceInv, "delays" \notin link, TimerDrop
  PROVE  ServiceInv'
<1>1. /\ sse.live /\ sse.pkt_list # <<>> /\ sse.ack_timeout = 0
      /\ sse' = TryLowerSend(PopPkt(GetSse)) /\ Put("snd", LowerSent(PopPkt(GetSse)))
  BY DropFields
<1>2. /\ UNCHANGED <<rse, submits, net, accepted>>
      /\ "snd" \in due /\ ("rcv" \in due => "rcv" \in due')
  BY DEF TimerDrop, TimerPass, receiverVars
<1>3. ~Stale
  BY <1>1 DEF Stale
<1>4. Flight = {}
  BY <1>1, <1>2 DEF Calm, PassFirst
<1> QED BY <1>1, <1>2, <1>3, <1>4, ResolveService

\* The frame being handled is sound, and is not a DATA frame of a new session
\* if it is none.
LEMMA HandledOk ==
  ASSUME IInv, ServiceInv, NEW f \in net
  PROVE  FrameOk(f) /\ f \in Frames /\ (f.type # "DATA" => ~Stale)
BY NetInFlight DEF ServiceInv, FlightOk, Stale

\* proc_ack_all pops only a message that has arrived.
LEMMA AckedArrived ==
  ASSUME IInv, ServiceInv, NEW f \in net, f.type = "ACKA", ForHead(f)
  PROVE  Head(sse.pkt_list).msg \in Arrived
<1>1. sse.pkt_list # <<>> /\ Head(sse.pkt_list).seq = f.seq
  BY DEF ForHead
<1>2. Head(sse.pkt_list).msg = MsgOf(f.seq)
  BY <1>1, HeadNumbered DEF ServiceInv, HeadOk
<1> QED BY <1>2, HandledOk DEF FrameOk

LEMMA RefreshService ==
  ASSUME IInv, IInv', ServiceInv, NEW f \in net, f.type # "DATA",
         sse' = IF sse.live THEN GetSse ELSE sse,
         UNCHANGED <<rse, submits, accepted, due, lower_send_list>>, net' \subseteq net
  PROVE  ServiceInv'
<1>1. FrameOk(f) /\ ~Stale
  BY HandledOk
<1>2. /\ sse'.live /\ sse'.seq = sse.seq /\ sse'.pkt_list = sse.pkt_list
      /\ sse'.idle_timeout = IDLE_TIMEOUT
  BY <1>1, RefreshFields DEF FrameOk
<1>3. Numbered'
  BY <1>2, NumberedKept DEF ServiceInv
<1> DEFINE S == {}
<1>4. Flight' \subseteq Flight \cup S /\ \A g \in S : FrameOk(g)'
  BY FlightShrinks
<1> HIDE DEF S
<1>5. accepted' - sse'.seq = accepted - sse.seq /\ sse.seq <= sse'.seq
  <2>1. sse.seq \in Nat
    BY ConstantsAssumption DEF IInv, SenderInv, SseType, SeqNos
  <2> QED BY <1>2, <2>1
<1>6. \A m \in Msgs : AtHead(m) => AtHead(m)'
  BY <1>2 DEF AtHead
<1> QED BY <1>1, <1>2, <1>3, <1>4, <1>5, <1>6, SenderStep

LEMMA ProcAckAllService ==
  ASSUME IInv, IInv', ServiceInv, NEW f \in net, ProcAckAll(f),
         net' \subseteq net, UNCHANGED due
  PROVE  ServiceInv'
<1>0. f.type = "ACKA" /\ UNCHANGED <<rse, submits, accepted>> /\ ~Stale
  BY HandledOk DEF ProcAckAll, receiverVars
<1>1. CASE sse.live /\ ForHead(f)
  <2>1. /\ sse' = TryLowerSend(PopPkt(GetSse)) /\ Put("snd", LowerSent(PopPkt(GetSse)))
        /\ sse.pkt_list # <<>>
    BY <1>1 DEF ProcAckAll, ForHead
  <2>2. Head(sse.pkt_list).msg \in Arrived
    BY <1>0, <1>1, AckedArrived
  <2> QED BY <1>0, <1>1, <2>1, <2>2, ResolveService
<1>2. CASE ~(sse.live /\ ForHead(f))
  <2>1. sse' = (IF sse.live THEN GetSse ELSE sse) /\ UNCHANGED lower_send_list
    BY <1>2 DEF ProcAckAll
  <2>2. UNCHANGED <<rse, submits, accepted, due, lower_send_list>> /\ f.type # "DATA"
    BY <1>0, <2>1
  <2> QED BY <2>1, <2>2, RefreshService
<1> QED BY <1>1, <1>2

\* proc_ack_part answers with slices of the head.
LEMMA ProcAckPartService ==
  ASSUME IInv, IInv', ServiceInv, NEW f \in net, ProcAckPart(f),
         net' \subseteq net, UNCHANGED due
  PROVE  ServiceInv'
<1>0. f.type = "ACKP" /\ UNCHANGED <<rse, submits, accepted>> /\ ~Stale
  BY HandledOk DEF ProcAckPart, receiverVars
<1>1. CASE sse.live /\ ForHead(f)
  <2> DEFINE pkt == Head(sse.pkt_list)
  <2>1. /\ sse'.live /\ sse'.idle_timeout = IDLE_TIMEOUT
        /\ sse'.seq = sse.seq /\ sse'.pkt_list = sse.pkt_list
        /\ sse.pkt_list # <<>> /\ pkt.seq = f.seq
        /\ \E fs \in Seq(Frames) :
             /\ Put("snd", fs)
             /\ fs = <<>> \/ \E slices \in SUBSET (0..MAX_SLICE_NUM) :
                               fs = <<Frame("PATCH", pkt.seq, pkt.msg, slices)>>
    BY <1>1, PartFields
  <2>2. Numbered /\ Numbered'
    BY <1>0, <2>1, NumberedKept DEF ServiceInv
  <2>3. /\ Head(sse'.pkt_list).seq < sse'.seq
        /\ Head(sse'.pkt_list).msg = accepted' - sse'.seq + 1 + Head(sse'.pkt_list).seq
    BY <2>1, <2>2, NextHeadNumbered
  <2> DEFINE S == {g \in Flight' : g \notin Flight}
  <2>4. \A g \in S : FrameOk(g)'
    <3> SUFFICES ASSUME NEW g \in Flight', g \notin Flight PROVE FrameOk(g)'
      OBVIOUS
    <3>1. PICK fs \in Seq(Frames) :
             /\ Put("snd", fs)
             /\ fs = <<>> \/ \E slices \in SUBSET (0..MAX_SLICE_NUM) :
                               fs = <<Frame("PATCH", pkt.seq, pkt.msg, slices)>>
      BY <2>1
    <3>2. fs # <<>>
      BY <3>1, FlightPutNone DEF Nodes
    <3>3. PICK slices \in SUBSET (0..MAX_SLICE_NUM) :
             fs = <<Frame("PATCH", pkt.seq, pkt.msg, slices)>>
      BY <3>1, <3>2
    <3>4. g = Frame("PATCH", pkt.seq, pkt.msg, slices)
      BY <3>1, <3>3, FlightPutOne DEF Nodes
    <3>5. /\ g.type = "PATCH" /\ g.seq = Head(sse'.pkt_list).seq
          /\ g.msg = Head(sse'.pkt_list).msg
      BY <2>1, <3>4 DEF Frame
    <3> QED BY <2>1, <2>3, <3>5 DEF FrameOk, AtHead, MsgOf
  <2>7. Flight' \subseteq Flight \cup S
    OBVIOUS
  <2> HIDE DEF S
  <2> HIDE DEF pkt
  <2>5. accepted' - sse'.seq = accepted - sse.seq /\ sse.seq <= sse'.seq
    <3>1. sse.seq \in Nat
      BY ConstantsAssumption DEF IInv, SenderInv, SseType, SeqNos
    <3> QED BY <1>0, <2>1, <3>1
  <2>6. \A m \in Msgs : AtHead(m) => AtHead(m)'
    BY <2>1 DEF AtHead
  <2> QED BY <1>0, <2>1, <2>2, <2>4, <2>5, <2>6, <2>7, SenderStep
<1>2. CASE ~(sse.live /\ ForHead(f))
  <2>1. sse' = (IF sse.live THEN GetSse ELSE sse) /\ UNCHANGED lower_send_list
    BY <1>2 DEF ProcAckPart
  <2>2. UNCHANGED <<rse, submits, accepted, due, lower_send_list>> /\ f.type # "DATA"
    BY <1>0, <2>1
  <2> QED BY <2>1, <2>2, RefreshService
<1> QED BY <1>1, <1>2

-----------------------------------------------------------------------------
(* The receiving side. *)

\* A step that leaves the sender alone and answers a frame, if at all, with
\* sound frames.
LEMMA ReceiverStep ==
  ASSUME IInv, IInv', ServiceInv, UNCHANGED senderVars, NEW S,
         Flight' \subseteq Flight \cup S,
         Arrived \subseteq Arrived',
         \A g \in S : FrameOk(g)',
         ReceiverOk'
  PROVE  ServiceInv'
<1>0. UNCHANGED <<sse, accepted>>
  BY DEF senderVars
<1>1. Numbered'
  BY <1>0, NumberedKept DEF ServiceInv
<1>2. FlightOk'
  <2> SUFFICES ASSUME NEW g \in Flight' PROVE FrameOk(g)'
    BY DEF FlightOk
  <2>1. CASE g \in Flight
    <3>1. FrameOk(g)
      BY <2>1 DEF ServiceInv, FlightOk
    <3> QED BY <1>0, <3>1 DEF FrameOk, AtHead, MsgOf
  <2>2. CASE g \in S
    BY <2>2
  <2> QED BY <2>1, <2>2
<1> QED BY <1>1, <1>2 DEF ServiceInv

\* send_ack, for a session about message MsgOf(seq_exp) that has arrived if
\* all its bits are set.
LEMMA AckFramesOk ==
  ASSUME NEW se \in RseType, UNCHANGED <<sse, accepted>>,
         sse.live, sse.idle_timeout = IDLE_TIMEOUT,
         se.seq_exp < sse.seq, se.msg = MsgOf(se.seq_exp),
         TestAllBitsSet(se) /\ ~se.nak => se.msg \in Arrived'
  PROVE  \/ AckFrames(se) = <<>>
         \/ \E h : AckFrames(se) = <<h>> /\ FrameOk(h)'
<1>1. CASE AckFrames(se) = <<>>
  BY <1>1
<1>2. CASE ~se.nak /\ TestAllBitsSet(se)
  <2> DEFINE h == Frame("ACKA", se.seq_exp, 0, {})
  <2>1. AckFrames(se) = <<h>>
    BY <1>2 DEF AckFrames
  <2>2. ASSUME NEW g, g = h PROVE FrameOk(g)'
    BY <1>2, <2>2 DEF FrameOk, Frame, MsgOf
  <2> QED BY <2>1, <2>2
<1>3. CASE AckFrames(se) # <<>> /\ ~(~se.nak /\ TestAllBitsSet(se))
  <2> DEFINE h == Frame("ACKP", se.seq_exp, 0, Whole(se.msg) \ se.bitmap)
  <2>1. AckFrames(se) = <<h>>
    BY <1>3 DEF AckFrames
  <2>2. ASSUME NEW g, g = h PROVE FrameOk(g)'
    BY <2>2 DEF FrameOk, Frame
  <2> QED BY <2>1, <2>2
<1> QED BY <1>1, <1>2, <1>3

\* A message is counted as submitted.
LEMMA CountArrived ==
  ASSUME IInv, NEW m \in Msgs, submits' = CountSubmit(m)
  PROVE  Arrived' = Arrived \cup {m}
<1>1. submits \in [Msgs -> 0..2]
  BY DEF IInv, ReceiverInv
<1>2. /\ \A x \in Msgs : x # m => submits'[x] = submits[x]
      /\ submits'[m] = IF submits[m] = 0 THEN 1 ELSE 2
  BY <1>1 DEF CountSubmit
<1>3. submits'[m] > 0
  BY <1>2
<1> QED BY <1>2, <1>3 DEF Arrived

\* A session that has just been refreshed, about a message of the present session.
LEMMA ReceiverOkNow ==
  ASSUME UNCHANGED <<sse, accepted>>, sse.live, sse.idle_timeout = IDLE_TIMEOUT,
         rse'.live, rse'.idle_timeout = IDLE_TIMEOUT,
         rse'.seq_exp < sse.seq, rse'.msg = MsgOf(rse'.seq_exp),
         rse'.bitmap = Whole(rse'.msg) /\ ~rse'.nak => rse'.msg \in Arrived'
  PROVE  ReceiverOk'
<1>1. IDLE_TIMEOUT # 0 /\ IDLE_TIMEOUT <= IDLE_TIMEOUT
  BY ConstantsAssumption
<1>2. Current'
  BY DEF Current, MsgOf
<1> QED BY <1>1, <1>2 DEF ReceiverOk, TestAllBitsSet

LEMMA AnsweredOk ==
  ASSUME IInv, NEW se \in RseType, UNCHANGED <<sse, accepted>>,
         sse.live, sse.idle_timeout = IDLE_TIMEOUT,
         se.seq_exp < sse.seq, se.msg = MsgOf(se.seq_exp),
         TestAllBitsSet(se) /\ ~se.nak => se.msg \in Arrived',
         Put("rcv", AckFrames(se)), net' \subseteq net,
         NEW g \in Flight', g \notin Flight
  PROVE  FrameOk(g)'
<1>1. \/ AckFrames(se) = <<>>
      \/ \E h : AckFrames(se) = <<h>> /\ FrameOk(h)'
  BY AckFramesOk
<1>2. AckFrames(se) # <<>>
  <2>1. SUFFICES ASSUME AckFrames(se) = <<>> PROVE FALSE
    OBVIOUS
  <2>2. Put("rcv", <<>>)
    BY <2>1
  <2> QED BY <2>2, FlightPutNone DEF Nodes
<1>3. PICK h : AckFrames(se) = <<h>> /\ FrameOk(h)'
  BY <1>1, <1>2
<1>4. Put("rcv", <<h>>)
  BY <1>3
<1>5. g = h
  BY <1>4, FlightPutOne DEF Nodes
<1> QED BY <1>3, <1>5

\* A completed message of the present session: it arrives, or nothing happens
\* until it is started over.
LEMMA CompleteService ==
  ASSUME IInv, IInv', ServiceInv, UNCHANGED senderVars, net' \subseteq net,
         NEW se \in RseType, se.live, se.idle_timeout = IDLE_TIMEOUT,
         sse.live, sse.idle_timeout = IDLE_TIMEOUT,
         se.seq_exp < sse.seq, se.msg = MsgOf(se.seq_exp), se.msg \in Msgs,
         TestAllBitsSet(se), Complete(se)
  PROVE  ServiceInv' /\ Arrived \subseteq Arrived' /\ Arrived' \subseteq Arrived \cup {se.msg}
<1>0. UNCHANGED <<sse, accepted>> /\ se.bitmap = Whole(se.msg)
  BY DEF senderVars, TestAllBitsSet
<1> DEFINE S == {g \in Flight' : g \notin Flight}
<1>1. CASE CsumOk(se)
  <2>1. /\ rse' = [se EXCEPT !.completed = TRUE]
        /\ Put("rcv", AckFrames(se)) /\ submits' = CountSubmit(se.msg)
    BY <1>1 DEF Complete
  <2>2. Arrived' = Arrived \cup {se.msg}
    BY <2>1, CountArrived
  <2>3. /\ rse'.live /\ rse'.idle_timeout = IDLE_TIMEOUT /\ rse'.seq_exp = se.seq_exp
        /\ rse'.msg = se.msg
    BY <2>1 DEF RseType
  <2>4. ReceiverOk'
    BY <1>0, <2>2, <2>3, ReceiverOkNow
  <2>5. \A g \in S : FrameOk(g)'
    BY <1>0, <2>1, <2>2, AnsweredOk
  <2>6. Flight' \subseteq Flight \cup S
    OBVIOUS
  <2> HIDE DEF S
  <2> QED BY <2>2, <2>4, <2>5, <2>6, ReceiverStep
<1>2. CASE ~CsumOk(se)
  <2>1. rse' = [se EXCEPT !.nak = TRUE] /\ UNCHANGED <<lower_send_list, submits>>
    BY <1>2 DEF Complete
  <2>2. Arrived' = Arrived
    BY <2>1 DEF Arrived
  <2>3. /\ rse'.live /\ rse'.idle_timeout = IDLE_TIMEOUT /\ rse'.seq_exp = se.seq_exp
        /\ rse'.msg = se.msg /\ rse'.nak
    BY <2>1 DEF RseType
  <2>4. ReceiverOk'
    BY <1>0, <2>3, ReceiverOkNow
  <2>5. Flight' \subseteq Flight \cup S /\ \A g \in S : FrameOk(g)'
    BY <2>1, FlightShrinks
  <2> HIDE DEF S
  <2> QED BY <2>2, <2>4, <2>5, ReceiverStep
<1> QED BY <1>1, <1>2

\* patch_rse touches bits and data only.
LEMMA PatchRseKeeps ==
  ASSUME NEW se \in RseType, NEW m \in 0..NumMsgs,
         NEW slices \in SUBSET (0..MAX_SLICE_NUM)
  PROVE  /\ PatchRse(se, m, slices).idle_timeout = se.idle_timeout
         /\ PatchRse(se, m, slices).seq_exp = se.seq_exp
         /\ PatchRse(se, m, slices).completed = se.completed
         /\ PatchRse(se, m, slices).nak = se.nak
BY DEF PatchRse, RseType

LEMMA GetRseKeeps ==
  ASSUME rse \in RseType
  PROVE  /\ GetRse.idle_timeout = IDLE_TIMEOUT /\ GetRse.seq_exp = rse.seq_exp
         /\ GetRse.nak = rse.nak /\ GetRse.bitmap = rse.bitmap
         /\ GetRse.completed = rse.completed /\ GetRse.data = rse.data
BY DEF GetRse, RseType

\* A message that the receiver submits for the first time is the head.
FirstIsHead == \A m \in Arrived' : m \in Arrived \/ AtHead(m)

LEMMA ProcDataService ==
  ASSUME IInv, IInv', ServiceInv, NEW f \in net, ProcData(f),
         net' \subseteq net, UNCHANGED due
  PROVE  ServiceInv' /\ Arrived \subseteq Arrived' /\ FirstIsHead
<1> DEFINE found == IF rse.live THEN GetRse ELSE CreateRse
           started == [found EXCEPT !.bitmap = {}, !.seq_exp = f.seq,
                                    !.msg = f.msg, !.completed = FALSE,
                                    !.nak = FALSE]
           se == PatchRse(started, f.msg, f.slices)
<1>1. /\ f.type = "DATA" /\ UNCHANGED senderVars
      /\ IF TestAllBitsSet(se)
         THEN Complete(se)
         ELSE /\ rse' = se
              /\ Put("rcv", AckFrames(se))
              /\ UNCHANGED <<upper_recv_list, submits>>
  BY DEF ProcData
<1>2. /\ f \in Frames /\ f.msg \in Msgs /\ f.msg \in 0..NumMsgs
      /\ f.slices \in SUBSET (0..MAX_SLICE_NUM) /\ f.seq \in SeqNos
  <2>1. f \in FramesOf(accepted) /\ f \in Frames /\ accepted \in 0..NumMsgs
    BY NetInFlight DEF IInv, SenderInv
  <2> QED BY <1>1, <2>1, ConstantsAssumption DEF FramesOf, Frames, Msgs
<1>3. found \in RseType /\ found.live /\ found.idle_timeout = IDLE_TIMEOUT
  <2>1. CreateRse.idle_timeout = IDLE_TIMEOUT
    BY NewRseFields DEF CreateRse, RseType, NoRse
  <2> QED BY <2>1, GetRseFields, GetRseKeeps, NewRseFields DEF IInv, ReceiverInv
<1> HIDE DEF found
<1>4. /\ started \in RseType /\ started.live /\ started.msg = f.msg
      /\ started.seq_exp = f.seq /\ started.idle_timeout = IDLE_TIMEOUT
  BY <1>2, <1>3 DEF RseType
<1> HIDE DEF started
<1>5. /\ se \in RseType /\ se.live /\ se.msg = f.msg /\ se.seq_exp = f.seq
      /\ se.idle_timeout = IDLE_TIMEOUT
  BY <1>2, <1>4, PatchRseFields, PatchRseKeeps
<1> HIDE DEF se
<1>6. /\ sse.live /\ sse.idle_timeout = IDLE_TIMEOUT /\ f.seq < sse.seq
      /\ f.msg = MsgOf(f.seq) /\ (f.msg \in Arrived \/ AtHead(f.msg))
  BY <1>1, HandledOk DEF FrameOk
<1>7. CASE TestAllBitsSet(se)
  <2>1. ServiceInv' /\ Arrived \subseteq Arrived' /\ Arrived' \subseteq Arrived \cup {se.msg}
    BY <1>1, <1>2, <1>5, <1>6, <1>7, CompleteService
  <2> QED BY <1>5, <1>6, <2>1 DEF FirstIsHead
<1>8. CASE ~TestAllBitsSet(se)
  <2> DEFINE S == {g \in Flight' : g \notin Flight}
  <2>1. rse' = se /\ Put("rcv", AckFrames(se)) /\ UNCHANGED <<submits, sse, accepted>>
    BY <1>1, <1>8 DEF senderVars
  <2>2. Arrived' = Arrived
    BY <2>1 DEF Arrived
  <2>3. ReceiverOk'
    BY <1>5, <1>6, <1>8, <2>1, ReceiverOkNow DEF TestAllBitsSet
  <2>4. \A g \in S : FrameOk(g)'
    BY <1>5, <1>6, <1>8, <2>1, AnsweredOk
  <2>5. Flight' \subseteq Flight \cup S
    OBVIOUS
  <2> HIDE DEF S
  <2> QED BY <1>1, <2>2, <2>3, <2>4, <2>5, ReceiverStep DEF FirstIsHead
<1> QED BY <1>7, <1>8

LEMMA ProcAckReqService ==
  ASSUME IInv, IInv', ServiceInv, NEW f \in net, ProcAckReq(f),
         net' \subseteq net, UNCHANGED due
  PROVE  ServiceInv' /\ Arrived' = Arrived
<1>1. /\ f.type = "ACKR" /\ UNCHANGED senderVars /\ UNCHANGED <<sse, accepted, submits>>
      /\ rse' = IF rse.live THEN GetRse ELSE rse
      /\ IF rse.live /\ rse.seq_exp = f.seq
         THEN Put("rcv", AckFrames(rse)) ELSE UNCHANGED lower_send_list
  BY DEF ProcAckReq, senderVars
<1>2. FrameOk(f) /\ ~Stale /\ rse \in RseType /\ ReceiverOk
  BY <1>1, HandledOk DEF IInv, ReceiverInv, ServiceInv
<1>3. sse.live /\ sse.idle_timeout = IDLE_TIMEOUT
  BY <1>2 DEF FrameOk
<1>4. Arrived' = Arrived
  BY <1>1 DEF Arrived
<1> DEFINE S == {g \in Flight' : g \notin Flight}
<1>5. CASE rse.live
  <2>1. /\ rse.seq_exp < sse.seq /\ rse.msg = MsgOf(rse.seq_exp)
        /\ TestAllBitsSet(rse) /\ ~rse.nak => rse.msg \in Arrived
    BY <1>2, <1>5 DEF ReceiverOk, Current
  <2>2. /\ rse'.live /\ rse'.idle_timeout = IDLE_TIMEOUT /\ rse'.seq_exp = rse.seq_exp
        /\ rse'.msg = rse.msg /\ rse'.bitmap = rse.bitmap /\ rse'.nak = rse.nak
    BY <1>1, <1>2, <1>5, GetRseFields, GetRseKeeps
  <2>3. ReceiverOk'
    BY <1>1, <1>3, <1>4, <2>1, <2>2, ReceiverOkNow DEF TestAllBitsSet
  <2>4. \A g \in S : FrameOk(g)'
    <3>1. CASE rse.seq_exp = f.seq
      <4>1. Put("rcv", AckFrames(rse))
        BY <1>1, <1>5, <3>1
      <4> QED BY <1>1, <1>2, <1>3, <1>4, <2>1, <4>1, AnsweredOk
    <3>2. CASE rse.seq_exp # f.seq
      BY <1>1, <3>2, FlightShrinks
    <3> QED BY <3>1, <3>2
  <2>5. Flight' \subseteq Flight \cup S
    OBVIOUS
  <2> HIDE DEF S
  <2> QED BY <1>1, <1>4, <2>3, <2>4, <2>5, ReceiverStep
<1>6. CASE ~rse.live
  <2>1. ReceiverOk'
    BY <1>1, <1>6 DEF ReceiverOk
  <2>2. Flight' \subseteq Flight \cup S /\ \A g \in S : FrameOk(g)'
    BY <1>1, <1>6, FlightShrinks
  <2> HIDE DEF S
  <2> QED BY <1>1, <1>4, <2>1, <2>2, ReceiverStep
<1> QED BY <1>5, <1>6

LEMMA ProcPatchService ==
  ASSUME IInv, IInv', ServiceInv, NEW f \in net, NEW good \in SUBSET f.slices,
         ProcPatch(f, good), net' \subseteq net, UNCHANGED due
  PROVE  ServiceInv' /\ Arrived \subseteq Arrived' /\ FirstIsHead
<1> DEFINE se == PatchRse(GetRse, f.msg, good)
           taken == rse.live /\ rse.seq_exp = f.seq /\ ~rse.completed
<1>1. /\ f.type = "PATCH" /\ UNCHANGED senderVars /\ UNCHANGED <<sse, accepted>>
      /\ IF taken /\ TestAllBitsSet(se)
         THEN Complete(se)
         ELSE /\ rse' = IF taken THEN se ELSE IF rse.live THEN GetRse ELSE rse
              /\ UNCHANGED <<lower_send_list, upper_recv_list, submits>>
  BY DEF ProcPatch, senderVars
<1>2. FrameOk(f) /\ ~Stale /\ rse \in RseType /\ ReceiverOk /\ f \in Frames
  BY <1>1, HandledOk DEF IInv, ReceiverInv, ServiceInv
<1>3. /\ sse.live /\ sse.idle_timeout = IDLE_TIMEOUT
      /\ f.msg = MsgOf(f.seq) /\ (f.msg \in Arrived \/ AtHead(f.msg))
  BY <1>1, <1>2 DEF FrameOk
<1>4. f.msg \in 0..NumMsgs /\ good \in SUBSET (0..MAX_SLICE_NUM)
  BY <1>2 DEF Frames
<1>5. /\ GetRse \in RseType /\ GetRse.live = rse.live /\ GetRse.msg = rse.msg
      /\ GetRse.idle_timeout = IDLE_TIMEOUT /\ GetRse.seq_exp = rse.seq_exp
      /\ GetRse.nak = rse.nak /\ GetRse.bitmap = rse.bitmap
  BY <1>2, GetRseFields, GetRseKeeps
<1>6. /\ se \in RseType /\ se.live = rse.live /\ se.msg = rse.msg
      /\ se.idle_timeout = IDLE_TIMEOUT /\ se.seq_exp = rse.seq_exp /\ se.nak = rse.nak
  BY <1>4, <1>5, PatchRseFields, PatchRseKeeps
<1>7. rse.live => /\ rse.seq_exp < sse.seq /\ rse.msg = MsgOf(rse.seq_exp)
                  /\ rse.msg \in Msgs
                  /\ TestAllBitsSet(rse) /\ ~rse.nak => rse.msg \in Arrived
  BY <1>2, ConstantsAssumption DEF ReceiverOk, Current, IInv, ReceiverInv, SenderInv, Msgs
<1> HIDE DEF se
<1>8. CASE taken /\ TestAllBitsSet(se)
  <2>1. Complete(se) /\ rse.live /\ rse.seq_exp = f.seq
    BY <1>1, <1>8
  <2>2. ServiceInv' /\ Arrived \subseteq Arrived' /\ Arrived' \subseteq Arrived \cup {se.msg}
    BY <1>1, <1>3, <1>6, <1>7, <1>8, <2>1, CompleteService
  <2>3. se.msg = f.msg
    BY <1>3, <1>6, <1>7, <2>1
  <2> QED BY <1>3, <2>2, <2>3 DEF FirstIsHead
<1>9. CASE ~(taken /\ TestAllBitsSet(se))
  <2> DEFINE S == {g \in Flight' : g \notin Flight}
  <2>1. /\ rse' = IF taken THEN se ELSE IF rse.live THEN GetRse ELSE rse
        /\ UNCHANGED <<lower_send_list, submits>>
    BY <1>1, <1>9
  <2>2. Arrived' = Arrived
    BY <2>1 DEF Arrived
  <2>3. ReceiverOk'
    <3>1. CASE ~rse.live
      BY <2>1, <3>1 DEF ReceiverOk
    <3>2. CASE taken
      <4>1. rse' = se /\ rse.live /\ ~TestAllBitsSet(se)
        BY <1>9, <2>1, <3>2
      <4> QED BY <1>1, <1>3, <1>6, <1>7, <4>1, ReceiverOkNow DEF TestAllBitsSet
    <3>3. CASE rse.live /\ ~taken
      <4>1. rse' = GetRse
        BY <2>1, <3>3
      <4> QED BY <1>1, <1>3, <1>5, <1>7, <2>2, <3>3, <4>1, ReceiverOkNow
              DEF TestAllBitsSet
    <3> QED BY <3>1, <3>2, <3>3
  <2>4. Flight' \subseteq Flight \cup S /\ \A g \in S : FrameOk(g)'
    BY <2>1, FlightShrinks
  <2> HIDE DEF S
  <2> QED BY <1>1, <2>2, <2>3, <2>4, ReceiverStep DEF FirstIsHead
<1> QED BY <1>8, <1>9

-----------------------------------------------------------------------------
(* Timers, the link, and the whole step. *)

\* Frames are moved or lost, or nothing of this happens.
LEMMA NothingMoves ==
  ASSUME ServiceInv, UNCHANGED <<sse, rse, submits, accepted>>,
         Flight' \subseteq Flight, "rcv" \in due => "rcv" \in due'
  PROVE  ServiceInv' /\ Arrived' = Arrived
<1>1. Arrived' = Arrived
  BY DEF Arrived
<1>2. Numbered' /\ FlightOk'
  BY <1>1 DEF ServiceInv, Numbered, FlightOk, FrameOk, AtHead, MsgOf
<1>3. ReceiverOk'
  BY <1>1 DEF ServiceInv, ReceiverOk, Current, Stale, MsgOf, TestAllBitsSet
<1> QED BY <1>1, <1>2, <1>3 DEF ServiceInv

\* The receiver's timer frees an idle session.
LEMMA ReceiverTimerService ==
  ASSUME IInv, ServiceInv, ReceiverTimer
  PROVE  ServiceInv' /\ Arrived' = Arrived
<1>1. /\ UNCHANGED <<sse, submits, accepted, lower_send_list, net>>
      /\ rse' = IF rse.live /\ rse.idle_timeout = 0 THEN NoRse ELSE rse
      /\ due' = due \ {"rcv"}
  BY DEF ReceiverTimer, TimerPass, senderVars
<1>2. Arrived' = Arrived /\ Flight' \subseteq Flight
  BY <1>1, FlightShrinks DEF Arrived
<1>3. Numbered' /\ FlightOk'
  BY <1>1, <1>2 DEF ServiceInv, Numbered, FlightOk, FrameOk, AtHead, MsgOf
<1>4. ReceiverOk'
  <2>1. CASE rse.live /\ rse.idle_timeout = 0
    BY <1>1, <2>1, NewRseFields DEF ReceiverOk
  <2>2. CASE ~(rse.live /\ rse.idle_timeout = 0)
    BY <1>1, <1>2, <2>2
    DEF ServiceInv, ReceiverOk, Current, Stale, MsgOf, TestAllBitsSet
  <2> QED BY <2>1, <2>2
<1> QED BY <1>2, <1>3, <1>4 DEF ServiceInv

\* The sender's session is freed when nothing is under way, and then that of the
\* receiver is due to be.
LEMMA TimerQuietService ==
  ASSUME IInv, ServiceInv, TimerQuiet
  PROVE  ServiceInv' /\ Arrived' = Arrived
<1>1. /\ UNCHANGED <<rse, submits, accepted, lower_send_list, net>>
      /\ due' = due \ {"snd"}
  BY DEF TimerQuiet, TimerPass, receiverVars
<1>2. Arrived' = Arrived /\ Flight' \subseteq Flight /\ ("rcv" \in due => "rcv" \in due')
  BY <1>1, FlightShrinks DEF Arrived
<1>3. CASE sse' = sse
  BY <1>1, <1>2, <1>3, NothingMoves
<1>4. CASE sse' = NoSse /\ sse.idle_timeout = 0
  <2>1. Flight = {}
    BY <1>4, ConstantsAssumption DEF ServiceInv, FlightOk, FrameOk
  <2>2. FlightOk'
    BY <1>2, <2>1 DEF FlightOk
  <2>3. /\ sse'.seq = 0 /\ sse'.pkt_list = <<>> /\ sse'.idle_timeout = 0
        /\ sse'.ack_timeout # 0
    BY <1>4 DEF NoSse, NoTimer
  <2>4. accepted \in Nat /\ rse \in RseType
    BY ConstantsAssumption DEF IInv, SenderInv, ReceiverInv
  <2>5. Numbered'
    BY <1>1, <2>3, <2>4 DEF Numbered
  <2>6. ReceiverOk'
    <3> SUFFICES ASSUME rse.live PROVE ReceiverOk'
      BY <1>1 DEF ReceiverOk
    <3>1. rse.idle_timeout = 0 /\ "rcv" \in due'
      BY <1>2, <1>4, <2>4, ConstantsAssumption DEF ServiceInv, ReceiverOk, RseType
    <3>2. Stale'
      BY <1>1, <1>2, <2>1, <2>3, <3>1 DEF Stale
    <3> QED BY <1>1, <1>2, <2>3, <3>1, <3>2 DEF ServiceInv, ReceiverOk, TestAllBitsSet
  <2> QED BY <1>2, <2>2, <2>5, <2>6 DEF ServiceInv
<1> QED BY <1>3, <1>4, QuietFields

\* A period ends: the receiver's session is of the present one, or was freed.
LEMMA TickService ==
  ASSUME IInv, ServiceInv, "delays" \notin link, Tick
  PROVE  ServiceInv' /\ Arrived' = Arrived
<1>1. /\ due = {} /\ due' = Nodes
      /\ sse'.live = sse.live /\ sse'.seq = sse.seq /\ sse'.pkt_list = sse.pkt_list
      /\ sse'.idle_timeout = IF sse.idle_timeout > 0 THEN sse.idle_timeout - 1
                             ELSE sse.idle_timeout
      /\ rse' = [rse EXCEPT !.idle_timeout = rse'.idle_timeout]
      /\ rse'.idle_timeout = IF rse.idle_timeout > 0 THEN rse.idle_timeout - 1
                             ELSE rse.idle_timeout
      /\ UNCHANGED <<lower_send_list, net, accepted, submits>>
      /\ Flight = {}
  BY TickFields
<1>2. /\ rse'.live = rse.live /\ rse'.seq_exp = rse.seq_exp /\ rse'.msg = rse.msg
      /\ rse'.bitmap = rse.bitmap /\ rse'.nak = rse.nak
      /\ rse.idle_timeout \in Nat /\ sse.idle_timeout \in Nat
  <2>1. rse \in RseType /\ sse \in SseType
    BY DEF IInv, SenderInv, ReceiverInv
  <2>2. rse.idle_timeout \in Nat /\ sse.idle_timeout \in Nat
    BY <2>1, ConstantsAssumption DEF SseType, RseType
  <2> QED BY <1>1, <2>1, <2>2 DEF RseType
<1>3. Arrived' = Arrived
  BY <1>1 DEF Arrived
<1>4. FlightOk'
  BY <1>1, FlightShrinks DEF FlightOk
<1>5. Numbered'
  BY <1>1, NumberedKept DEF ServiceInv
<1>6. ReceiverOk'
  <2> SUFFICES ASSUME rse.live PROVE ReceiverOk'
    BY <1>2 DEF ReceiverOk
  <2>1. /\ rse.idle_timeout # 0 /\ rse.idle_timeout <= sse.idle_timeout
        /\ Current /\ (TestAllBitsSet(rse) /\ ~rse.nak => rse.msg \in Arrived)
    BY <1>1 DEF ServiceInv, ReceiverOk, Stale
  <2>2. rse'.idle_timeout <= sse'.idle_timeout
    BY <1>1, <1>2, <2>1
  <2>3. Current'
    BY <1>1, <1>2, <2>1 DEF Current, MsgOf
  <2> QED BY <1>1, <1>2, <1>3, <2>1, <2>2, <2>3 DEF ReceiverOk, TestAllBitsSet, Nodes
<1> QED BY <1>3, <1>4, <1>5, <1>6 DEF ServiceInv

\* lower_put: besides the invariant, what it does to the service.
LEMMA LowerPutService ==
  ASSUME IInv, IInv', ServiceInv, NEW f \in net, LowerPut(f)
  PROVE  ServiceInv'
<1>1. net' \subseteq net /\ UNCHANGED due
  BY DEF LowerPut
<1>2. CASE ProcData(f)
  BY <1>1, <1>2, ProcDataService
<1>3. CASE ProcAckReq(f)
  BY <1>1, <1>3, ProcAckReqService
<1>4. CASE \E good \in SUBSET f.slices : ProcPatch(f, good)
  BY <1>1, <1>4, ProcPatchService
<1>5. CASE ProcAckAll(f)
  BY <1>1, <1>5, ProcAckAllService
<1>6. CASE ProcAckPart(f)
  BY <1>1, <1>6, ProcAckPartService
<1> QED BY <1>2, <1>3, <1>4, <1>5, <1>6 DEF LowerPut

LEMMA InitService == Init => ServiceInv
<1> SUFFICES ASSUME Init PROVE ServiceInv
  OBVIOUS
<1>1. Flight = {}
  BY DEF Init, Flight
<1>2. Numbered /\ ~rse.live
  BY NewRseFields DEF Init, Numbered, NoSse
<1> QED BY <1>1, <1>2 DEF ServiceInv, FlightOk, ReceiverOk

\* Every step of Split with frames that keep to their period and numbers that do
\* not wrap preserves the invariant.
FreshNumber == accepted' # accepted => sse'.seq # 0

LEMMA NextService ==
  ASSUME IInv, IInv', Calm, ServiceInv, "delays" \notin link,
         [Next]_vars, [FreshNumber]_vars
  PROVE  ServiceInv'
<1>1. CASE UpperSend
  <2>1. accepted' # accepted
    BY <1>1, ConstantsAssumption DEF UpperSend, IInv, SenderInv
  <2>2. sse'.seq # 0
    BY <2>1 DEF FreshNumber, vars, nodeVars
  <2> QED BY <1>1, <2>2, UpperSendService
<1>2. CASE UpperRecv
  <2>1. UNCHANGED <<sse, rse, submits, accepted, lower_send_list, net, due>>
    BY <1>2 DEF UpperRecv, senderVars
  <2> QED BY <2>1, FlightShrinks, NothingMoves
<1>3. CASE TimerQuiet
  BY <1>3, TimerQuietService
<1>4. CASE TimerAckReq
  BY <1>4, AckReqService
<1>5. CASE TimerResend
  BY <1>5, ResendService
<1>6. CASE TimerDrop
  BY <1>6, DropService
<1>7. CASE ReceiverTimer
  BY <1>7, ReceiverTimerService
<1>8. CASE \E n \in Nodes : LowerFetch(n)
  <2>1. UNCHANGED <<sse, rse, submits, accepted, due>>
    BY <1>8 DEF LowerFetch, senderVars, receiverVars
  <2> QED BY <1>8, <2>1, FlightFetch, NothingMoves
<1>9. CASE \E f \in net : Lose(f)
  <2>1. /\ UNCHANGED <<sse, rse, submits, accepted, lower_send_list, due>>
        /\ net' \subseteq net
    BY <1>9 DEF Lose, senderVars, receiverVars
  <2> QED BY <2>1, FlightShrinks, NothingMoves
<1>10. CASE \E f \in net : LowerPut(f)
  BY <1>10, LowerPutService
<1>11. CASE Tick
  BY <1>11, TickService
<1>12. CASE UNCHANGED vars
  <2>1. UNCHANGED <<sse, rse, submits, accepted, lower_send_list, net, due>>
    BY <1>12 DEF vars, nodeVars
  <2> QED BY <2>1, FlightShrinks, NothingMoves
<1> QED BY <1>1, <1>2, <1>3, <1>4, <1>5, <1>6, <1>7, <1>8, <1>9, <1>10, <1>11, <1>12
        DEF Next, Step

-----------------------------------------------------------------------------
(* Split implements LinkService. *)

\* The refinement mapping of Service.
Queue == [i \in 1..Len(sse.pkt_list) |-> sse.pkt_list[i].msg]

LEMMA ServiceVars ==
  /\ Service!Init <=> /\ accepted = 0 /\ Queue = <<>> /\ Arrived = {}
                      /\ confirmed = {} /\ dropped = {}
  /\ Service!Next <=> Service!Accept \/ Service!Submit \/ Service!Confirm \/ Service!Drop
  /\ Service!vars = <<accepted, Queue, Arrived, confirmed, dropped>>
BY DEF Service!Init, Service!Next, Service!vars, Queue, Arrived

\* The mapping of a queue that grows, and of one that loses its head.
LEMMA QueueAppend ==
  ASSUME NEW q \in Seq(Pkts), NEW pkt \in Pkts
  PROVE  [i \in 1..Len(Append(q, pkt)) |-> Append(q, pkt)[i].msg]
           = Append([i \in 1..Len(q) |-> q[i].msg], pkt.msg)
<1> DEFINE ms == [i \in 1..Len(q) |-> q[i].msg]
           longer == [i \in 1..Len(Append(q, pkt)) |-> Append(q, pkt)[i].msg]
<1>1. /\ Len(q) \in Nat /\ Len(Append(q, pkt)) = Len(q) + 1
      /\ \A i \in 1..(Len(q) + 1) :
           Append(q, pkt)[i] = IF i = Len(q) + 1 THEN pkt ELSE q[i]
  OBVIOUS
<1>2. ms \in Seq(Msgs) /\ Len(ms) = Len(q) /\ \A i \in 1..Len(q) : ms[i] = q[i].msg
  <2>1. ASSUME NEW i \in 1..Len(q) PROVE q[i].msg \in Msgs
    <3>1. q[i] \in Pkts
      BY ElementOfSeq
    <3> QED BY <3>1 DEF Pkts
  <2>2. ms \in [1..Len(q) -> Msgs] /\ \A i \in 1..Len(q) : ms[i] = q[i].msg
    BY <2>1
  <2> HIDE DEF ms
  <2>3. ms \in Seq(Msgs) /\ Len(ms) = Len(q)
    BY <1>1, <2>2
  <2> QED BY <2>2, <2>3
<1>3. /\ longer \in [1..(Len(q) + 1) -> {Append(q, pkt)[i].msg : i \in 1..(Len(q) + 1)}]
      /\ \A i \in 1..(Len(q) + 1) : longer[i] = Append(q, pkt)[i].msg
  BY <1>1
<1> HIDE DEF ms, longer
<1>4. pkt.msg \in Msgs
  BY DEF Pkts
<1>5. /\ Append(ms, pkt.msg) \in Seq(Msgs) /\ Len(Append(ms, pkt.msg)) = Len(q) + 1
      /\ \A i \in 1..(Len(q) + 1) :
           Append(ms, pkt.msg)[i] = IF i = Len(q) + 1 THEN pkt.msg ELSE ms[i]
  BY <1>1, <1>2, <1>4
<1>6. DOMAIN Append(ms, pkt.msg) = 1..(Len(q) + 1) /\ DOMAIN longer = 1..(Len(q) + 1)
  BY <1>3, <1>5
<1>7. ASSUME NEW i \in 1..(Len(q) + 1) PROVE longer[i] = Append(ms, pkt.msg)[i]
  <2>1. CASE i = Len(q) + 1
    BY <1>1, <1>3, <1>5, <2>1
  <2>2. CASE i # Len(q) + 1
    <3>1. i \in 1..Len(q)
      BY <1>1, <2>2
    <3> QED BY <1>1, <1>2, <1>3, <1>5, <2>2, <3>1
  <2> QED BY <2>1, <2>2
<1>8. longer = [i \in 1..(Len(q) + 1) |-> longer[i]]
  BY <1>3
<1>9. Append(ms, pkt.msg) = [i \in 1..(Len(q) + 1) |-> Append(ms, pkt.msg)[i]]
  BY <1>5, <1>6
<1>10. longer = Append(ms, pkt.msg)
  BY <1>7, <1>8, <1>9
<1> QED BY <1>10 DEF ms, longer

LEMMA FunctionAsSeq ==
  ASSUME NEW S, NEW n \in Nat, NEW s \in [1..n -> S]
  PROVE  s \in Seq(S) /\ Len(s) = n
OBVIOUS

LEMMA SeqAsFunction ==
  ASSUME NEW S, NEW s \in Seq(S)
  PROVE  s = [i \in 1..Len(s) |-> s[i]]
OBVIOUS

LEMMA QueueTail ==
  ASSUME NEW q \in Seq(Pkts), q # <<>>
  PROVE  LET ms == [i \in 1..Len(q) |-> q[i].msg]
         IN /\ ms # <<>> /\ Head(ms) = Head(q).msg
            /\ [i \in 1..Len(Tail(q)) |-> Tail(q)[i].msg] = Tail(ms)
<1> DEFINE ms == [i \in 1..Len(q) |-> q[i].msg]
           shorter == [i \in 1..Len(Tail(q)) |-> Tail(q)[i].msg]
<1>1. /\ Len(q) \in Nat /\ Len(q) # 0 /\ Len(Tail(q)) = Len(q) - 1 /\ Head(q) = q[1]
      /\ \A i \in 1..(Len(q) - 1) : Tail(q)[i] = q[i + 1] /\ i + 1 \in 1..Len(q)
  OBVIOUS
<1>2. ms \in Seq(Msgs) /\ Len(ms) = Len(q) /\ \A i \in 1..Len(q) : ms[i] = q[i].msg
  <2>1. ASSUME NEW i \in 1..Len(q) PROVE q[i].msg \in Msgs
    <3>1. q[i] \in Pkts
      BY ElementOfSeq
    <3> QED BY <3>1 DEF Pkts
  <2>2. ms \in [1..Len(q) -> Msgs] /\ \A i \in 1..Len(q) : ms[i] = q[i].msg
    BY <2>1
  <2> HIDE DEF ms
  <2>3. ms \in Seq(Msgs) /\ Len(ms) = Len(q)
    BY <1>1, <2>2
  <2> QED BY <2>2, <2>3
<1>3. /\ \A i \in 1..(Len(q) - 1) : shorter[i] = Tail(q)[i].msg
      /\ shorter = [i \in 1..(Len(q) - 1) |-> shorter[i]]
  BY <1>1
<1> HIDE DEF ms, shorter
<1>4. ms # <<>> /\ Head(ms) = ms[1] /\ 1 \in 1..Len(q)
  BY <1>1, <1>2
<1>5. /\ Tail(ms) \in Seq(Msgs) /\ Len(Tail(ms)) = Len(q) - 1
      /\ \A i \in 1..(Len(q) - 1) : Tail(ms)[i] = ms[i + 1]
  BY <1>1, <1>2, <1>4
<1>6. Tail(ms) = [i \in 1..(Len(q) - 1) |-> Tail(ms)[i]]
  BY <1>1, <1>5, SeqAsFunction
<1>7. \A i \in 1..(Len(q) - 1) : shorter[i] = Tail(ms)[i]
  BY <1>1, <1>2, <1>3, <1>5
<1>8. shorter = Tail(ms)
  BY <1>3, <1>6, <1>7
<1> QED BY <1>1, <1>2, <1>4, <1>8 DEF ms, shorter

\* Each step is one of the service's, or changes nothing of it.
LEMMA UpperSendAccepts ==
  ASSUME IInv, Calm, UpperSend
  PROVE  Service!Accept
<1> DEFINE pkt == [msg |-> accepted + 1, seq |-> sse.seq]
           q == sse.pkt_list
<1>1. /\ accepted < NumMsgs /\ accepted' = accepted + 1
      /\ pkt \in PktsOf(accepted + 1) /\ sse'.pkt_list = Append(q, pkt)
      /\ UNCHANGED <<receiverVars, confirmed, dropped>>
  BY UpperSendFields DEF Calm
<1>2. q \in Seq(Pkts) /\ pkt \in Pkts /\ pkt.msg = accepted + 1
  BY <1>1, ConstantsAssumption DEF IInv, SenderInv, SseType, PktsOf, Pkts, Msgs
<1> HIDE DEF pkt, q
<1>3. [i \in 1..Len(Append(q, pkt)) |-> Append(q, pkt)[i].msg]
        = Append([i \in 1..Len(q) |-> q[i].msg], accepted + 1)
  BY <1>2, QueueAppend
<1> QED BY <1>1, <1>3 DEF Service!Accept, receiverVars, q

\* The queue loses its head, which is confirmed or dropped.
LEMMA ResolveMaps ==
  ASSUME IInv, sse.live, sse.pkt_list # <<>>,
         sse' = TryLowerSend(PopPkt(GetSse)), Put("snd", LowerSent(PopPkt(GetSse)))
  PROVE  /\ Queue # <<>> /\ Head(Queue) = Head(sse.pkt_list).msg
         /\ Queue' = Tail(Queue)
<1>1. sse.pkt_list \in Seq(Pkts) /\ sse'.pkt_list = Tail(sse.pkt_list)
  BY ResolveFields DEF IInv, SenderInv, SseType
<1> QED BY <1>1, QueueTail DEF Queue

LEMMA DropDrops ==
  ASSUME IInv, TimerDrop
  PROVE  Service!Drop
<1>1. /\ sse.live /\ sse.pkt_list # <<>>
      /\ sse' = TryLowerSend(PopPkt(GetSse)) /\ Put("snd", LowerSent(PopPkt(GetSse)))
      /\ dropped' = dropped \cup {Head(sse.pkt_list).msg}
      /\ UNCHANGED <<submits, accepted, confirmed>>
  BY DropFields DEF TimerDrop, receiverVars
<1>2. /\ Queue # <<>> /\ Head(Queue) = Head(sse.pkt_list).msg
      /\ Queue' = Tail(Queue)
  BY <1>1, ResolveMaps
<1> QED BY <1>1, <1>2 DEF Service!Drop, Queue

\* A handler of a frame of the receiver submits the head, or again what arrived.
LEMMA ReceiverSubmits ==
  ASSUME IInv, IInv', UNCHANGED senderVars, Arrived \subseteq Arrived', FirstIsHead
  PROVE  Service!Submit \/ UNCHANGED Service!vars
<1>1. /\ UNCHANGED <<sse, accepted, confirmed, dropped>> /\ Queue' = Queue
  BY DEF senderVars, Queue
<1>2. CASE Arrived' = Arrived
  BY <1>1, <1>2, ServiceVars DEF Service!vars, Queue, Arrived
<1>3. CASE Arrived' # Arrived
  <2>1. PICK m \in Arrived' : m \notin Arrived
    BY <1>3
  <2>2. AtHead(m) /\ Arrived' = Arrived \cup {Head(sse.pkt_list).msg}
    BY <2>1 DEF FirstIsHead, AtHead
  <2>3. sse.pkt_list \in Seq(Pkts) /\ sse.pkt_list # <<>>
    BY <2>2 DEF IInv, SenderInv, SseType, AtHead
  <2>4. Queue # <<>> /\ Head(Queue) = Head(sse.pkt_list).msg
    BY <2>3, QueueTail DEF Queue
  <2> QED BY <1>1, <2>2, <2>4 DEF Service!Submit, Queue, Arrived
<1> QED BY <1>2, <1>3

LEMMA LowerPutMaps ==
  ASSUME IInv, IInv', ServiceInv, NEW f \in net, LowerPut(f)
  PROVE  Service!Submit \/ Service!Confirm \/ UNCHANGED Service!vars
<1>1. net' \subseteq net /\ UNCHANGED due
  BY DEF LowerPut
<1>2. CASE ProcData(f)
  BY <1>1, <1>2, ProcDataService, ReceiverSubmits DEF ProcData
<1>3. CASE ProcAckReq(f)
  <2>1. Arrived' = Arrived /\ UNCHANGED senderVars
    BY <1>1, <1>3, ProcAckReqService DEF ProcAckReq
  <2> QED BY <2>1, ReceiverSubmits DEF FirstIsHead
<1>4. CASE \E good \in SUBSET f.slices : ProcPatch(f, good)
  <2>1. PICK good \in SUBSET f.slices : ProcPatch(f, good)
    BY <1>4
  <2>2. UNCHANGED senderVars
    BY <2>1 DEF ProcPatch
  <2> QED BY <1>1, <2>1, <2>2, ProcPatchService, ReceiverSubmits
<1>5. CASE ProcAckAll(f)
  <2>1. CASE sse.live /\ ForHead(f)
    <3>1. /\ sse' = TryLowerSend(PopPkt(GetSse)) /\ Put("snd", LowerSent(PopPkt(GetSse)))
          /\ sse.pkt_list # <<>> /\ f.type = "ACKA"
          /\ confirmed' = confirmed \cup {Head(sse.pkt_list).msg}
          /\ UNCHANGED <<submits, accepted, dropped>>
      BY <1>5, <2>1 DEF ProcAckAll, ForHead, receiverVars
    <3>2. /\ Queue # <<>> /\ Head(Queue) = Head(sse.pkt_list).msg
          /\ Queue' = Tail(Queue)
      BY <2>1, <3>1, ResolveMaps
    <3>3. Head(sse.pkt_list).msg \in Arrived
      BY <2>1, <3>1, AckedArrived
    <3> QED BY <3>1, <3>2, <3>3 DEF Service!Confirm, Queue, Arrived
  <2>2. CASE ~(sse.live /\ ForHead(f))
    <3>1. sse'.pkt_list = sse.pkt_list
          /\ UNCHANGED <<submits, accepted, confirmed, dropped>>
      BY <1>5, <2>2, RefreshFields DEF ProcAckAll, receiverVars
    <3> QED BY <3>1 DEF Service!vars
  <2> QED BY <2>1, <2>2
<1>6. CASE ProcAckPart(f)
  <2>1. UNCHANGED <<submits, accepted, confirmed, dropped>>
    BY <1>6 DEF ProcAckPart, receiverVars
  <2>2. sse'.pkt_list = sse.pkt_list
    <3>1. CASE sse.live /\ ForHead(f)
      BY <1>6, <3>1, PartFields
    <3>2. CASE ~(sse.live /\ ForHead(f))
      BY <1>6, <3>2, RefreshFields DEF ProcAckPart
    <3> QED BY <3>1, <3>2
  <2> QED BY <2>1, <2>2 DEF Service!vars
<1> QED BY <1>2, <1>3, <1>4, <1>5, <1>6 DEF LowerPut

LEMMA StepMaps ==
  ASSUME IInv, IInv', Calm, ServiceInv, [Next]_vars
  PROVE  [Service!Next]_(Service!vars)
<1>1. CASE UpperSend
  BY <1>1, UpperSendAccepts DEF Service!Next
<1>2. CASE TimerDrop
  BY <1>2, DropDrops DEF Service!Next
<1>3. CASE \E f \in net : LowerPut(f)
  BY <1>3, LowerPutMaps DEF Service!Next
<1>4. CASE TimerQuiet \/ TimerAckReq \/ TimerResend \/ Tick
  <2>1. UNCHANGED <<submits, accepted, confirmed, dropped>>
    BY <1>4 DEF TimerQuiet, TimerAckReq, TimerResend, Tick, receiverVars
  <2>2. sse'.pkt_list = sse.pkt_list
    BY <1>4, QuietFields, AckReqFields, ResendFields, TickFields, NoSseFields
  <2> QED BY <2>1, <2>2 DEF Service!vars
<1>5. CASE \/ UpperRecv \/ ReceiverTimer \/ UNCHANGED vars
           \/ \E n \in Nodes : LowerFetch(n)
           \/ \E f \in net : Lose(f)
  <2>1. UNCHANGED <<sse, submits, accepted, confirmed, dropped>>
    BY <1>5 DEF UpperRecv, ReceiverTimer, LowerFetch, Lose, vars, nodeVars,
                senderVars, receiverVars
  <2> QED BY <2>1 DEF Service!vars
<1> QED BY <1>1, <1>2, <1>3, <1>4, <1>5 DEF Next, Step

LEMMA InitMaps == Init => Service!Init
<1> SUFFICES ASSUME Init PROVE Service!Init
  OBVIOUS
<1>1. Queue = <<>> /\ Arrived = {}
  BY DEF Init, NoSse, Queue, Arrived
<1> QED BY <1>1, ServiceVars DEF Init

LEMMA PromptStays == "delays" \notin link /\ [Next]_vars => ("delays" \notin link)'
BY DEF Next, vars, Step

LEMMA ServiceRuns == Spec /\ []ServiceInv => ImplementsService
<1>1. IInv /\ IInv' /\ Calm /\ ServiceInv /\ [Next]_vars
        => [Service!Next]_(Service!vars)
  BY StepMaps
<1>2. Spec /\ []ServiceInv => [][Service!Next]_(Service!vars)
  BY <1>1, Inductive, CalmAlways, PTL DEF Spec
<1>3. Spec => Service!Init
  BY InitMaps, PTL DEF Spec
<1> QED BY <1>2, <1>3, PTL DEF ImplementsService, Service!Spec

\* Until the numbers of a session wrap, and with frames that keep to their
\* period, split gives what LinkService promises: the messages are resolved in
\* the order in which upper_send took them, and proc_ack_all confirms only one
\* that proc_data or proc_patch submitted.
THEOREM ServiceKept ==
  Spec /\ "delays" \notin link /\ NeverWraps => ImplementsService
<1>1. /\ IInv /\ IInv' /\ Calm /\ ServiceInv /\ "delays" \notin link
      /\ [Next]_vars /\ [FreshNumber]_vars
      => ServiceInv'
  BY NextService
<1>2. NeverWraps => [][FreshNumber]_vars
  BY PTL DEF NeverWraps, FreshNumber
<1>3. Spec /\ "delays" \notin link /\ NeverWraps => []ServiceInv
  BY <1>1, <1>2, PromptStays, InitService, Inductive, CalmAlways, PTL DEF Spec
<1> QED BY <1>3, ServiceRuns, PTL

\* A session with a number for every message does not use them up.
LEMMA EnoughNumbers ==
  NumMsgs < NumSeq => (IInv /\ Calm /\ ServiceInv /\ [Next]_vars => [FreshNumber]_vars)
<1> SUFFICES ASSUME NumMsgs < NumSeq, IInv, Calm, ServiceInv, [Next]_vars,
                    accepted' # accepted
             PROVE  sse'.seq # 0
  BY DEF FreshNumber
<1>1. UpperSend
  BY DEF Next, Step, vars, nodeVars, UpperRecv, TimerQuiet, TimerAckReq, TimerResend,
         TimerDrop, ReceiverTimer, LowerFetch, Lose, LowerPut, ProcData, ProcAckReq,
         ProcPatch, ProcAckAll, ProcAckPart, Tick, senderVars
<1>2. accepted < NumMsgs /\ sse'.seq = (sse.seq + 1) % NumSeq
  BY <1>1, UpperSendFields DEF Calm
<1>3. sse.seq \in Nat /\ accepted \in Nat /\ NumMsgs \in Nat /\ NumSeq \in Nat \ {0}
      /\ sse.seq <= accepted
  BY ConstantsAssumption DEF IInv, SenderInv, SseType, ServiceInv, Numbered, SeqNos
<1>4. sse.seq + 1 \in 1..(NumSeq - 1)
  BY <1>2, <1>3
<1>5. (sse.seq + 1) % NumSeq = sse.seq + 1
  BY <1>3, <1>4
<1> QED BY <1>2, <1>3, <1>5

\* So up to NumSeq - 1 messages are safe, however their sessions come and go.
THEOREM ServiceKeptShort ==
  NumMsgs < NumSeq => (Spec /\ "delays" \notin link => ImplementsService)
<1> SUFFICES ASSUME NumMsgs < NumSeq
             PROVE  Spec /\ "delays" \notin link => ImplementsService
  OBVIOUS
<1>1. IInv /\ IInv' /\ Calm /\ ServiceInv /\ "delays" \notin link /\ [Next]_vars
      => ServiceInv'
  BY NextService, EnoughNumbers
<1>2. Spec /\ "delays" \notin link => []ServiceInv
  BY <1>1, PromptStays, InitService, Inductive, CalmAlways, PTL DEF Spec
<1> QED BY <1>2, ServiceRuns, PTL

-----------------------------------------------------------------------------
(* The order of reading, on a link that neither repeats nor delays: at most  *)
(* one frame is under way at a time, and data are those of the head.         *)

Orderly == link \cap {"repeats", "delays"} = {}

\* Nothing waits for lower_fetch.
Bare == lower_send_list = [n \in Nodes |-> <<>>]

Empty == net = {} /\ Bare

\* The one frame under way is f, in a list or on the link.
Lone(f) ==
  \/ net = {f} /\ Bare
  \/ /\ net = {}
     /\ \E n \in Nodes :
          lower_send_list = [k \in Nodes |-> IF k = n THEN <<f>> ELSE <<>>]

\* Frame f goes back and forth for the packet at the head.
FromHead(f) ==
  /\ sse.pkt_list # <<>>
  /\ f.type \in {"DATA", "PATCH"} => f.msg = Head(sse.pkt_list).msg

OneFrame == Empty \/ \E f : Lone(f) /\ FromHead(f)

\* A session that has all its bits and is not completed was refused by the
\* checksum: only a slice that is written over can complete it.
Incomplete == rse.live /\ ~rse.completed /\ TestAllBitsSet(rse) => ~CsumOk(rse)

\* What is read next is in order, what is queued is, and the latter comes later.
ReadsOrdered ==
  \A i, j \in 1..Len(upper_recv_list) :
    i < j => upper_recv_list[i][0] <= upper_recv_list[j][0]

ReadsFirst ==
  \A i \in 1..Len(upper_recv_list), j \in 1..Len(sse.pkt_list) :
    upper_recv_list[i][0] <= sse.pkt_list[j].msg

QueueOrdered ==
  \A i, j \in 1..Len(sse.pkt_list) :
    i < j => sse.pkt_list[i].msg <= sse.pkt_list[j].msg

NotBefore == ReadsOrdered /\ ReadsFirst /\ QueueOrdered

OrderInv == Incomplete /\ (Orderly => OneFrame /\ NotBefore)

\* The types of what is compared.
LEMMA QueueMsgs ==
  ASSUME IInv
  PROVE  /\ sse.pkt_list \in Seq(PktsOf(accepted)) /\ accepted \in Nat
         /\ \A i \in 1..Len(sse.pkt_list) : sse.pkt_list[i].msg \in 1..accepted
<1>1. sse.pkt_list \in Seq(PktsOf(accepted)) /\ accepted \in Nat
  BY ConstantsAssumption DEF IInv, SenderInv
<1>2. ASSUME NEW i \in 1..Len(sse.pkt_list) PROVE sse.pkt_list[i].msg \in 1..accepted
  <2>1. sse.pkt_list[i] \in PktsOf(accepted)
    BY <1>1, ElementOfSeq
  <2> QED BY <2>1 DEF PktsOf
<1> QED BY <1>1, <1>2

LEMMA ReadMsgs ==
  ASSUME IInv
  PROVE  /\ upper_recv_list \in Seq(ContentsOf(accepted))
         /\ \A i \in 1..Len(upper_recv_list) : upper_recv_list[i][0] \in 1..accepted
<1>1. upper_recv_list \in Seq(ContentsOf(accepted)) /\ accepted \in 0..NumMsgs
  BY DEF IInv, ReceiverInv, SenderInv
<1>2. ASSUME NEW i \in 1..Len(upper_recv_list)
      PROVE  upper_recv_list[i][0] \in 1..accepted
  <2>1. PICK m \in 1..accepted : upper_recv_list[i] = Content(m)
    <3>1. upper_recv_list[i] \in ContentsOf(accepted)
      BY <1>1, ElementOfSeq
    <3> QED BY <3>1 DEF ContentsOf
  <2>2. 0 \in Whole(m)
    BY <1>1, <2>1, ConstantsAssumption DEF Whole, Msgs
  <2> QED BY <2>1, <2>2 DEF Content
<1> QED BY <1>1, <1>2

\* upper_recv takes the first message.
LEMMA NotBeforeRecv ==
  ASSUME IInv, NotBefore, UNCHANGED sse, upper_recv_list # <<>>,
         upper_recv_list' = Tail(upper_recv_list)
  PROVE  NotBefore'
<1> DEFINE u == upper_recv_list
<1>1. u \in Seq(ContentsOf(accepted)) /\ u # <<>>
  BY ReadMsgs
<1> HIDE DEF u
<1>2. /\ Len(u) \in Nat /\ Len(u) # 0 /\ Len(Tail(u)) = Len(u) - 1
      /\ \A i \in 1..(Len(u) - 1) : Tail(u)[i] = u[i + 1] /\ i + 1 \in 1..Len(u)
  BY <1>1
<1>3. upper_recv_list' = Tail(u) /\ u = upper_recv_list
  BY DEF u
<1>4. ReadsOrdered'
  BY <1>2, <1>3 DEF NotBefore, ReadsOrdered
<1>5. ReadsFirst'
  BY <1>2, <1>3 DEF NotBefore, ReadsFirst
<1> QED BY <1>4, <1>5 DEF NotBefore, QueueOrdered

\* The head is resolved.
LEMMA NotBeforeResolve ==
  ASSUME IInv, NotBefore, UNCHANGED upper_recv_list, sse.pkt_list # <<>>,
         sse'.pkt_list = Tail(sse.pkt_list)
  PROVE  NotBefore'
<1> DEFINE q == sse.pkt_list
<1>1. q \in Seq(PktsOf(accepted)) /\ q # <<>>
  BY QueueMsgs
<1> HIDE DEF q
<1>2. /\ Len(q) \in Nat /\ Len(q) # 0 /\ Len(Tail(q)) = Len(q) - 1
      /\ \A i \in 1..(Len(q) - 1) : Tail(q)[i] = q[i + 1] /\ i + 1 \in 1..Len(q)
  BY <1>1
<1>3. sse'.pkt_list = Tail(q) /\ q = sse.pkt_list
  BY DEF q
<1>4. ReadsFirst'
  BY <1>2, <1>3 DEF NotBefore, ReadsFirst
<1>5. QueueOrdered'
  BY <1>2, <1>3 DEF NotBefore, QueueOrdered
<1> QED BY <1>4, <1>5 DEF NotBefore, ReadsOrdered

\* upper_send queues the next message.
LEMMA NotBeforeSend ==
  ASSUME IInv, NotBefore, UNCHANGED upper_recv_list, NEW pkt \in PktsOf(accepted + 1),
         pkt.msg = accepted + 1, sse'.pkt_list = Append(sse.pkt_list, pkt)
  PROVE  NotBefore'
<1> DEFINE q == sse.pkt_list
<1>1. /\ q \in Seq(PktsOf(accepted)) /\ accepted \in Nat
      /\ \A i \in 1..Len(q) : q[i].msg \in 1..accepted
  BY QueueMsgs
<1>2. \A i \in 1..Len(upper_recv_list) : upper_recv_list[i][0] \in 1..accepted
  BY ReadMsgs
<1> HIDE DEF q
<1>3. /\ Len(q) \in Nat /\ Len(Append(q, pkt)) = Len(q) + 1
      /\ \A i \in 1..(Len(q) + 1) :
           Append(q, pkt)[i] = IF i = Len(q) + 1 THEN pkt ELSE q[i]
  BY <1>1
<1>4. sse'.pkt_list = Append(q, pkt) /\ q = sse.pkt_list
  BY DEF q
<1>5. ASSUME NEW i \in 1..Len(upper_recv_list), NEW j \in 1..(Len(q) + 1)
      PROVE  upper_recv_list[i][0] <= Append(q, pkt)[j].msg
  <2>1. CASE j = Len(q) + 1
    BY <1>1, <1>2, <1>3, <2>1
  <2>2. CASE j # Len(q) + 1
    <3>1. j \in 1..Len(q) /\ Append(q, pkt)[j] = q[j]
      BY <1>3, <2>2
    <3> QED BY <1>4, <3>1 DEF NotBefore, ReadsFirst
  <2> QED BY <2>1, <2>2
<1>6. ASSUME NEW i \in 1..(Len(q) + 1), NEW j \in 1..(Len(q) + 1), i < j
      PROVE  Append(q, pkt)[i].msg <= Append(q, pkt)[j].msg
  <2>1. i \in 1..Len(q) /\ Append(q, pkt)[i] = q[i]
    BY <1>3, <1>6
  <2>2. CASE j = Len(q) + 1
    <3>1. Append(q, pkt)[j] = pkt
      BY <1>3, <2>2
    <3> QED BY <1>1, <2>1, <3>1
  <2>3. CASE j # Len(q) + 1
    <3>1. j \in 1..Len(q) /\ Append(q, pkt)[j] = q[j]
      BY <1>3, <2>3
    <3> QED BY <1>4, <1>6, <2>1, <3>1 DEF NotBefore, QueueOrdered
  <2> QED BY <2>2, <2>3
<1>7. ReadsFirst'
  BY <1>3, <1>4, <1>5 DEF ReadsFirst
<1>8. QueueOrdered'
  BY <1>3, <1>4, <1>6 DEF QueueOrdered
<1> QED BY <1>7, <1>8 DEF NotBefore, ReadsOrdered

\* The receiver submits the head.
LEMMA NotBeforeSubmit ==
  ASSUME IInv, NotBefore, UNCHANGED sse, sse.pkt_list # <<>>,
         NEW S, upper_recv_list \in Seq(S), NEW c \in S, c[0] = Head(sse.pkt_list).msg,
         upper_recv_list' = Append(upper_recv_list, c)
  PROVE  NotBefore'
<1> DEFINE q == sse.pkt_list
           u == upper_recv_list
<1>1. /\ q \in Seq(PktsOf(accepted)) /\ q # <<>>
      /\ \A i \in 1..Len(q) : q[i].msg \in 1..accepted
  BY QueueMsgs
<1>2. /\ ReadsOrdered /\ ReadsFirst /\ QueueOrdered
      /\ c[0] = Head(q).msg
  BY DEF NotBefore
<1>3. u \in Seq(S)
  OBVIOUS
<1> HIDE DEF q, u
<1>4. 1 \in 1..Len(q) /\ Head(q) = q[1] /\ Len(q) \in Nat
  BY <1>1
<1>5. /\ Len(u) \in Nat /\ Len(Append(u, c)) = Len(u) + 1
      /\ \A i \in 1..(Len(u) + 1) : Append(u, c)[i] = IF i = Len(u) + 1 THEN c ELSE u[i]
  BY <1>3
<1>6. \A j \in 1..Len(q) : c[0] <= q[j].msg
  <2>1. ASSUME NEW j \in 1..Len(q) PROVE q[1].msg <= q[j].msg
    <3>1. CASE j = 1
      BY <1>1, <3>1
    <3>2. CASE j # 1
      <4>1. 1 < j
        BY <1>1, <3>2
      <4> QED BY <1>2, <1>4, <4>1 DEF QueueOrdered, q
    <3> QED BY <3>1, <3>2
  <2> QED BY <1>2, <1>4, <2>1
<1>7. \A i \in 1..Len(u) : /\ u[i][0] <= c[0]
                            /\ \A j \in 1..Len(q) : u[i][0] <= q[j].msg
  BY <1>2, <1>4 DEF ReadsFirst, q, u
<1>8. upper_recv_list' = Append(u, c) /\ q = sse.pkt_list /\ u = upper_recv_list
  BY DEF q, u
<1>9. ReadsOrdered'
  <2>1. ASSUME NEW i \in 1..(Len(u) + 1), NEW j \in 1..(Len(u) + 1), i < j
        PROVE  Append(u, c)[i][0] <= Append(u, c)[j][0]
    <3>1. i \in 1..Len(u) /\ Append(u, c)[i] = u[i]
      BY <1>5, <2>1
    <3>2. CASE j = Len(u) + 1
      <4>1. Append(u, c)[j] = c
        BY <1>5, <3>2
      <4> QED BY <1>7, <3>1, <4>1
    <3>3. CASE j # Len(u) + 1
      <4>1. j \in 1..Len(u) /\ Append(u, c)[j] = u[j]
        BY <1>5, <3>3
      <4> QED BY <1>2, <1>8, <2>1, <3>1, <4>1 DEF ReadsOrdered
    <3> QED BY <3>2, <3>3
  <2> QED BY <1>5, <1>8, <2>1 DEF ReadsOrdered
<1>10. ReadsFirst'
  <2>1. ASSUME NEW i \in 1..(Len(u) + 1), NEW j \in 1..Len(q)
        PROVE  Append(u, c)[i][0] <= q[j].msg
    <3>1. CASE i = Len(u) + 1
      <4>1. Append(u, c)[i] = c
        BY <1>5, <3>1
      <4> QED BY <1>6, <4>1
    <3>2. CASE i # Len(u) + 1
      <4>1. i \in 1..Len(u) /\ Append(u, c)[i] = u[i]
        BY <1>4, <1>5, <3>2
      <4>2. u[i][0] <= q[j].msg
        BY <1>7, <4>1
      <4> QED BY <4>1, <4>2
    <3> QED BY <3>1, <3>2
  <2> QED BY <1>5, <1>8, <2>1 DEF ReadsFirst
<1> QED BY <1>2, <1>9, <1>10 DEF NotBefore, QueueOrdered

\* What a list put to a bare link makes.
LEMMA EmptyNow == ASSUME IInv, Flight = {} PROVE Empty
<1>1. net = {} /\ \A n \in Nodes : lower_send_list[n] = <<>>
  BY FlightNone
<1>2. lower_send_list = [n \in Nodes |-> lower_send_list[n]]
  BY DEF IInv, LinkInv
<1> QED BY <1>1, <1>2 DEF Empty, Bare

LEMMA PutNone ==
  ASSUME IInv, NEW node \in Nodes, Put(node, <<>>)
  PROVE  UNCHANGED lower_send_list
<1>1. /\ lower_send_list \in [Nodes -> Seq(FramesOf(accepted))]
      /\ lower_send_list' = [lower_send_list EXCEPT ![node] = @ \o <<>>]
  BY DEF Put, IInv, LinkInv
<1>2. lower_send_list[node] \o <<>> = lower_send_list[node]
  BY <1>1
<1> QED BY <1>1, <1>2

LEMMA PutAlone ==
  ASSUME NEW node \in Nodes, NEW h, Bare, net' = {}, Put(node, <<h>>),
         sse'.pkt_list # <<>>,
         h.type \in {"DATA", "PATCH"} => h.msg = Head(sse'.pkt_list).msg
  PROVE  OneFrame'
<1>1. lower_send_list' = [k \in Nodes |-> IF k = node THEN <<h>> ELSE <<>>]
  <2>1. \A k \in Nodes : lower_send_list[k] = <<>>
    BY DEF Bare
  <2>2. <<>> \o <<h>> = <<h>>
    OBVIOUS
  <2> QED BY <2>1, <2>2 DEF Put, Bare
<1>2. Lone(h)'
  BY <1>1 DEF Lone
<1>3. FromHead(h)'
  BY DEF FromHead
<1> QED BY <1>2, <1>3 DEF OneFrame

\* send_ack answers with one frame at most, and never with data.
LEMMA AnswerAlone ==
  ASSUME IInv, NEW se \in RseType, Bare, net' = {}, UNCHANGED sse,
         sse.pkt_list # <<>>, Put("rcv", AckFrames(se))
  PROVE  OneFrame'
<1>1. CASE AckFrames(se) = <<>>
  <2>1. Put("rcv", <<>>)
    BY <1>1
  <2>2. lower_send_list' = lower_send_list
    BY <2>1, PutNone DEF Nodes
  <2> QED BY <2>2 DEF OneFrame, Empty, Bare
<1>2. CASE AckFrames(se) # <<>>
  <2>1. PICK h : AckFrames(se) = <<h>> /\ h.type \notin {"DATA", "PATCH"}
    BY <1>2 DEF AckFrames, Frame
  <2>2. Put("rcv", <<h>>)
    BY <2>1
  <2> QED BY <2>1, <2>2, PutAlone DEF Nodes
<1> QED BY <1>1, <1>2

\* A step that moves no frame keeps the one there is, with the same head.
LEMMA OneFrameStays ==
  ASSUME OneFrame, UNCHANGED <<net, lower_send_list>>,
         Empty \/ (sse'.pkt_list # <<>> /\ Head(sse'.pkt_list) = Head(sse.pkt_list))
  PROVE  OneFrame'
<1>1. CASE Empty
  BY <1>1 DEF OneFrame, Empty, Bare
<1>2. CASE ~Empty
  <2>1. PICK f : Lone(f) /\ FromHead(f)
    BY <1>2 DEF OneFrame
  <2>2. Lone(f)'
    BY <2>1 DEF Lone, Bare
  <2>3. FromHead(f)'
    BY <1>2, <2>1 DEF FromHead
  <2> QED BY <2>2, <2>3 DEF OneFrame
<1> QED BY <1>1, <1>2

\* lower_fetch hands the frame to the link, which may lose it.
LEMMA OneFrameFetched ==
  ASSUME IInv, OneFrame, NEW n \in Nodes, LowerFetch(n)
  PROVE  OneFrame'
<1>1. /\ lower_send_list[n] # <<>> /\ UNCHANGED sse
      /\ lower_send_list' = [lower_send_list EXCEPT ![n] = Tail(@)]
      /\ net' = net \cup {Head(lower_send_list[n])}
  BY DEF LowerFetch, senderVars
<1>2. ~Bare
  BY <1>1 DEF Bare
<1>3. PICK f : Lone(f) /\ FromHead(f)
  BY <1>2 DEF OneFrame, Empty
<1>4. PICK m \in Nodes :
        /\ net = {}
        /\ lower_send_list = [k \in Nodes |-> IF k = m THEN <<f>> ELSE <<>>]
  BY <1>2, <1>3 DEF Lone
<1>5. n = m
  BY <1>1, <1>4
<1>6. Head(<<f>>) = f /\ Tail(<<f>>) = <<>>
  OBVIOUS
<1>7. net' = {f}
  BY <1>1, <1>4, <1>5, <1>6
<1>8. lower_send_list' = [k \in Nodes |-> <<>>]
  BY <1>1, <1>4, <1>5, <1>6
<1>9. Lone(f)'
  BY <1>7, <1>8 DEF Lone, Bare
<1>10. FromHead(f)'
  BY <1>1, <1>3 DEF FromHead
<1> QED BY <1>9, <1>10 DEF OneFrame

LEMMA OneFrameOnLink ==
  ASSUME OneFrame, NEW f \in net
  PROVE  net = {f} /\ Bare /\ FromHead(f)
<1>1. ~Empty
  BY DEF Empty
<1>2. PICK g : Lone(g) /\ FromHead(g)
  BY <1>1 DEF OneFrame
<1>3. net = {g} /\ Bare
  BY <1>2 DEF Lone
<1>4. f = g
  BY <1>3
<1> QED BY <1>2, <1>3, <1>4

-----------------------------------------------------------------------------
(* What completes a session is the head's. *)

\* The checksum of a complete session holds for its own message only.
LEMMA CompleteOrder ==
  ASSUME IInv, NEW se \in RseType, se.msg \in Msgs, TestAllBitsSet(se), Complete(se)
  PROVE  /\ Incomplete'
         /\ CsumOk(se) =>
              /\ Put("rcv", AckFrames(se))
              /\ \E c : c[0] = se.msg /\ upper_recv_list' = Append(upper_recv_list, c)
         /\ ~CsumOk(se) => UNCHANGED <<lower_send_list, upper_recv_list>>
<1>1. CASE CsumOk(se)
  <2> DEFINE c == [i \in Whole(se.msg) |-> se.data[i]]
  <2>1. /\ rse' = [se EXCEPT !.completed = TRUE] /\ Put("rcv", AckFrames(se))
        /\ upper_recv_list' = Append(upper_recv_list, c)
    BY <1>1 DEF Complete
  <2>2. rse'.completed
    BY <2>1 DEF RseType
  <2>3. 0 \in Whole(se.msg)
    BY ConstantsAssumption DEF Whole
  <2>4. c[0] = se.msg
    BY <1>1, <2>3 DEF CsumOk
  <2> HIDE DEF c
  <2> QED BY <1>1, <2>1, <2>2, <2>4 DEF Incomplete
<1>2. CASE ~CsumOk(se)
  <2>1. rse' = [se EXCEPT !.nak = TRUE]
        /\ UNCHANGED <<lower_send_list, upper_recv_list>>
    BY <1>2 DEF Complete
  <2>2. rse'.msg = se.msg /\ rse'.data = se.data
    BY <2>1 DEF RseType
  <2>3. ~CsumOk(rse')
    BY <1>2, <2>2 DEF CsumOk
  <2>4. ~CsumOk(rse)'
    BY <2>3 DEF CsumOk
  <2> QED BY <1>2, <2>1, <2>4 DEF Incomplete
<1> QED BY <1>1, <1>2

LEMMA ProcDataOrder ==
  ASSUME IInv, NEW f \in net, ProcData(f)
  PROVE  /\ Incomplete' /\ UNCHANGED sse
         /\ \/ UNCHANGED upper_recv_list
            \/ \E c : c[0] = f.msg /\ upper_recv_list' = Append(upper_recv_list, c)
         /\ \/ UNCHANGED lower_send_list
            \/ \E se \in RseType : Put("rcv", AckFrames(se))
         /\ f.type = "DATA"
<1> DEFINE found == IF rse.live THEN GetRse ELSE CreateRse
           started == [found EXCEPT !.bitmap = {}, !.seq_exp = f.seq,
                                    !.msg = f.msg, !.completed = FALSE,
                                    !.nak = FALSE]
           se == PatchRse(started, f.msg, f.slices)
<1>1. /\ f.type = "DATA" /\ UNCHANGED sse
      /\ TestAllBitsSet(se) => Complete(se)
      /\ ~TestAllBitsSet(se) => /\ rse' = se
                                /\ Put("rcv", AckFrames(se))
                                /\ UNCHANGED <<upper_recv_list, submits>>
  BY DEF ProcData, senderVars
<1>2. /\ f \in Frames /\ f.msg \in Msgs /\ f.msg \in 0..NumMsgs
      /\ f.slices \in SUBSET (0..MAX_SLICE_NUM) /\ f.seq \in SeqNos
  <2>1. f \in FramesOf(accepted) /\ f \in Frames /\ accepted \in 0..NumMsgs
    BY NetInFlight DEF IInv, SenderInv
  <2> QED BY <1>1, <2>1, ConstantsAssumption DEF FramesOf, Frames, Msgs
<1>3. found \in RseType
  BY GetRseFields, NewRseFields DEF IInv, ReceiverInv
<1> HIDE DEF found
<1>4. started \in RseType /\ started.msg = f.msg
  BY <1>2, <1>3 DEF RseType
<1> HIDE DEF started
<1>5. se \in RseType /\ se.msg = f.msg
  BY <1>2, <1>4, PatchRseFields
<1> HIDE DEF se
<1>6. CASE TestAllBitsSet(se)
  BY <1>1, <1>2, <1>5, <1>6, CompleteOrder
<1>7. CASE ~TestAllBitsSet(se)
  <2>1. Incomplete'
    BY <1>1, <1>7 DEF Incomplete, TestAllBitsSet
  <2> QED BY <1>1, <1>5, <1>7, <2>1
<1> QED BY <1>6, <1>7

\* If no slice fitted the session was complete before the patch; it would have
\* been refused by the checksum then, and is again.  If one fitted the checksum
\* makes the whole session the patch's message.
LEMMA ProcPatchOrder ==
  ASSUME IInv, Incomplete, NEW f \in net, NEW good \in SUBSET f.slices,
         ProcPatch(f, good)
  PROVE  /\ Incomplete' /\ UNCHANGED sse
         /\ \/ UNCHANGED upper_recv_list
            \/ \E c : c[0] = f.msg /\ upper_recv_list' = Append(upper_recv_list, c)
         /\ \/ UNCHANGED lower_send_list
            \/ \E se \in RseType : Put("rcv", AckFrames(se))
         /\ f.type = "PATCH"
<1> DEFINE se == PatchRse(GetRse, f.msg, good)
           taken == rse.live /\ rse.seq_exp = f.seq /\ ~rse.completed
           fit == {i \in good : i <= NSlices[rse.msg]}
<1>1. /\ f.type = "PATCH" /\ UNCHANGED sse
      /\ taken /\ TestAllBitsSet(se) => Complete(se)
      /\ ~(taken /\ TestAllBitsSet(se)) =>
           /\ rse' = IF taken THEN se ELSE IF rse.live THEN GetRse ELSE rse
           /\ UNCHANGED <<lower_send_list, upper_recv_list, submits>>
  BY DEF ProcPatch, senderVars
<1>2. /\ rse \in RseType /\ f.msg \in 0..NumMsgs /\ good \in SUBSET (0..MAX_SLICE_NUM)
      /\ rse.live => rse.msg \in Msgs
  <2>1. f \in Frames
    BY NetInFlight
  <2> QED BY <2>1, ConstantsAssumption DEF Frames, IInv, ReceiverInv, SenderInv, Msgs
<1>3. /\ GetRse \in RseType /\ GetRse.live = rse.live /\ GetRse.msg = rse.msg
      /\ GetRse.bitmap = rse.bitmap /\ GetRse.completed = rse.completed
      /\ GetRse.data = rse.data
  BY <1>2, GetRseFields, GetRseKeeps
<1>4. /\ se \in RseType /\ se.live = rse.live /\ se.msg = rse.msg
      /\ se.completed = rse.completed
  BY <1>2, <1>3, PatchRseFields, PatchRseKeeps
<1>5. /\ se.bitmap = rse.bitmap \cup fit
      /\ \A i \in 0..MAX_SLICE_NUM : se.data[i] = IF i \in fit THEN f.msg ELSE rse.data[i]
  BY <1>2, <1>3 DEF PatchRse, RseType
<1> HIDE DEF se
<1>6. CASE taken /\ TestAllBitsSet(se)
  <2>1. /\ Complete(se) /\ se.msg \in Msgs /\ rse.live /\ ~rse.completed
    BY <1>1, <1>2, <1>4, <1>6
  <2>2. CsumOk(se) => se.msg = f.msg
    <3>1. SUFFICES ASSUME CsumOk(se) PROVE se.msg = f.msg
      OBVIOUS
    <3>2. CASE fit = {}
      <4>1. se.bitmap = rse.bitmap
        BY <1>5, <3>2
      <4>2. TestAllBitsSet(rse)
        BY <1>4, <1>6, <4>1 DEF TestAllBitsSet
      <4>3. Whole(se.msg) \subseteq 0..MAX_SLICE_NUM
        BY <2>1, WholeRange
      <4>4. CsumOk(rse)
        BY <1>4, <1>5, <3>1, <3>2, <4>3 DEF CsumOk
      <4> QED BY <2>1, <4>2, <4>4 DEF Incomplete
    <3>3. CASE fit # {}
      <4>1. PICK i \in fit : TRUE
        BY <3>3
      <4>2. i \in Whole(se.msg) /\ i \in 0..MAX_SLICE_NUM
        BY <1>2, <1>5, <1>6, <4>1 DEF TestAllBitsSet
      <4>3. se.data[i] = f.msg /\ se.data[i] = se.msg
        BY <1>5, <3>1, <4>1, <4>2 DEF CsumOk
      <4> QED BY <4>3
    <3> QED BY <3>2, <3>3
  <2>3. /\ Incomplete'
        /\ CsumOk(se) =>
              /\ Put("rcv", AckFrames(se))
              /\ \E c : c[0] = se.msg /\ upper_recv_list' = Append(upper_recv_list, c)
        /\ ~CsumOk(se) => UNCHANGED <<lower_send_list, upper_recv_list>>
    BY <1>4, <1>6, <2>1, CompleteOrder
  <2> QED BY <1>1, <1>4, <2>2, <2>3
<1>7. CASE ~(taken /\ TestAllBitsSet(se))
  <2>1. /\ rse' = IF taken THEN se ELSE IF rse.live THEN GetRse ELSE rse
        /\ UNCHANGED <<lower_send_list, upper_recv_list>>
    BY <1>1, <1>7
  <2>2. Incomplete'
    <3>1. CASE taken
      BY <1>7, <2>1, <3>1 DEF Incomplete, TestAllBitsSet
    <3>2. CASE ~taken /\ rse.live
      BY <1>3, <2>1, <3>2 DEF Incomplete, TestAllBitsSet, CsumOk
    <3>3. CASE ~rse.live
      BY <2>1, <3>3 DEF Incomplete
    <3> QED BY <3>1, <3>2, <3>3
  <2> QED BY <1>1, <2>1, <2>2
<1> QED BY <1>6, <1>7

-----------------------------------------------------------------------------
(* OrderInv is an invariant. *)

\* Only the receiver's handlers and its timer touch its session.
LEMMA IncompleteStays ==
  ASSUME Incomplete,
         \/ UNCHANGED rse
         \/ rse' = NoRse
         \/ rse \in RseType /\ rse' = [rse EXCEPT !.idle_timeout = rse'.idle_timeout]
  PROVE  Incomplete'
<1>1. CASE UNCHANGED rse
  BY <1>1 DEF Incomplete, TestAllBitsSet, CsumOk
<1>2. CASE rse' = NoRse
  BY <1>2, NewRseFields DEF Incomplete
<1>3. CASE rse \in RseType /\ rse' = [rse EXCEPT !.idle_timeout = rse'.idle_timeout]
  <2>1. /\ rse'.live = rse.live /\ rse'.completed = rse.completed
        /\ rse'.msg = rse.msg /\ rse'.bitmap = rse.bitmap /\ rse'.data = rse.data
    BY <1>3 DEF RseType
  <2> QED BY <2>1 DEF Incomplete, TestAllBitsSet, CsumOk
<1> QED BY <1>1, <1>2, <1>3

\* The handlers, on an orderly link: the frame was alone, and what is sent in
\* return is.
LEMMA ReceiverOrder ==
  ASSUME IInv, OneFrame, NotBefore, NEW f \in net, net' = {}, UNCHANGED sse,
         f.type \in {"DATA", "PATCH"},
         \/ UNCHANGED upper_recv_list
         \/ \E c : c[0] = f.msg /\ upper_recv_list' = Append(upper_recv_list, c),
         \/ UNCHANGED lower_send_list
         \/ \E se \in RseType : Put("rcv", AckFrames(se))
  PROVE  OneFrame' /\ NotBefore'
<1>1. Bare /\ sse.pkt_list # <<>> /\ f.msg = Head(sse.pkt_list).msg
  BY OneFrameOnLink DEF FromHead
<1>2. OneFrame'
  <2>1. CASE UNCHANGED lower_send_list
    BY <1>1, <2>1 DEF OneFrame, Empty, Bare
  <2>2. CASE \E se \in RseType : Put("rcv", AckFrames(se))
    BY <1>1, <2>2, AnswerAlone
  <2> QED BY <2>1, <2>2
<1>3. NotBefore'
  <2>1. CASE UNCHANGED upper_recv_list
    BY <2>1 DEF NotBefore, ReadsOrdered, ReadsFirst, QueueOrdered
  <2>2. CASE \E c : c[0] = f.msg /\ upper_recv_list' = Append(upper_recv_list, c)
    <3>1. PICK c : c[0] = f.msg /\ upper_recv_list' = Append(upper_recv_list, c)
      BY <2>2
    <3> DEFINE S == ContentsOf(accepted) \cup {c}
    <3>2. ContentsOf(accepted) \subseteq S /\ c \in S
      OBVIOUS
    <3> HIDE DEF S
    <3>3. upper_recv_list \in Seq(S)
      BY <3>2, ReadMsgs, SeqMonotonic
    <3> QED BY <1>1, <3>1, <3>2, <3>3, NotBeforeSubmit
  <2> QED BY <2>1, <2>2
<1> QED BY <1>2, <1>3

LEMMA ProcAckReqOrder ==
  ASSUME IInv, OneFrame, NotBefore, NEW f \in net, net' = {}, ProcAckReq(f)
  PROVE  OneFrame' /\ NotBefore'
<1>1. /\ UNCHANGED <<sse, upper_recv_list>> /\ rse \in RseType
      /\ \/ UNCHANGED lower_send_list
         \/ Put("rcv", AckFrames(rse))
  BY DEF ProcAckReq, senderVars, IInv, ReceiverInv
<1>2. Bare /\ sse.pkt_list # <<>>
  BY OneFrameOnLink DEF FromHead
<1>3. OneFrame'
  <2>1. CASE UNCHANGED lower_send_list
    BY <1>2, <2>1 DEF OneFrame, Empty, Bare
  <2>2. CASE Put("rcv", AckFrames(rse))
    BY <1>1, <1>2, <2>2, AnswerAlone
  <2> QED BY <1>1, <2>1, <2>2
<1> QED BY <1>1, <1>3 DEF NotBefore, ReadsOrdered, ReadsFirst, QueueOrdered

\* What a resolved head leaves under way.
LEMMA ResolveOrder ==
  ASSUME IInv, Bare, NotBefore, net' = {}, UNCHANGED upper_recv_list,
         sse.live, sse.pkt_list # <<>>,
         sse' = TryLowerSend(PopPkt(GetSse)), Put("snd", LowerSent(PopPkt(GetSse)))
  PROVE  OneFrame' /\ NotBefore'
<1> DEFINE rest == Tail(sse.pkt_list)
<1>1. sse'.pkt_list = rest
  BY ResolveFields
<1>2. NotBefore'
  BY <1>1, NotBeforeResolve
<1>3. CASE rest = <<>>
  <2>1. Put("snd", <<>>)
    BY <1>3, ResolveFields
  <2>2. lower_send_list' = lower_send_list
    BY <2>1, PutNone DEF Nodes
  <2> QED BY <1>2, <2>2 DEF OneFrame, Empty, Bare
<1>4. CASE rest # <<>>
  <2> DEFINE h == DataFrame(Head(rest))
  <2>1. Put("snd", <<h>>)
    BY <1>4, ResolveFields
  <2>2. h.msg = Head(rest).msg
    BY DEF DataFrame, Frame
  <2> HIDE DEF h, rest
  <2>3. OneFrame'
    BY <1>1, <1>4, <2>1, <2>2, PutAlone DEF Nodes
  <2> QED BY <1>2, <2>3
<1> QED BY <1>3, <1>4

LEMMA ProcAckAllOrder ==
  ASSUME IInv, OneFrame, NotBefore, NEW f \in net, net' = {}, ProcAckAll(f)
  PROVE  OneFrame' /\ NotBefore'
<1>1. Bare
  BY OneFrameOnLink
<1>2. CASE sse.live /\ ForHead(f)
  <2>1. /\ sse' = TryLowerSend(PopPkt(GetSse)) /\ Put("snd", LowerSent(PopPkt(GetSse)))
        /\ sse.pkt_list # <<>> /\ UNCHANGED upper_recv_list
    BY <1>2 DEF ProcAckAll, ForHead, receiverVars
  <2> QED BY <1>1, <1>2, <2>1, ResolveOrder
<1>3. CASE ~(sse.live /\ ForHead(f))
  <2>1. UNCHANGED <<lower_send_list, upper_recv_list>> /\ sse'.pkt_list = sse.pkt_list
    BY <1>3, RefreshFields DEF ProcAckAll, receiverVars
  <2>2. OneFrame'
    BY <1>1, <2>1 DEF OneFrame, Empty, Bare
  <2> QED BY <2>1, <2>2 DEF NotBefore, ReadsOrdered, ReadsFirst, QueueOrdered
<1> QED BY <1>2, <1>3

LEMMA ProcAckPartOrder ==
  ASSUME IInv, OneFrame, NotBefore, NEW f \in net, net' = {}, ProcAckPart(f)
  PROVE  OneFrame' /\ NotBefore'
<1>1. Bare
  BY OneFrameOnLink
<1>2. CASE sse.live /\ ForHead(f)
  <2> DEFINE pkt == Head(sse.pkt_list)
  <2>1. /\ sse'.pkt_list = sse.pkt_list /\ sse.pkt_list # <<>>
        /\ UNCHANGED upper_recv_list
    BY <1>2, PartFields DEF ProcAckPart, receiverVars
  <2>2. PICK fs \in Seq(Frames) :
          /\ Put("snd", fs)
          /\ fs = <<>> \/ \E slices \in SUBSET (0..MAX_SLICE_NUM) :
                            fs = <<Frame("PATCH", pkt.seq, pkt.msg, slices)>>
    BY <1>2, PartFields
  <2>3. OneFrame'
    <3>1. CASE fs = <<>>
      <4>1. Put("snd", <<>>)
        BY <2>2, <3>1
      <4>2. lower_send_list' = lower_send_list
        BY <4>1, PutNone DEF Nodes
      <4> QED BY <1>1, <4>2 DEF OneFrame, Empty, Bare
    <3>2. CASE fs # <<>>
      <4>1. PICK h : fs = <<h>> /\ h.msg = pkt.msg
        BY <2>2, <3>2 DEF Frame
      <4>2. Put("snd", <<h>>)
        BY <2>2, <4>1
      <4> QED BY <1>1, <2>1, <4>1, <4>2, PutAlone DEF Nodes
    <3> QED BY <3>1, <3>2
  <2> QED BY <2>1, <2>3 DEF NotBefore, ReadsOrdered, ReadsFirst, QueueOrdered
<1>3. CASE ~(sse.live /\ ForHead(f))
  <2>1. UNCHANGED <<lower_send_list, upper_recv_list>> /\ sse'.pkt_list = sse.pkt_list
    BY <1>3, RefreshFields DEF ProcAckPart, receiverVars
  <2>2. OneFrame'
    BY <1>1, <2>1 DEF OneFrame, Empty, Bare
  <2> QED BY <2>1, <2>2 DEF NotBefore, ReadsOrdered, ReadsFirst, QueueOrdered
<1> QED BY <1>2, <1>3

LEMMA LowerPutOrder ==
  ASSUME IInv, OrderInv, Orderly' <=> Orderly, NEW f \in net, LowerPut(f), Orderly => net' = net \ {f}
  PROVE  OrderInv'
<1>0. Incomplete /\ (Orderly => OneFrame /\ NotBefore /\ net' = {})
  BY OneFrameOnLink DEF OrderInv
<1>1. CASE ProcData(f)
  <2>1. f.type \in {"DATA", "PATCH"}
    BY <1>1, ProcDataOrder
  <2> QED BY <1>0, <1>1, <2>1, ProcDataOrder, ReceiverOrder DEF OrderInv
<1>2. CASE \E good \in SUBSET f.slices : ProcPatch(f, good)
  <2>1. f.type \in {"DATA", "PATCH"}
    BY <1>0, <1>2, ProcPatchOrder
  <2> QED BY <1>0, <1>2, <2>1, ProcPatchOrder, ReceiverOrder DEF OrderInv
<1>3. CASE ProcAckReq(f)
  <2>1. Incomplete'
    <3>1. rse' = IF rse.live THEN GetRse ELSE rse
      BY <1>3 DEF ProcAckReq
    <3>2. rse \in RseType /\ GetRse = [rse EXCEPT !.idle_timeout = IDLE_TIMEOUT]
          /\ GetRse.idle_timeout = IDLE_TIMEOUT
      BY GetRseKeeps DEF GetRse, IInv, ReceiverInv
    <3> QED BY <1>0, <3>1, <3>2, IncompleteStays
  <2> QED BY <1>0, <1>3, <2>1, ProcAckReqOrder DEF OrderInv
<1>4. CASE ProcAckAll(f)
  <2>1. Incomplete'
    BY <1>0, <1>4, IncompleteStays DEF ProcAckAll, receiverVars
  <2> QED BY <1>0, <1>4, <2>1, ProcAckAllOrder DEF OrderInv
<1>5. CASE ProcAckPart(f)
  <2>1. Incomplete'
    BY <1>0, <1>5, IncompleteStays DEF ProcAckPart, receiverVars
  <2> QED BY <1>0, <1>5, <2>1, ProcAckPartOrder DEF OrderInv
<1> QED BY <1>1, <1>2, <1>3, <1>4, <1>5 DEF LowerPut

\* The sender's timer acts on an expired ack timer when nothing is under way.
LEMMA TimerOrder ==
  ASSUME IInv, Calm, OneFrame, NotBefore, Orderly,
         TimerAckReq \/ TimerResend \/ TimerDrop
  PROVE  OneFrame' /\ NotBefore'
<1>1. /\ "snd" \in due /\ UNCHANGED <<net, upper_recv_list>> /\ "delays" \notin link
  BY DEF TimerAckReq, TimerResend, TimerDrop, TimerPass, receiverVars, Orderly
<1>2. /\ sse.ack_timeout = 0 /\ sse.pkt_list # <<>> /\ sse.live
  BY AckReqFields, ResendFields, DropFields
<1>3. Flight = {}
  BY <1>1, <1>2 DEF Calm, PassFirst
<1>4. net = {} /\ net' = {} /\ Bare
  BY <1>1, <1>3, EmptyNow DEF Empty
<1>5. CASE TimerAckReq
  <2> DEFINE h == AckReqFrame(sse)
  <2>1. Put("snd", <<h>>) /\ sse'.pkt_list = sse.pkt_list /\ h.type = "ACKR"
    BY <1>5, AckReqFields DEF AckReqFrame, Frame
  <2> HIDE DEF h
  <2>2. OneFrame'
    BY <1>2, <1>4, <2>1, PutAlone DEF Nodes
  <2> QED BY <1>1, <2>1, <2>2 DEF NotBefore, ReadsOrdered, ReadsFirst, QueueOrdered
<1>6. CASE TimerResend
  <2> DEFINE h == DataFrame(Head(sse.pkt_list))
  <2>1. Put("snd", <<h>>) /\ sse'.pkt_list = sse.pkt_list
        /\ h.msg = Head(sse.pkt_list).msg
    BY <1>6, ResendFields DEF DataFrame, Frame
  <2> HIDE DEF h
  <2>2. OneFrame'
    BY <1>2, <1>4, <2>1, PutAlone DEF Nodes
  <2> QED BY <1>1, <2>1, <2>2 DEF NotBefore, ReadsOrdered, ReadsFirst, QueueOrdered
<1>7. CASE TimerDrop
  BY <1>1, <1>2, <1>4, <1>7, DropFields, ResolveOrder
<1> QED BY <1>5, <1>6, <1>7

\* upper_send announces the message if the queue, and so the link, is empty.
LEMMA UpperSendOrder ==
  ASSUME IInv, Calm, OneFrame, NotBefore, UpperSend
  PROVE  OneFrame' /\ NotBefore'
<1> DEFINE q == sse.pkt_list
           pkt == [msg |-> accepted + 1, seq |-> sse.seq]
<1>1. /\ pkt \in PktsOf(accepted + 1) /\ pkt.msg = accepted + 1
      /\ sse'.pkt_list = Append(q, pkt)
      /\ q = <<>> => Put("snd", <<DataFrame(pkt)>>)
      /\ q # <<>> => Put("snd", <<>>)
      /\ UNCHANGED <<net, upper_recv_list>>
  BY UpperSendFields DEF Calm, receiverVars
<1>2. q \in Seq(PktsOf(accepted))
  BY QueueMsgs
<1> HIDE DEF pkt
<1>3. NotBefore'
  BY <1>1, NotBeforeSend
<1>4. CASE q = <<>>
  <2> DEFINE h == DataFrame(pkt)
  <2>1. Empty
    BY <1>4 DEF OneFrame, FromHead
  <2>2. h.msg = pkt.msg /\ Append(q, pkt) # <<>> /\ Head(Append(q, pkt)) = pkt
    BY <1>4 DEF DataFrame, Frame
  <2>3. Put("snd", <<h>>)
    BY <1>1, <1>4
  <2> HIDE DEF h
  <2>4. OneFrame'
    BY <1>1, <2>1, <2>2, <2>3, PutAlone DEF Nodes, Empty
  <2> QED BY <1>3, <2>4
<1>5. CASE q # <<>>
  <2> DEFINE longer == Append(q, pkt)
  <2>1. longer # <<>> /\ Head(longer) = Head(q)
    BY <1>1, <1>2, <1>5, AppendProperties
  <2>2. lower_send_list' = lower_send_list
    BY <1>1, <1>5, PutNone DEF Nodes
  <2>3. OneFrame'
    BY <1>1, <2>1, <2>2, OneFrameStays
  <2> QED BY <1>3, <2>3
<1> QED BY <1>4, <1>5

LEMMA NextOrder ==
  IInv /\ Calm /\ OrderInv /\ [Next]_vars => OrderInv'
<1> SUFFICES ASSUME IInv, Calm, OrderInv, [Next]_vars PROVE OrderInv'
  OBVIOUS
<1>0. /\ link' = link /\ Incomplete /\ (Orderly => OneFrame /\ NotBefore)
      /\ Orderly' <=> Orderly
  BY DEF Next, vars, OrderInv, Orderly
<1>1. CASE UpperSend
  <2>1. Incomplete'
    BY <1>0, <1>1, IncompleteStays DEF UpperSend, receiverVars
  <2> QED BY <1>0, <1>1, <2>1, UpperSendOrder DEF OrderInv
<1>2. CASE TimerAckReq \/ TimerResend \/ TimerDrop
  <2>1. Incomplete'
    BY <1>0, <1>2, IncompleteStays DEF TimerAckReq, TimerResend, TimerDrop, receiverVars
  <2> QED BY <1>0, <1>2, <2>1, TimerOrder DEF OrderInv
<1>3. CASE TimerQuiet
  <2>1. Incomplete' /\ UNCHANGED <<net, lower_send_list, upper_recv_list>>
    BY <1>0, <1>3, IncompleteStays DEF TimerQuiet, receiverVars
  <2>2. CASE sse' = sse
    BY <1>0, <2>1, <2>2, OneFrameStays
       DEF OrderInv, OneFrame, FromHead, NotBefore, ReadsOrdered, ReadsFirst, QueueOrdered
  <2>3. CASE sse' # sse
    <3>1. sse' = NoSse /\ sse.pkt_list = <<>> /\ sse'.pkt_list = <<>>
      BY <1>3, <2>3, QuietFields, NoSseFields
    <3>2. Orderly => Empty
      BY <1>0, <3>1 DEF OneFrame, FromHead
    <3>3. Orderly => OneFrame'
      BY <2>1, <3>2 DEF OneFrame, Empty, Bare
    <3> QED BY <1>0, <2>1, <3>1, <3>3
            DEF OrderInv, NotBefore, ReadsOrdered, ReadsFirst, QueueOrdered
  <2> QED BY <2>2, <2>3
<1>4. CASE UpperRecv
  <2>1. /\ UNCHANGED <<sse, rse, net, lower_send_list>> /\ upper_recv_list # <<>>
        /\ upper_recv_list' = Tail(upper_recv_list)
    BY <1>4 DEF UpperRecv, senderVars
  <2>2. Orderly => OneFrame'
    BY <1>0, <2>1, OneFrameStays DEF OneFrame, FromHead
  <2> QED BY <1>0, <2>1, <2>2, IncompleteStays, NotBeforeRecv DEF OrderInv
<1>5. CASE ReceiverTimer
  <2>1. /\ UNCHANGED <<sse, net, lower_send_list, upper_recv_list>>
        /\ rse' = rse \/ rse' = NoRse
    BY <1>5 DEF ReceiverTimer, senderVars
  <2>2. Incomplete'
    BY <1>0, <2>1, IncompleteStays
  <2>3. Orderly => OneFrame'
    BY <1>0, <2>1, OneFrameStays DEF OneFrame, FromHead
  <2> QED BY <1>0, <2>1, <2>2, <2>3
          DEF OrderInv, NotBefore, ReadsOrdered, ReadsFirst, QueueOrdered
<1>6. CASE \E n \in Nodes : LowerFetch(n)
  <2>1. UNCHANGED <<sse, rse, upper_recv_list>>
    BY <1>6 DEF LowerFetch, senderVars, receiverVars
  <2>2. Incomplete'
    BY <1>0, <2>1, IncompleteStays
  <2> QED BY <1>0, <1>6, <2>1, <2>2, OneFrameFetched
          DEF OrderInv, NotBefore, ReadsOrdered, ReadsFirst, QueueOrdered
<1>7. CASE \E f \in net : Lose(f)
  <2>1. PICK f \in net : Lose(f)
    BY <1>7
  <2>2. UNCHANGED <<sse, rse, upper_recv_list, lower_send_list>> /\ net' = net \ {f}
    BY <2>1 DEF Lose, senderVars, receiverVars
  <2>3. Incomplete'
    BY <1>0, <2>2, IncompleteStays
  <2>4. Orderly => OneFrame'
    BY <1>0, <2>2, OneFrameOnLink DEF OneFrame, Empty, Bare
  <2> QED BY <1>0, <2>2, <2>3, <2>4
          DEF OrderInv, NotBefore, ReadsOrdered, ReadsFirst, QueueOrdered
<1>8. CASE \E f \in net : LowerPut(f)
  <2>1. PICK f \in net : LowerPut(f)
    BY <1>8
  <2>2. Orderly => net' = net \ {f}
    BY <2>1 DEF LowerPut, Orderly
  <2> QED BY <1>0, <2>1, <2>2, LowerPutOrder
<1>9. CASE Tick
  <2>1. /\ sse'.pkt_list = sse.pkt_list
        /\ rse' = [rse EXCEPT !.idle_timeout = rse'.idle_timeout]
        /\ UNCHANGED <<lower_send_list, net, upper_recv_list>> /\ rse \in RseType
    BY <1>9, TickFields DEF IInv, ReceiverInv
  <2>2. Incomplete'
    BY <1>0, <2>1, IncompleteStays
  <2>3. Orderly => OneFrame'
    BY <1>0, <2>1, OneFrameStays DEF OneFrame, FromHead
  <2> QED BY <1>0, <2>1, <2>2, <2>3
          DEF OrderInv, NotBefore, ReadsOrdered, ReadsFirst, QueueOrdered
<1>10. CASE UNCHANGED vars
  <2>1. UNCHANGED <<sse, rse, net, lower_send_list, upper_recv_list>>
    BY <1>10 DEF vars, nodeVars
  <2>2. Incomplete'
    BY <1>0, <2>1, IncompleteStays
  <2>3. Orderly => OneFrame'
    BY <1>0, <2>1, OneFrameStays DEF OneFrame, FromHead
  <2> QED BY <1>0, <2>1, <2>2, <2>3
          DEF OrderInv, NotBefore, ReadsOrdered, ReadsFirst, QueueOrdered
<1> QED BY <1>1, <1>2, <1>3, <1>4, <1>5, <1>6, <1>7, <1>8, <1>9, <1>10 DEF Next, Step

LEMMA InitOrder == Init => OrderInv
<1> SUFFICES ASSUME Init PROVE OrderInv
  OBVIOUS
<1>1. Incomplete
  BY NewRseFields DEF Init, Incomplete
<1>2. Empty
  BY DEF Init, Empty, Bare
<1>3. 1..Len(upper_recv_list) = {} /\ 1..Len(sse.pkt_list) = {}
  BY NoSseFields DEF Init
<1>4. NotBefore
  BY <1>3 DEF NotBefore, ReadsOrdered, ReadsFirst, QueueOrdered
<1> QED BY <1>1, <1>2, <1>4 DEF OrderInv, OneFrame

-----------------------------------------------------------------------------
\* On a link that neither repeats nor delays, and whatever it loses, upper_recv
\* hands the messages out in the order in which upper_send took them, and what
\* still waits for its acknowledgement comes after what is still to be read.
THEOREM ReadInOrder == Spec => []UpperInOrder
<1>1. ASSUME IInv, OrderInv PROVE UpperInOrder
  <2> DEFINE u == upper_recv_list
             q == sse.pkt_list
             reads == [i \in 1..Len(u) |-> u[i][0]]
             queue == [i \in 1..Len(q) |-> q[i].msg]
             order == reads \o queue
  <2> SUFFICES ASSUME Orderly
               PROVE  \A i, j \in 1..Len(order) : i < j => order[i] <= order[j]
    BY DEF UpperInOrder, Orderly
  <2>1. /\ ReadsOrdered /\ ReadsFirst /\ QueueOrdered
    BY <1>1 DEF OrderInv, NotBefore
  <2>2. /\ Len(u) \in Nat /\ Len(q) \in Nat
        /\ \A k \in 1..Len(u) : u[k][0] \in 1..accepted
        /\ \A k \in 1..Len(q) : q[k].msg \in 1..accepted
    BY <1>1, QueueMsgs, ReadMsgs
  <2>3. /\ \A k \in 1..Len(u) : reads[k] = u[k][0]
        /\ \A k \in 1..Len(q) : queue[k] = q[k].msg
        /\ reads \in [1..Len(u) -> 1..accepted] /\ queue \in [1..Len(q) -> 1..accepted]
    BY <2>2
  <2>4. /\ \A k, l \in 1..Len(u) : k < l => u[k][0] <= u[l][0]
        /\ \A k \in 1..Len(u), l \in 1..Len(q) : u[k][0] <= q[l].msg
        /\ \A k, l \in 1..Len(q) : k < l => q[k].msg <= q[l].msg
    BY <2>1 DEF ReadsOrdered, ReadsFirst, QueueOrdered
  <2> HIDE DEF u, q, reads, queue
  <2>5. /\ reads \in Seq(1..accepted) /\ Len(reads) = Len(u)
        /\ queue \in Seq(1..accepted) /\ Len(queue) = Len(q)
    <3>1. reads \in Seq(1..accepted) /\ Len(reads) = Len(u)
      BY <2>2, <2>3, FunctionAsSeq
    <3>2. queue \in Seq(1..accepted) /\ Len(queue) = Len(q)
      BY <2>2, <2>3, FunctionAsSeq
    <3> QED BY <3>1, <3>2
  <2>6. /\ Len(order) = Len(u) + Len(q)
        /\ \A k \in 1..(Len(u) + Len(q)) :
             order[k] = IF k <= Len(u) THEN reads[k] ELSE queue[k - Len(u)]
    BY <2>5
  <2> HIDE DEF order
  <2> SUFFICES ASSUME NEW i \in 1..Len(order), NEW j \in 1..Len(order), i < j
               PROVE  order[i] <= order[j]
    OBVIOUS
  <2>7. i \in 1..(Len(u) + Len(q)) /\ j \in 1..(Len(u) + Len(q))
    BY <2>6
  <2>8. CASE j <= Len(u)
    <3>1. i \in 1..Len(u) /\ j \in 1..Len(u)
      BY <2>2, <2>7, <2>8
    <3> QED BY <2>2, <2>3, <2>4, <2>6, <2>7, <3>1
  <2>9. CASE i <= Len(u) /\ ~(j <= Len(u))
    <3>1. i \in 1..Len(u) /\ j - Len(u) \in 1..Len(q)
      BY <2>2, <2>7, <2>9
    <3> QED BY <2>3, <2>4, <2>6, <2>7, <2>9, <3>1
  <2>10. CASE ~(i <= Len(u))
    <3>1. /\ i - Len(u) \in 1..Len(q) /\ j - Len(u) \in 1..Len(q)
          /\ i - Len(u) < j - Len(u) /\ ~(j <= Len(u))
      BY <2>2, <2>7, <2>10
    <3> QED BY <2>3, <2>4, <2>6, <2>7, <2>10, <3>1
  <2> QED BY <2>2, <2>7, <2>8, <2>9, <2>10
<1> QED BY <1>1, InitOrder, NextOrder, Inductive, CalmAlways, PTL DEF Spec
=============================================================================
