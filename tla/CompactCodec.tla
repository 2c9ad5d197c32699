------------------------------ MODULE CompactCodec ------------------------------
(***************************************************************************)
(* The format of compacted packets: what build_cpkt writes and what        *)
(* recv_tcp, recv_udp and recv_raw read, field by field.  A flow is        *)
(* established, so that its headers (the template) are known at both ends; *)
(* one packet at a time is compacted and restored.                         *)
(*                                                                         *)
(* Data are sequences of 16-bit words; a word is a name for its value, so  *)
(* that a field read in the place of another shows.                        *)
(***************************************************************************)
EXTENDS Integers, Sequences

CONSTANTS Bodies            \* payloads

ASSUME BodiesAssumption == Bodies \subseteq Seq(STRING)

VARIABLES
  pkt,                      \* the packet that xmit_compress was called with
  wire,                     \* what it sent
  out                       \* what recv_compress made of it

codecVars == <<pkt, wire, out>>

Nothing == [kind |-> "nothing"]

-----------------------------------------------------------------------------
(* IP packets: those of a TCP, a UDP and another flow, and those that are  *)
(* sent untouched.                                                         *)

Flags == {"urg", "syn", "fin", "psh", "rst", "ack"}

TcpPkts == [kind : {"tcp"}, flags : SUBSET Flags, body : Bodies]

UdpPkts == [kind : {"udp"}, body : Bodies]

\* A fragment, or a packet of another protocol: its flow is that of its IP id
\* (ipid: is it not 0?).  Those with id 0 are of another protocol and whole.
RawPkts ==
  [kind : {"raw"}, ipid : {TRUE}, mf : BOOLEAN, off : {"0", "off"}, body : Bodies]
    \cup [kind : {"raw"}, ipid : {FALSE}, mf : {FALSE}, off : {"0"}, body : Bodies]

\* First byte and header checksum of what goes to can_not_compact: IPv4 with
\* options, with a wrong checksum, and IPv6.
UntouchedPkts == [kind : {"untouched"}, byte : {70}, csumOk : {TRUE}]
            \cup [kind : {"untouched"}, byte : {69}, csumOk : {FALSE}]
            \cup [kind : {"untouched"}, byte : {96}, csumOk : BOOLEAN]

Controls == [kind : {"ctl"}, i : 1..3]

-----------------------------------------------------------------------------
(* compact.h: the first byte of a compacted packet. *)

FRM_CTL == 0
FRM_TCP == 1
FRM_UDP == 2
FRM_RAW == 3

SBit == 32                  \* CTYPE_TCP_SBIT, CTYPE_RAW_FBIT
ABit == 16                  \* CTYPE_TCP_ABIT, CTYPE_RAW_MFBIT
WBit == 8

Bit(i, b) == (i \div b) % 2 = 1

\* CTYPE_TCP_URG to CTYPE_TCP_URGPSH
Code(i) == i % 8

\* The chain of else-ifs keeps one flag; a segment with none has the code of
\* URG.
FlagCode(flags) ==
  LET base == IF "syn" \in flags THEN 1 ELSE IF "fin" \in flags THEN 2
              ELSE IF "psh" \in flags THEN 3 ELSE 0
  IN IF "urg" \in flags THEN (IF base = 0 THEN 0 ELSE base + 4)
     ELSE IF base = 3 THEN 4
     ELSE IF base = 0 /\ "rst" \in flags THEN 3 ELSE base

FlagsOf(code) ==
  CASE code \in {1, 5} -> {"syn"} [] code \in {2, 6} -> {"fin"}
    [] code \in {4, 7} -> {"psh"} [] code = 3 -> {"rst"} [] OTHER -> {}

If(c, s) == IF c THEN s ELSE <<>>

-----------------------------------------------------------------------------
(* build_cpkt and build_ctl. *)

Frame(t, i, data) == [kind |-> "frame", byte |-> 64 * t + i, data |-> data]

TcpData(p) ==
  <<"seq1", "seq2">> \o If("ack" \in p.flags, <<"ack1", "ack2">>) \o <<"window">>
    \o If("urg" \in p.flags, <<"urg_ptr">>) \o <<"check">> \o p.body

Has(c, bit) == IF c THEN bit ELSE 0

TcpFrame(p) ==
  Frame(FRM_TCP, FlagCode(p.flags) + SBit + WBit + Has("ack" \in p.flags, ABit),
        TcpData(p))

UdpFrame(p) == Frame(FRM_UDP, 0, <<"check">> \o p.body)

RawFrame(p) ==
  Frame(FRM_RAW, Has(p.off # "0", SBit) + Has(p.mf, ABit),
        If(p.off # "0", <<p.off>>) \o p.body)

\* An IP id of 0 sends build_cpkt past the branch of its flow.  Where the
\* protocol is neither TCP nor UDP ("never happen") no field is written, and the
\* type is what malloc left in the byte.
NeverHappenFrames == {Frame(t, 0, <<>>) : t \in 0..3}

NeverHappens(p) == p.kind = "raw" /\ ~p.ipid

Frames(p) ==
  CASE p.kind = "tcp" -> {TcpFrame(p)}
    [] p.kind = "udp" -> {UdpFrame(p)}
    [] p.kind = "raw" -> IF ~p.ipid THEN NeverHappenFrames ELSE {RawFrame(p)}
    [] p.kind = "ctl" -> {Frame(FRM_CTL, p.i, <<>>)}

-----------------------------------------------------------------------------
(* recv_tcp, recv_udp, recv_raw.  A frame shorter than its fields gives a  *)
(* negative length, which memcpy takes for nearly all memory.              *)

Crash == [kind |-> "crash"]

\* Mutation of HasUrg: one code late.
HasUrgLate(i) == Code(i) = 0 \/ Code(i) > 5

HasUrg(i) == Code(i) = 0 \/ Code(i) >= 5

\* A field that is not in the frame, here <<>>, is that of the template.
RecvTcp(i, d) ==
  LET ack == Has(Bit(i, SBit), 2)
      win == ack + Has(Bit(i, ABit), 2)
      urg == win + Has(Bit(i, WBit), 1)
      check == urg + Has(HasUrg(i), 1)
  IN IF check + 1 > Len(d) THEN Crash
     ELSE [kind |-> "tcp",
           seq |-> SubSeq(d, 1, ack),
           ack_seq |-> SubSeq(d, ack + 1, win),
           window |-> SubSeq(d, win + 1, urg),
           urg_ptr |-> SubSeq(d, urg + 1, check),
           check |-> d[check + 1],
           flags |-> FlagsOf(Code(i)) \cup {f \in {"ack"} : Bit(i, ABit)}
                       \cup {f \in {"urg"} : HasUrg(i)},
           body |-> SubSeq(d, check + 2, Len(d))]

RecvUdp(d) ==
  IF Len(d) < 1 THEN Crash
  ELSE [kind |-> "udp", check |-> d[1], body |-> Tail(d)]

RecvRaw(i, d) ==
  LET end == Has(Bit(i, SBit), 1)
  IN IF end > Len(d) THEN Crash
     ELSE [kind |-> "raw", off |-> IF end = 1 THEN d[1] ELSE "0",
           mf |-> Bit(i, ABit), body |-> SubSeq(d, end + 1, Len(d))]

-----------------------------------------------------------------------------
(* recv_compress. *)

LooksLikeIp(byte) == byte \div 16 = 4 /\ byte % 16 >= 5

\* What follows a failed assertion, or a frame that is too short.
RecvCtl(i) == IF i \in 1..3 THEN [kind |-> "ctl", i |-> i] ELSE Crash

\* A compacted packet or a control packet of this peer; its flow is known.
RecvFrame(w) ==
  LET i == w.byte % 64
  IN CASE w.byte \div 64 = FRM_CTL -> RecvCtl(i)
       [] w.byte \div 64 = FRM_TCP -> RecvTcp(i, w.data)
       [] w.byte \div 64 = FRM_UDP -> RecvUdp(w.data)
       [] w.byte \div 64 = FRM_RAW -> RecvRaw(i, w.data)

Ip == [kind |-> "ip"]

\* What an IP packet is when it is read as a compacted one.
Misread == {Crash, [kind |-> "garbled"]}

\* The outcomes; the checksum of a frame read as an IP header may come out
\* right by chance.
Outcomes(w) ==
  CASE w.kind = "frame" ->
         {RecvFrame(w)} \cup (IF LooksLikeIp(w.byte) THEN {Ip} ELSE {})
    [] w.kind = "untouched" ->
         IF LooksLikeIp(w.byte) /\ w.csumOk THEN {Ip} ELSE Misread

-----------------------------------------------------------------------------
CodecInit == pkt = Nothing /\ wire = Nothing /\ out = Nothing

XmitFrame ==
  /\ wire = Nothing
  /\ \E p \in TcpPkts \cup UdpPkts \cup RawPkts \cup Controls :
       /\ pkt' = p
       /\ wire' \in Frames(p)
  /\ out' = Nothing

XmitUntouched ==
  /\ wire = Nothing
  /\ \E p \in UntouchedPkts : pkt' = p /\ wire' = p
  /\ out' = Nothing

RecvCompress ==
  /\ wire # Nothing
  /\ out' \in Outcomes(wire)
  /\ wire' = Nothing
  /\ UNCHANGED pkt

CodecNext == XmitFrame \/ XmitUntouched \/ RecvCompress

CodecSpec == CodecInit /\ [][CodecNext]_codecVars

-----------------------------------------------------------------------------
Restored(kind) == pkt.kind = kind /\ out # Nothing

\* The flags that have a code: one of SYN, FIN and PSH with or without URG, or
\* RST, or URG alone.
Coded(flags) ==
  LET f == flags \ {"ack"}
  IN \/ \E g \in {"syn", "fin", "psh"} : f \in {{g}, {g, "urg"}}
     \/ f \in {{"rst"}, {"urg"}}

\* A TCP segment whose flags have a code arrives as it was: each field in its
\* place, the fields that are not sent left to the template, the rest payload.
TcpRestored ==
  Restored("tcp") /\ Coded(pkt.flags) =>
    out = [kind |-> "tcp", flags |-> pkt.flags, body |-> pkt.body, check |-> "check",
           seq |-> <<"seq1", "seq2">>, window |-> <<"window">>,
           ack_seq |-> If("ack" \in pkt.flags, <<"ack1", "ack2">>),
           urg_ptr |-> If("urg" \in pkt.flags, <<"urg_ptr">>)]

\* UDP packets and fragments arrive as they were, empty payloads included.
OthersRestored ==
  /\ Restored("udp") => out = [kind |-> "udp", check |-> "check", body |-> pkt.body]
  /\ Restored("raw") /\ pkt.ipid =>
       out = [kind |-> "raw", off |-> pkt.off, mf |-> pkt.mf, body |-> pkt.body]

\* Compacted and control packets share the link with plain IP packets; none is
\* taken for one, whatever its checksum.
NotTakenForIp == pkt.kind \in {"tcp", "udp", "raw", "ctl"} => out # Ip

\* What build_cpkt wrote, the peer reads back.
PacketsRestored == TcpRestored /\ OthersRestored /\ NotTakenForIp

\* recv_tcp on code 0: "do nothing(we have set)", the flag URG.  The receiver
\* sets it only where the sender had it, and reads no urgent pointer elsewhere.
UrgentWasSent ==
  Restored("tcp") /\ pkt.flags \ {"ack"} = {} =>
    out.kind = "tcp" /\ "urg" \notin out.flags

=============================================================================
