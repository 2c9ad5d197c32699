-------------------------------- MODULE Framing ---------------------------------
(***************************************************************************)
(* Byte stuffing on the link: en_frame puts data between two break bytes   *)
(* and escapes those within, de_frame takes it out again.  A frame that    *)
(* exceeds the LINK_MTU is queued cut short; the link may put bytes before *)
(* a frame or lose its end.                                                *)
(***************************************************************************)
EXTENDS Integers, Sequences, SequencesExt

CONSTANTS
  LINK_MTU,                 \* what a frame may take
  DataLen,                  \* bound on the bytes of data
  NoiseLen                  \* bound on the bytes before a frame

ASSUME FramingAssumption ==
  LINK_MTU \in Nat \ {0} /\ DataLen \in Nat /\ NoiseLen \in Nat

VARIABLES
  data,                     \* what the sender framed
  raw,                      \* the bytes on the link
  state,                    \* "none", "whole", "end_lost" or "queued_cut"
  got                       \* the outcome of de_frame

framingVars == <<data, raw, state, got>>

BREAK == "break"            \* 0xc0
ESC == "escape"             \* 0xdb, ESCAPE_CHAR and ESCAPE_ESCAPE
EBRK == "escaped_break"     \* 0xdc, ESCAPE_BREAK

Byte == {BREAK, ESC, EBRK, "other"}

NoFrame == [ret |-> "none"]

-----------------------------------------------------------------------------
\* Mutation of Escape: an escape byte is not escaped.
EscapeBreaksOnly(c) == IF c = BREAK THEN <<ESC, EBRK>> ELSE <<c>>

Escape(c) ==
  CASE c = BREAK -> <<ESC, EBRK>>
    [] c = ESC -> <<ESC, ESC>>
    [] OTHER -> <<c>>

\* What the first i bytes of d become, for each i.
Stuffed(d) ==
  LET before[i \in 0..Len(d)] ==
        IF i = 0 THEN <<>> ELSE before[i - 1] \o Escape(d[i])
  IN before

\* The bytes of d that go into a frame of that size: all, or those before the
\* first that does not fit.
Taken(d, size) ==
  CHOOSE i \in 0..Len(d) :
    /\ 0 < i => 1 + Len(Stuffed(d)[i]) <= size
    /\ i < Len(d) => 1 + Len(Stuffed(d)[i + 1]) > size

\* len is -1, or the length of frm.  The size is that of a buffer, at least 1.
EnFrame(d, size) ==
  LET body == <<BREAK>> \o Stuffed(d)[Taken(d, size)]
      fits == Taken(d, size) = Len(d) /\ Len(body) + 1 <= size
  IN [len |-> IF fits THEN Len(body) + 1 ELSE -1,
      frm |-> IF fits THEN Append(body, BREAK) ELSE body]

-----------------------------------------------------------------------------
\* de_frame: where it is in the frame, what it has stored in a buffer of cap.
Searching == [at |-> "search", buf |-> <<>>, ret |-> -1]

Stop(s, ret) == [at |-> "end", buf |-> s.buf, ret |-> ret]

Store(s, c, cap) ==
  IF Len(s.buf) + 1 > cap THEN Stop(s, -1)
  ELSE [at |-> "frame", buf |-> Append(s.buf, c), ret |-> s.ret]

DeByte(s, c, cap) ==
  CASE s.at = "end" -> s
    [] s.at = "search" -> IF c = BREAK THEN [s EXCEPT !.at = "frame"] ELSE s
    [] s.at = "frame" /\ c = BREAK -> Stop(s, 0)
    [] s.at = "frame" /\ c = ESC -> [s EXCEPT !.at = "escape"]
    [] s.at = "frame" /\ c \notin {BREAK, ESC} -> Store(s, c, cap)
    [] s.at = "escape" /\ c = EBRK -> Store(s, BREAK, cap)
    [] s.at = "escape" /\ c = ESC -> Store(s, ESC, cap)
    [] s.at = "escape" /\ c \notin {EBRK, ESC} -> Stop(s, -3)

\* Where de_frame is after each byte of a frame.
Reading(frm, cap) ==
  LET after[i \in 0..Len(frm)] ==
        IF i = 0 THEN Searching ELSE DeByte(after[i - 1], frm[i], cap)
  IN after

DeFrame(frm, cap) ==
  LET end == Reading(frm, cap)[Len(frm)]
  IN [ret |-> IF end.at = "escape" THEN -2 ELSE end.ret, buf |-> end.buf]

-----------------------------------------------------------------------------
FramingInit == data = <<>> /\ raw = <<>> /\ state = "none" /\ got = NoFrame

\* What en_frame refused is queued all the same: its -1 is 65535 in the u16
\* esc_len, and put_lower_send_list cuts that to the LINK_MTU.  What en_frame
\* did not write is whatever the buffer held.
Send(d) ==
  LET e == EnFrame(d, LINK_MTU)
  IN /\ state = "none"
     /\ data' = d
     /\ IF e.len >= 0
        THEN raw' = e.frm /\ state' = "whole"
        ELSE /\ \E rest \in [1..(LINK_MTU - Len(e.frm)) -> Byte] : raw' = e.frm \o rest
             /\ state' = "queued_cut"
     /\ got' = NoFrame

\* The link: bytes that are no break before the frame, or its end lost.
LinkNoise ==
  /\ state # "none" /\ Len(raw) > 0 /\ raw[1] = BREAK
  /\ \E m \in 1..NoiseLen : \E noise \in [1..m -> Byte \ {BREAK}] : raw' = noise \o raw
  /\ UNCHANGED <<data, state, got>>

LinkLosesEnd ==
  /\ state = "whole"
  /\ \E k \in 0..(Len(raw) - 1) : raw' = SubSeq(raw, 1, k)
  /\ state' = "end_lost"
  /\ UNCHANGED <<data, got>>

\* lower_put, which goes on with what de_frame has stored whatever it returned.
LowerPut ==
  /\ state # "none" /\ got = NoFrame
  /\ got' = DeFrame(raw, LINK_MTU)
  /\ UNCHANGED <<data, raw, state>>

NextFrame ==
  /\ got # NoFrame
  /\ data' = <<>> /\ raw' = <<>> /\ state' = "none" /\ got' = NoFrame

FramingNext ==
  \/ \E d \in BoundedSeq(Byte, DataLen) : Send(d)
  \/ got = NoFrame /\ (LinkNoise \/ LinkLosesEnd)
  \/ LowerPut \/ NextFrame

FramingSpec == FramingInit /\ [][FramingNext]_framingVars

-----------------------------------------------------------------------------
\* A frame that arrives whole gives back the data, breaks and escapes included,
\* and its status is success (en_frame, de_frame).
FrameRestored ==
  got # NoFrame /\ state = "whole" => got = [ret |-> 0, buf |-> data]

\* "continue trying to get some useful data": of a frame whose end is missing
\* lower_put goes on with a beginning of the data and never with other bytes;
\* one that was queued cut may end in one byte of its buffer's earlier use.
CutGivesPrefix ==
  got # NoFrame =>
    \/ state = "whole"
    \/ IsPrefix(got.buf, data)
    \/ state = "queued_cut" /\ got.buf # <<>> /\ IsPrefix(Front(got.buf), data)

\* What lower_put goes on with: the data, or a beginning where the end is missing.
DataRestored == FrameRestored /\ CutGivesPrefix
=============================================================================
