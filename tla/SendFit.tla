-------------------------------- MODULE SendFit ---------------------------------
(***************************************************************************)
(* How much of a message upper_send takes: fill_slices cuts it into slices *)
(* and the loop of upper_send drops the last of them until the stuffed     *)
(* frame fits the MTU; send_patch later puts the slices into frames of its *)
(* own.  Only lengths are kept, and how many bytes are escaped: a run of   *)
(* bytes in the slices, and some in the headers, whose checksums differ    *)
(* from frame to frame.                                                    *)
(***************************************************************************)
EXTENDS Integers

CONSTANTS
  MTU,                      \* LINK_MTU (1000)
  Hdr,                      \* FRM_MSG_HDR_LEN (18)
  SliceData,                \* SLICE_DATA_LEN (32)
  SliceLen,                 \* sizeof(slice_t) (36)
  Lengths,                  \* messages that upper_send is called with
  Edges,                    \* where runs of bytes to escape start and end
  CommonEscapes,            \* in the headers, for a number and a length
  DataEscapes,              \* for the checksums and lengths of a DATA frame
  PatchEscapes              \* for the checksums of a PATCH frame

ASSUME SizesAssumption ==
  /\ {MTU, Hdr, SliceData, SliceLen} \subseteq Nat
  /\ 0 < Hdr /\ 0 < SliceData /\ SliceData <= SliceLen /\ Hdr + SliceLen < MTU
  /\ Lengths \subseteq Nat \ {0} /\ Edges \subseteq Nat
  /\ CommonEscapes \cup DataEscapes \cup PatchEscapes \subseteq 0..Hdr

VARIABLES
  asked,                    \* msglen of the call
  msglen, n_slices,         \* what is left of it
  first, last,              \* bytes first..last - 1 of the slices are to escape
  common,                   \* header bytes to escape in DATA and PATCH alike
  pc,                       \* "call", "loop", "queued" or "given_up"
  patch                     \* slices that arrive whole in the last PATCH frame

fitVars == <<asked, msglen, n_slices, first, last, common, pc, patch>>

NoPatch == -1

\* MAX_SLICE_NUM, which sizes the receiver's bitmap.
MaxSlices == (MTU - Hdr) \div SliceLen

-----------------------------------------------------------------------------
Ceil(a, b) == (a + b - 1) \div b

Least(a, b) == IF a <= b THEN a ELSE b

\* fill_slices: a slice is started where there is room for its data.
FillSlices(len) ==
  Least(Ceil(len, SliceData), (MTU - Hdr - SliceData) \div SliceLen + 1)

FrameLen(n) == Hdr + n * SliceLen

\* How many of the first i bytes of a frame are escaped, hdr in its headers.
Escaped(i, hdr) ==
  (IF i > Hdr THEN hdr + Least(i - Hdr, last) - Least(i - Hdr, first) ELSE 0)

\* en_frame is out of room before byte i.
NoRoom(i, hdr) == 1 + i + Escaped(i, hdr) > MTU

\* en_frame: the bytes it takes before it is out of room, and whether it fits.
Used(len, hdr) ==
  CHOOSE i \in 0..len : (0 < i => ~NoRoom(i, hdr)) /\ (i < len => NoRoom(i + 1, hdr))

Fits(len, hdr) == 1 + len + Escaped(len, hdr) + 1 <= MTU

-----------------------------------------------------------------------------
FitInit ==
  /\ asked = 0 /\ msglen = 0 /\ n_slices = 0 /\ common = 0 /\ patch = NoPatch
  /\ first \in Edges /\ last \in {e \in Edges : first <= e}
  /\ pc = "call"

UpperSend(len) ==
  /\ pc = "call"
  /\ asked' = len
  /\ n_slices' = FillSlices(len)
  /\ msglen' = Least(len, SliceData * n_slices')
  /\ pc' = "loop"
  /\ UNCHANGED <<first, last, common, patch>>

\* Mutation of CutSlices: the length of the message is not cut with its slices.
CutSlicesOnly(cut) == n_slices' = n_slices - cut /\ UNCHANGED msglen

\* The tail slices that do not fit are dropped.
CutSlices(cut) ==
  /\ n_slices' = n_slices - cut
  /\ msglen' = SliceData * n_slices'

\* Mutation of CutFor: no slice for a remainder.
CutForFloor(len, used) == (len - used) \div SliceLen

CutFor(len, used) == (len - used + SliceData) \div SliceData

Accepted(len, hdr) == Fits(len, hdr)

\* One turn of the loop: the frame with all the slices is tried.
TryFrame(both, own) ==
  LET len == FrameLen(n_slices)
      hdr == both + own
      cut == CutFor(len, Used(len, hdr))
  IN /\ pc = "loop"
     /\ \/ /\ Accepted(len, hdr)
           /\ pc' = "queued" /\ common' = both
           /\ UNCHANGED <<n_slices, msglen>>
        \/ /\ ~Accepted(len, hdr) /\ n_slices - cut <= 0
           /\ pc' = "given_up"
           /\ UNCHANGED <<n_slices, msglen, common>>
        \/ /\ ~Accepted(len, hdr) /\ n_slices - cut > 0
           /\ CutSlices(cut)
           /\ UNCHANGED <<pc, common>>
     /\ UNCHANGED <<asked, first, last, patch>>

\* send_patch after an ACKP that asks for all slices: what arrives of the frame,
\* which is cut at the MTU if en_frame refused it.
SendPatch(own) ==
  LET len == FrameLen(n_slices)
      hdr == common + own
  IN /\ pc = "queued" /\ patch = NoPatch
     /\ patch' = IF Fits(len, hdr) THEN n_slices
                 ELSE (Used(len, hdr) - Hdr) \div SliceLen
     /\ UNCHANGED <<asked, msglen, n_slices, first, last, common, pc>>

Try == \E both \in CommonEscapes, own \in DataEscapes : TryFrame(both, own)

FitNext ==
  \/ \E len \in Lengths : UpperSend(len)
  \/ Try
  \/ \E own \in PatchEscapes : SendPatch(own)

FitSpec == FitInit /\ [][FitNext]_fitVars /\ WF_fitVars(Try)

-----------------------------------------------------------------------------
\* The slices never exceed the buffer they are written to, nor the bitmap the
\* receiver keeps of them (fill_slices, MAX_SLICE_NUM).
SlicesFit == FrameLen(n_slices) <= MTU /\ n_slices <= MaxSlices

\* What upper_send queues is a beginning of the message, all of it or whole
\* slices, and the length in the header is that of the slices.
QueuedIsPrefix ==
  pc = "queued" =>
    /\ 0 < msglen /\ msglen <= asked
    /\ n_slices = Ceil(msglen, SliceData)
    /\ msglen < asked => msglen = SliceData * n_slices

\* "can not fill any slice" is never reported: whatever is escaped, something of
\* the message fits.
NeverGivesUp == pc # "given_up"

\* The PATCH frames of a queued message make headway: at most its last slice is
\* lost to escapes in a header unlike that of the frame that was tried.
PatchLosesOne == patch # NoPatch => patch >= n_slices - 1 /\ patch >= 1

\* What upper_send queues fits the buffers, the bitmap and the link.
CutSound == SlicesFit /\ QueuedIsPrefix /\ NeverGivesUp /\ PatchLosesOne

\* The loop of upper_send ends.
LoopEnds == pc = "loop" ~> pc # "loop"

=============================================================================
