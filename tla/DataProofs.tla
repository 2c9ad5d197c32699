------------------------------ MODULE DataProofs ------------------------------
(***************************************************************************)
(* Proofs about the modules of data: the checksum of headers, byte         *)
(* stuffing, the sizes of frames, the bitmap of a session, the format of   *)
(* compacted packets, the clock of flows and the CRCs.                     *)
(***************************************************************************)
EXTENDS Csum, Framing, SendFit, Bitmap, FlowClock, CompactCodec, Crc,
        FiniteSetTheorems, SequenceTheorems, WellFoundedInduction, TLAPS

-----------------------------------------------------------------------------
(* Induction over the naturals, for sets: the induction of the library     *)
(* takes an operator, which the provers cannot be given.                   *)

LEMMA LeastNat ==
  ASSUME NEW T \in SUBSET Nat, T # {}
  PROVE  \E x \in T : \A y \in T : x <= y
<1>1. IsWellFoundedOn(OpToRel(<, Nat), Nat)
  BY NatLessThanWellFounded
<1>2. PICK x \in T : \A y \in T : ~(<<y, x>> \in OpToRel(<, Nat))
  BY <1>1, WFMin
<1>3. \A y \in T : ~(y < x)
  BY <1>2 DEF OpToRel
<1>4. x \in T
  BY <1>2
<1> HIDE DEF OpToRel
<1>5. \A y \in T : x <= y
  BY <1>3, <1>4
<1> QED
  BY <1>4, <1>5

LEMMA SetInduction ==
  ASSUME NEW S \in SUBSET Nat, 0 \in S, \A x \in S : x + 1 \in S
  PROVE  S = Nat
<1> SUFFICES ASSUME NEW z \in Nat, z \notin S
             PROVE  FALSE
  OBVIOUS
<1> DEFINE T == Nat \ S
<1>1. PICK x \in T : \A y \in T : x <= y
  <2>1. T \in SUBSET Nat /\ T # {}
    OBVIOUS
  <2> HIDE DEF T
  <2> QED
    BY <2>1, LeastNat
<1>2. x # 0 /\ x - 1 \in Nat /\ x - 1 \notin T
  BY <1>1
<1>3. x - 1 + 1 \in S
  BY <1>2
<1> QED
  BY <1>1, <1>3

LEMMA OneOf ==
  ASSUME NEW S, NEW x \in S
  PROVE  <<x>> \in Seq(S) /\ Len(<<x>>) = 1 /\ <<x>>[1] = x
OBVIOUS

LEMMA TwoOf ==
  ASSUME NEW S, NEW x \in S, NEW y \in S
  PROVE  <<x, y>> \in Seq(S) /\ Len(<<x, y>>) = 2
OBVIOUS

-----------------------------------------------------------------------------
(* Csum: what csum computes in 16 bits, for headers of any length that the *)
(* partial sum has room for.                                               *)

\* The width of the code's words, uint16_t.
Width16 == B = 65536

\* No sum of fewer than B words overflows, and a checksum is that of the words
\* that were added.
CsumInv ==
  /\ words \in 0..N
  /\ partial = total
  /\ total \in 0..(words * (B - 1))
  /\ check # NoCheck => check = CsumFinish(partial)

-----------------------------------------------------------------------------
\* One fold of a sum below 2^32: 0 comes out for the multiples of 65535 only.
LEMMA FoldIsExact ==
  ASSUME Width16, NEW s \in Nat, s < B * (B - 1)
  PROVE  CsumFinish(s) = 0 <=> OnesSum(s) = B - 1
BY SMTT(60) DEF Width16, CsumFinish, Complement, OnesSum

\* What is finished is a word.
LEMMA FinishWord ==
  ASSUME Width16, NEW s \in Nat
  PROVE  CsumFinish(s) \in Word
<1>1. (s % B) + (s \div B) \in Nat
  BY BAssumption
<1>2. ASSUME NEW t \in Nat
      PROVE  Complement(t) \in Word
  BY BAssumption DEF Complement, Word
<1> QED
  BY <1>1, <1>2 DEF CsumFinish

\* One fold lacks at most one carry.
LEMMA FoldIsNear ==
  ASSUME Width16, NEW s \in Nat, s < B * (B - 1)
  PROVE  CsumFinish(s) - (B - 1 - OnesSum(s)) \in {0, 1}
BY SMTT(60) DEF Width16, CsumFinish, Complement, OnesSum

LEMMA CsumInitInv == CsumInit => CsumInv
BY BAssumption, NAssumption DEF CsumInit, CsumInv

LEMMA CsumNextInv ==
  ASSUME Width16, CsumInv, [CsumNext]_csumVars
  PROVE  CsumInv'
<1>1. ASSUME NEW w \in Word, Continue(w)
      PROVE  CsumInv'
  <2>1. words + 1 \in 0..N
    BY <1>1, NAssumption DEF Continue, CsumInv
  <2>2. total + w \in 0..((words + 1) * (B - 1))
    BY <1>1 DEF Word, CsumInv, Width16
  <2>3. total + w < B * B
    <3>1. words + 1 <= 65535
      BY <2>1, NAssumption DEF Width16, CsumInv
    <3>2. total + w <= (words + 1) * 65535 /\ words \in Nat
      BY <2>2 DEF CsumInv, Width16
    <3>3. total + w <= 65535 * 65535
      BY <3>1, <3>2, <2>2 DEF CsumInv
    <3> QED
      BY <3>3, <2>2 DEF Width16, CsumInv
  <2>4. CsumAdd16(partial, w) = total + w
    BY <2>2, <2>3 DEF CsumAdd16, CsumInv, Width16
  <2> QED
    BY <1>1, <2>1, <2>2, <2>4 DEF Continue, CsumInv
<1>2. CASE Finish
  BY <1>2 DEF Finish, CsumInv
<1>3. CASE UNCHANGED csumVars
  BY <1>3 DEF csumVars, CsumInv
<1> QED
  BY <1>1, <1>2, <1>3 DEF CsumNext

LEMMA CsumSpecInv == ASSUME Width16 PROVE CsumSpec => []CsumInv
<1>1. CsumInit => CsumInv
  BY CsumInitInv
<1>2. CsumInv /\ [CsumNext]_csumVars => CsumInv'
  BY CsumNextInv
<1> QED
  BY <1>1, <1>2, PTL DEF CsumSpec

\* The sum that csum finishes is one that a single fold handles.
LEMMA CsumInvSum ==
  ASSUME Width16, CsumInv
  PROVE  total \in Nat /\ total < B * (B - 1)
<1>1. B - 1 = 65535 /\ words \in Nat /\ N \in Nat /\ words <= N
  BY NAssumption DEF CsumInv, Width16
<1>2. words * 65535 <= N * 65535
  BY <1>1
<1> QED
  BY <1>1, <1>2, NAssumption DEF CsumInv, Width16

-----------------------------------------------------------------------------
\* Types, the running sum within its 32 bits (csum_continue).
THEOREM CsumTypeCorrect == ASSUME Width16 PROVE CsumSpec => []CsumTypeOK
<1>1. CsumInv => CsumTypeOK
  <2> SUFFICES ASSUME CsumInv PROVE CsumTypeOK
    OBVIOUS
  <2>1. total < B * (B - 1)
    BY CsumInvSum
  <2>2. words * (B - 1) <= N * (B - 1)
    BY NAssumption DEF CsumInv, Width16
  <2>3. check \in Word \cup {NoCheck}
    BY CsumInvSum, FinishWord DEF CsumInv
  <2>4. words \in 0..N /\ partial = total
    BY DEF CsumInv
  <2>5. B * (B - 1) = 4294901760 /\ B * B = 4294967296
    BY DEF Width16
  <2>6. partial \in 0..(B * B - 1)
    BY <2>1, <2>4, <2>5, CsumInvSum
  <2>7. total \in 0..(N * (B - 1))
    BY <2>2, NAssumption DEF CsumInv, Width16
  <2> QED
    BY <2>3, <2>4, <2>6, <2>7 DEF CsumTypeOK
<1> QED
  BY <1>1, CsumSpecInv, PTL

\* csum's verdict at 16 bits is exact for headers of any length up to N words:
\* it is 0 for the right ones and for no other (xmit_compress, recv_compress).
THEOREM VerdictExact == ASSUME Width16 PROVE CsumSpec => []ZeroMeansRight
<1>1. CsumInv => ZeroMeansRight
  BY CsumInvSum, FoldIsExact DEF ZeroMeansRight, CsumInv
<1> QED
  BY <1>1, CsumSpecInv, PTL

\* The checksum csum computes at 16 bits is right or lacks one carry (recv_tcp,
\* recv_udp, recv_raw).
THEOREM CarryBounded == ASSUME Width16 PROVE CsumSpec => []AtMostOneCarryLost
<1>1. CsumInv => AtMostOneCarryLost
  BY CsumInvSum, FoldIsNear DEF AtMostOneCarryLost, CsumInv
<1> QED
  BY <1>1, CsumSpecInv, PTL

-----------------------------------------------------------------------------
(* FlowClock: whatever the number of flows, the interval and the width.    *)

\* A deadline is an int and lies at most the interval after the last use; it is
\* just that while the clock has the room.
ClockInv ==
  /\ now \in Nat /\ sweep \in {NotRunning} \cup 0..now
  /\ soft \in [Flows -> (-HALF)..(HALF - 1) \cup {Unknown}]
  /\ touched \in [Flows -> 0..now]
  /\ \A f \in Flows : soft[f] # Unknown => soft[f] = Deadline(touched[f])

\* What is cut to the width of an int never grows, and is kept where it fits.
LEMMA DeadlineBound ==
  ASSUME NEW t \in Nat
  PROVE  /\ Deadline(t) \in (-HALF)..(HALF - 1)
         /\ Deadline(t) <= t + INTERVAL
         /\ t + INTERVAL < HALF => Deadline(t) = t + INTERVAL
<1> DEFINE u == t + INTERVAL + HALF
<1>1. u \in Nat /\ 2 * HALF \in Nat \ {0}
  BY WidthAssumption
<1>2. u % (2 * HALF) \in 0..(2 * HALF - 1) /\ u % (2 * HALF) <= u
  BY <1>1
<1>3. u < 2 * HALF => u % (2 * HALF) = u
  BY <1>1
<1> QED
  BY <1>2, <1>3, WidthAssumption DEF Deadline

LEMMA ClockNextInv ==
  ASSUME ClockInv, [ClockNext]_clockVars
  PROVE  ClockInv'
<1>1. CASE Tick
  BY <1>1 DEF Tick, ClockInv, Deadline
<1>2. ASSUME NEW f \in Flows, Touch(f)
      PROVE  ClockInv'
  <2>1. Deadline(now) \in (-HALF)..(HALF - 1)
    BY DeadlineBound DEF ClockInv
  <2>2. /\ soft' \in [Flows -> (-HALF)..(HALF - 1) \cup {Unknown}]
        /\ touched' \in [Flows -> 0..now]
    BY <1>2, <2>1 DEF Touch, ClockInv
  <2>3. ASSUME NEW g \in Flows, soft'[g] # Unknown
        PROVE  soft'[g] = Deadline(touched'[g])
    BY <1>2, <2>3 DEF Touch, ClockInv
  <2> QED
    BY <1>2, <2>2, <2>3 DEF Touch, ClockInv, Deadline
<1>3. CASE TimerStart
  BY <1>3 DEF TimerStart, ClockInv, Deadline
<1>4. CASE TimerEvent
  <2>1. soft' \in [Flows -> (-HALF)..(HALF - 1) \cup {Unknown}]
    BY <1>4 DEF TimerEvent, ClockInv
  <2>2. ASSUME NEW g \in Flows, soft'[g] # Unknown
        PROVE  soft'[g] = Deadline(touched'[g])
    BY <1>4, <2>2 DEF TimerEvent, ClockInv, Deadline
  <2> QED
    BY <1>4, <2>1, <2>2 DEF TimerEvent, ClockInv
<1>5. CASE UNCHANGED clockVars
  BY <1>5 DEF clockVars, ClockInv, Deadline
<1> QED
  BY <1>1, <1>2, <1>3, <1>4, <1>5 DEF ClockNext

LEMMA ClockSpecInv == ClockSpec => []ClockInv
<1>1. ClockInit => ClockInv
  BY DEF ClockInit, ClockInv
<1> QED
  BY <1>1, ClockNextInv, PTL DEF ClockSpec

\* What a pass of timer_event keeps and forgets.
LEMMA TimerForgets ==
  ASSUME ClockInv, TimerEvent
  PROVE  ForgetsEveryIdle /\ (now < HALF - INTERVAL => ForgetsIdleOnly)
<1>1. ASSUME NEW f \in Flows, soft'[f] # Unknown
      PROVE  touched[f] + INTERVAL > sweep
  <2>1. soft[f] # Unknown /\ sweep < soft[f] /\ soft[f] = Deadline(touched[f])
    BY <1>1 DEF TimerEvent, ClockInv
  <2>2. touched[f] \in Nat /\ soft[f] <= touched[f] + INTERVAL
    BY <2>1, DeadlineBound DEF ClockInv
  <2> QED
    BY <2>1, <2>2, WidthAssumption DEF ClockInv, TimerEvent
<1>2. ASSUME NEW f \in Flows, Forgotten(f), now < HALF - INTERVAL
      PROVE  now - touched[f] >= INTERVAL
  <2>1. soft[f] = Deadline(touched[f]) /\ ~(sweep < soft[f])
    BY <1>2 DEF Forgotten, TimerEvent, ClockInv
  <2>2. touched[f] \in 0..now /\ now \in Nat
    BY DEF ClockInv
  <2>3. soft[f] = touched[f] + INTERVAL
    BY <1>2, <2>1, <2>2, DeadlineBound, WidthAssumption
  <2> QED
    BY <2>1, <2>2, <2>3, WidthAssumption DEF ClockInv, TimerEvent
<1>3. ForgetsEveryIdle
  BY <1>1 DEF ForgetsEveryIdle, TimerEvent
<1>4. now < HALF - INTERVAL => ForgetsIdleOnly
  BY <1>2 DEF ForgetsIdleOnly
<1> QED
  BY <1>3, <1>4

\* timer_event forgets the idle flows in one pass, and forgets no other as long
\* as now + SOFT_TIMEOUT_INTERVAL fits an int.
THEOREM TimerForgetsIdle == ClockSpec => ForgottenInTime
<1>1. ASSUME ClockInv, [ClockNext]_clockVars
      PROVE  [ForgetsEveryIdle /\ (now < HALF - INTERVAL => ForgetsIdleOnly)]_clockVars
  <2>1. CASE TimerEvent
    BY <2>1, <1>1, TimerForgets
  <2>2. CASE Tick
    BY <2>2 DEF Tick, ForgetsEveryIdle, ForgetsIdleOnly, Forgotten
  <2>3. ASSUME NEW f \in Flows, Touch(f)
        PROVE  ForgetsEveryIdle /\ ForgetsIdleOnly
    <3>1. Deadline(now) # Unknown
      BY <1>1, DeadlineBound, WidthAssumption DEF ClockInv, Unknown
    <3>2. \A g \in Flows : soft'[g] = Unknown => soft[g] = Unknown
      BY <1>1, <2>3, <3>1 DEF Touch, ClockInv
    <3> QED
      BY <2>3, <3>2 DEF Touch, ForgetsEveryIdle, ForgetsIdleOnly, Forgotten
  <2>4. CASE TimerStart
    BY <2>4, <1>1 DEF TimerStart, ForgetsEveryIdle, ForgetsIdleOnly, Forgotten
  <2>5. CASE UNCHANGED clockVars
    BY <2>5
  <2> QED
    BY <1>1, <2>1, <2>2, <2>3, <2>4, <2>5 DEF ClockNext
<1> QED
  BY <1>1, ClockSpecInv, PTL DEF ClockSpec, ForgottenInTime

-----------------------------------------------------------------------------
(* SendFit: at the sizes of split.h, for messages of any length and any    *)
(* run of bytes to escape.                                                 *)

Slices32 == MTU = 1000 /\ Hdr = 18 /\ SliceData = 32 /\ SliceLen = 36

\* The other size that split.h has for a slice.
Slices950 == MTU = 1000 /\ Hdr = 18 /\ SliceData = 950 /\ SliceLen = 954

LEMMA EscapedBounds ==
  ASSUME NEW j \in Nat, NEW hdr \in Nat,
         first \in Nat, last \in Nat, first <= last
  PROVE  /\ Escaped(j, hdr) \in Nat
         /\ j > Hdr => Escaped(j, hdr) <= hdr + j - Hdr
         /\ j <= Hdr => Escaped(j, hdr) = 0
BY SizesAssumption DEF Escaped, Least

\* A header with more to escape has that many bytes more.
LEMMA EscapedHeader ==
  ASSUME NEW i \in Nat, NEW j \in Nat, i <= j, NEW hdr \in Nat, NEW more \in Nat,
         hdr <= more, first \in Nat, last \in Nat, first <= last, i > Hdr
  PROVE  Escaped(i, more) <= Escaped(j, hdr) + more - hdr
BY SizesAssumption DEF Escaped, Least

\* en_frame stops after all bytes, or where it is out of room.
LEMMA UsedIs ==
  ASSUME NEW len \in Nat, NEW hdr \in Nat,
         first \in Nat, last \in Nat, first <= last
  PROVE  /\ Used(len, hdr) \in 0..len
         /\ 0 < Used(len, hdr) => ~NoRoom(Used(len, hdr), hdr)
         /\ Used(len, hdr) < len => NoRoom(Used(len, hdr) + 1, hdr)
<1> DEFINE T == {i \in 1..(len + 1) : i = len + 1 \/ NoRoom(i, hdr)}
<1>1. PICK x \in T : \A y \in T : x <= y
  <2>1. T \in SUBSET Nat /\ len + 1 \in T
    OBVIOUS
  <2> HIDE DEF T
  <2> QED
    BY <2>1, LeastNat
<1>2. /\ x - 1 \in 0..len
      /\ 0 < x - 1 => ~NoRoom(x - 1, hdr)
      /\ x - 1 < len => NoRoom(x - 1 + 1, hdr)
  <2>1. x \in 1..(len + 1) /\ x - 1 + 1 = x
    BY <1>1
  <2>2. x - 1 \notin T
    BY <1>1
  <2> QED
    BY <1>1, <2>1, <2>2
<1> HIDE DEF T
<1> QED
  BY <1>2 DEF Used

-----------------------------------------------------------------------------
FitTypes ==
  /\ asked \in Nat /\ msglen \in Nat /\ n_slices \in Nat /\ common \in 0..Hdr
  /\ first \in Nat /\ last \in Nat /\ first <= last
  /\ pc \in {"call", "loop", "queued", "given_up"}
  /\ pc = "call" => n_slices = 0 /\ patch = NoPatch

\* What is left of the message is a beginning of it, cut into slices.
CutInv ==
  pc # "call" =>
    /\ 0 < msglen /\ msglen <= asked /\ n_slices = Ceil(msglen, SliceData)
    /\ msglen < asked => msglen = SliceData * n_slices
    /\ n_slices <= MaxSlices

LEMMA FitInitInv == FitInit => FitTypes /\ CutInv
BY SizesAssumption DEF FitInit, FitTypes, CutInv

LEMMA UpperSendInv ==
  ASSUME FitTypes, NEW len \in Lengths, UpperSend(len), Slices32 \/ Slices950
  PROVE  FitTypes' /\ CutInv'
<1>1. len \in Nat \ {0}
  BY SizesAssumption
<1>2. CASE Slices32
  BY <1>1, <1>2, SMTT(30)
  DEF FitTypes, CutInv, UpperSend, FillSlices, Least, Ceil, MaxSlices, Slices32
<1>3. CASE Slices950
  BY <1>1, <1>3, SMTT(30)
  DEF FitTypes, CutInv, UpperSend, FillSlices, Least, Ceil, MaxSlices, Slices950
<1> QED
  BY <1>2, <1>3

\* Bytes that en_frame did not take cost at least one slice.
LEMMA CutPositive ==
  ASSUME FitTypes, Slices32 \/ Slices950, NEW hdr \in Nat
  PROVE  /\ CutFor(FrameLen(n_slices), Used(FrameLen(n_slices), hdr)) \in Nat \ {0}
<1>1. FrameLen(n_slices) \in Nat
  BY DEF FrameLen, FitTypes, Slices32, Slices950
<1>2. Used(FrameLen(n_slices), hdr) \in 0..FrameLen(n_slices)
  BY <1>1, UsedIs DEF FitTypes
<1> HIDE DEF Used, FrameLen
<1> QED
  BY <1>1, <1>2 DEF CutFor, Slices32, Slices950

LEMMA TryFrameInv ==
  ASSUME FitTypes, CutInv, NEW both \in CommonEscapes, NEW own \in DataEscapes,
         TryFrame(both, own), Slices32 \/ Slices950
  PROVE  FitTypes' /\ CutInv'
<1> DEFINE len == FrameLen(n_slices)
           cut == CutFor(len, Used(len, both + own))
<1>1. both \in 0..Hdr /\ own \in 0..Hdr /\ Hdr \in Nat /\ both + own \in Nat
  BY SizesAssumption
<1>2. cut \in Nat \ {0}
  BY <1>1, CutPositive
<1>3. /\ pc = "loop" /\ UNCHANGED <<asked, first, last, patch>>
      /\ \/ /\ Accepted(len, both + own)
            /\ pc' = "queued" /\ common' = both
            /\ UNCHANGED <<n_slices, msglen>>
         \/ /\ ~Accepted(len, both + own) /\ n_slices - cut <= 0
            /\ pc' = "given_up"
            /\ UNCHANGED <<n_slices, msglen, common>>
         \/ /\ ~Accepted(len, both + own) /\ n_slices - cut > 0
            /\ CutSlices(cut)
            /\ UNCHANGED <<pc, common>>
  BY DEF TryFrame
<1> HIDE DEF cut, len
<1>4. CASE UNCHANGED <<n_slices, msglen>>
  BY <1>1, <1>3, <1>4 DEF FitTypes, CutInv, CutSlices, Ceil, MaxSlices
<1>5. CASE n_slices - cut > 0 /\ CutSlices(cut) /\ UNCHANGED <<pc, common>>
  <2>1. /\ n_slices' = n_slices - cut /\ n_slices' \in Nat \ {0} /\ n_slices' < n_slices
        /\ msglen' = SliceData * n_slices'
    BY <1>2, <1>5 DEF CutSlices, FitTypes
  <2>2. CASE Slices32
    BY <1>3, <1>5, <2>1, <2>2 DEF FitTypes, CutInv, Ceil, MaxSlices, Slices32
  <2>3. CASE Slices950
    BY <1>3, <1>5, <2>1, <2>3 DEF FitTypes, CutInv, Ceil, MaxSlices, Slices950
  <2> QED
    BY <2>2, <2>3
<1> QED
  BY <1>3, <1>4, <1>5

LEMMA SendPatchInv ==
  ASSUME FitTypes, CutInv, NEW own \in PatchEscapes, SendPatch(own)
  PROVE  FitTypes' /\ CutInv'
BY DEF SendPatch, FitTypes, CutInv, Ceil, MaxSlices

LEMMA FitNextInv ==
  ASSUME FitTypes, CutInv, [FitNext]_fitVars, Slices32 \/ Slices950
  PROVE  FitTypes' /\ CutInv'
<1>1. CASE UNCHANGED fitVars
  BY <1>1 DEF fitVars, FitTypes, CutInv, Ceil, MaxSlices
<1> QED
  BY <1>1, UpperSendInv, TryFrameInv, SendPatchInv DEF FitNext, Try

LEMMA FitSpecInv ==
  ASSUME Slices32 \/ Slices950
  PROVE  FitSpec => [](FitTypes /\ CutInv)
<1>1. FitTypes /\ CutInv /\ [FitNext]_fitVars => (FitTypes /\ CutInv)'
  BY FitNextInv
<1> QED
  BY <1>1, FitInitInv, PTL DEF FitSpec

LEMMA CutInvSound ==
  ASSUME FitTypes, CutInv, Slices32 \/ Slices950
  PROVE  SlicesFit /\ QueuedIsPrefix
BY DEF FitTypes, CutInv, SlicesFit, QueuedIsPrefix, FrameLen, MaxSlices,
       Slices32, Slices950

\* With slices of 950 bytes, too, the slices keep within their buffer and what is
\* queued is a beginning of the message (fill_slices, upper_send).
THEOREM BigSlicesCut ==
  ASSUME Slices950
  PROVE  FitSpec => [](SlicesFit /\ QueuedIsPrefix)
<1>1. FitTypes /\ CutInv => SlicesFit /\ QueuedIsPrefix
  BY CutInvSound
<1> QED
  BY <1>1, FitSpecInv, PTL

-----------------------------------------------------------------------------
\* What was queued had room with the headers it was tried with.
PatchInv ==
  /\ NeverGivesUp /\ PatchLosesOne
  /\ pc = "queued" => \E own \in DataEscapes : Fits(FrameLen(n_slices), common + own)
  /\ patch # NoPatch => pc = "queued"

\* Half of the bytes that do not fit are no data: there is always room for some.
LEMMA SomethingFits ==
  ASSUME Slices32, FitTypes, CutInv, pc = "loop", NEW hdr \in 0..36,
         ~Fits(FrameLen(n_slices), hdr)
  PROVE  n_slices - CutFor(FrameLen(n_slices), Used(FrameLen(n_slices), hdr)) > 0
<1> DEFINE len == FrameLen(n_slices)
           used == Used(len, hdr)
<1>1. n_slices \in 1..27 /\ len = 18 + 36 * n_slices /\ len \in Nat /\ hdr \in Nat
  BY DEF Slices32, FitTypes, CutInv, MaxSlices, Ceil, FrameLen
<1>2. used \in 0..len /\ (used < len => NoRoom(used + 1, hdr))
  BY <1>1, UsedIs DEF FitTypes
<1> HIDE DEF used, len
<1>3. Escaped(len, hdr) <= hdr + len - 18 /\ Escaped(len, hdr) \in Nat
  <2>1. len \in Nat /\ len > Hdr /\ Hdr = 18
    BY <1>1 DEF Slices32
  <2>2. first \in Nat /\ last \in Nat /\ first <= last
    BY DEF FitTypes
  <2> QED
    BY <1>1, <2>1, <2>2, EscapedBounds
<1>4. 2 * len + hdr > 1016
  BY <1>1, <1>3 DEF Fits, Slices32, len
<1>5. used < len => 2 * used + hdr > 1014
  <2> SUFFICES ASSUME used < len
               PROVE  2 * used + hdr > 1014
    OBVIOUS
  <2>1. 1 + (used + 1) + Escaped(used + 1, hdr) > 1000
    BY <1>2 DEF NoRoom, Slices32
  <2>2. /\ used + 1 \in Nat /\ Escaped(used + 1, hdr) \in Nat
        /\ used + 1 > 18 => Escaped(used + 1, hdr) <= hdr + used + 1 - 18
        /\ used + 1 <= 18 => Escaped(used + 1, hdr) = 0
    BY <1>1, <1>2, EscapedBounds DEF FitTypes, Slices32
  <2> QED
    BY <1>1, <1>2, <2>1, <2>2
<1>6. n_slices - CutFor(len, used) > 0
  BY <1>1, <1>2, <1>4, <1>5, SMTT(30) DEF CutFor, Slices32
<1> QED
  BY <1>6 DEF len, used

\* A header with more to escape than that of the frame which fitted costs less than
\* a slice.
LEMMA PatchNearlyWhole ==
  ASSUME Slices32, FitTypes, CutInv, pc = "queued", NEW hdr \in 0..36, NEW more \in 0..36,
         more <= hdr + 18, Fits(FrameLen(n_slices), hdr), ~Fits(FrameLen(n_slices), more)
  PROVE  /\ (Used(FrameLen(n_slices), more) - Hdr) \div SliceLen >= n_slices - 1
         /\ n_slices > 1
         /\ (Used(FrameLen(n_slices), more) - Hdr) \div SliceLen \in Int
<1> DEFINE len == FrameLen(n_slices)
           used == Used(len, more)
<1>1. /\ n_slices \in 1..27 /\ len = 18 + 36 * n_slices /\ len \in Nat
      /\ hdr \in Nat /\ more \in Nat
  BY DEF Slices32, FitTypes, CutInv, MaxSlices, Ceil, FrameLen
<1>2. used \in 0..len /\ (used < len => NoRoom(used + 1, more))
  BY <1>1, UsedIs DEF FitTypes
<1>3. /\ 1 + len + Escaped(len, hdr) + 1 <= 1000
      /\ ~(1 + len + Escaped(len, more) + 1 <= 1000)
  BY DEF Fits, Slices32
<1> HIDE DEF used, len
<1>4. Escaped(len, more) <= more + len - 18 /\ Escaped(len, more) \in Nat
  <2>1. len \in Nat /\ len > Hdr /\ Hdr = 18
    BY <1>1 DEF Slices32
  <2>2. first \in Nat /\ last \in Nat /\ first <= last
    BY DEF FitTypes
  <2> QED
    BY <1>1, <2>1, <2>2, EscapedBounds
<1>5. hdr < more
  <2>1. hdr >= more => Escaped(len, hdr) >= Escaped(len, more)
    BY <1>1, SizesAssumption DEF Escaped, Least, FitTypes, Slices32
  <2> QED
    BY <1>1, <1>3, <2>1, EscapedBounds DEF FitTypes
<1>6. n_slices > 1
  BY <1>1, <1>3, <1>4
<1>7. used < len => used >= len - 18
  <2> SUFFICES ASSUME used < len
               PROVE  used >= len - 18
    OBVIOUS
  <2>1. 1 + (used + 1) + Escaped(used + 1, more) > 1000
    BY <1>2 DEF NoRoom, Slices32
  <2>2. CASE used + 1 <= 18
    <3>1. Escaped(used + 1, more) = 0
      BY <1>1, <1>2, <2>2, EscapedBounds DEF FitTypes, Slices32
    <3> QED
      BY <1>1, <1>2, <2>1, <2>2, <3>1
  <2>3. CASE used + 1 > 18
    <3>0. first \in Nat /\ last \in Nat /\ first <= last /\ Hdr = 18
      BY DEF FitTypes, Slices32
    <3>1. used + 1 \in Nat /\ len \in Nat /\ used + 1 <= len /\ used + 1 > Hdr
      BY <1>1, <1>2, <2>3, <3>0
    <3>2. Escaped(used + 1, more) <= Escaped(len, hdr) + more - hdr
      BY <1>1, <1>5, <3>0, <3>1, EscapedHeader
    <3>3. Escaped(len, hdr) \in Nat /\ Escaped(used + 1, more) \in Nat
      BY <1>1, <3>0, <3>1, EscapedBounds
    <3> QED
      BY <1>1, <1>2, <1>3, <2>1, <3>2, <3>3
  <2> QED
    BY <1>2, <2>2, <2>3
<1>8. (used - 18) \div 36 >= n_slices - 1 /\ (used - 18) \div 36 \in Int
  BY <1>1, <1>2, <1>7
<1> QED
  BY <1>6, <1>8 DEF used, len, Slices32

LEMMA PatchNextInv ==
  ASSUME FitTypes, CutInv, PatchInv, [FitNext]_fitVars, Slices32
  PROVE  PatchInv'
<1> USE DEF PatchInv, NeverGivesUp, PatchLosesOne
<1>1. ASSUME NEW len \in Lengths, UpperSend(len)
      PROVE  PatchInv'
  BY <1>1 DEF UpperSend, FitTypes
<1>2. ASSUME NEW both \in CommonEscapes, NEW own \in DataEscapes, TryFrame(both, own)
      PROVE  PatchInv'
  <2>1. both + own \in 0..36 /\ pc = "loop" /\ patch = NoPatch /\ patch' = patch
    BY <1>2, SizesAssumption DEF TryFrame, Slices32
  <2>2. CASE /\ Fits(FrameLen(n_slices), both + own)
             /\ pc' = "queued" /\ common' = both
             /\ UNCHANGED <<n_slices, msglen, first, last>>
    <3>1. Fits(FrameLen(n_slices), common + own)'
      BY <2>2 DEF Fits, FrameLen, Escaped
    <3> QED
      BY <2>1, <2>2, <3>1
  <2>3. CASE ~Fits(FrameLen(n_slices), both + own)
    <3> DEFINE cut == CutFor(FrameLen(n_slices), Used(FrameLen(n_slices), both + own))
    <3>1. n_slices - cut > 0
      BY <2>1, <2>3, SomethingFits
    <3>2. cut \in Nat /\ n_slices \in Nat
      BY <2>1, CutPositive DEF FitTypes
    <3>3. pc' = "loop"
      <4>1. ~Accepted(FrameLen(n_slices), both + own)
        BY <2>3 DEF Accepted
      <4>2. n_slices - cut <= 0 \/ UNCHANGED pc
        BY <1>2, <4>1 DEF TryFrame
      <4> HIDE DEF cut
      <4> QED
        BY <2>1, <3>1, <3>2, <4>2
    <3> QED
      BY <2>1, <3>3
  <2> QED
    BY <1>2, <2>2, <2>3 DEF TryFrame, Accepted
<1>3. ASSUME NEW own \in PatchEscapes, SendPatch(own)
      PROVE  PatchInv'
  <2> DEFINE len == FrameLen(n_slices)
  <2>1. PICK tried \in DataEscapes : Fits(len, common + tried)
    BY <1>3 DEF SendPatch
  <2>2. /\ common + tried \in 0..36 /\ common + own \in 0..36
        /\ common + own <= common + tried + 18
    BY SizesAssumption DEF FitTypes, Slices32
  <2>3. pc = "queued" /\ pc' = "queued" /\ n_slices \in Nat \ {0} /\ n_slices' = n_slices
    BY <1>3 DEF SendPatch, FitTypes, CutInv, Ceil, Slices32
  <2>4. patch' >= n_slices - 1 /\ patch' >= 1
    <3>1. CASE Fits(len, common + own)
      BY <1>3, <2>3, <3>1 DEF SendPatch
    <3>2. CASE ~Fits(len, common + own)
      <4>1. /\ (Used(len, common + own) - Hdr) \div SliceLen >= n_slices - 1
            /\ n_slices > 1
            /\ (Used(len, common + own) - Hdr) \div SliceLen \in Int
        BY <2>1, <2>2, <2>3, <3>2, PatchNearlyWhole
      <4>2. patch' = (Used(len, common + own) - Hdr) \div SliceLen
        BY <1>3, <3>2 DEF SendPatch
      <4> HIDE DEF len
      <4> QED
        BY <2>3, <4>1, <4>2
    <3> QED
      BY <3>1, <3>2
  <2>5. Fits(len, common + tried)'
    BY <1>3, <2>1 DEF SendPatch, Fits, FrameLen, Escaped
  <2> QED
    BY <2>3, <2>4, <2>5
<1>4. CASE UNCHANGED fitVars
  BY <1>4 DEF fitVars, Fits, FrameLen, Escaped
<1> QED
  BY <1>1, <1>2, <1>3, <1>4 DEF FitNext, Try

\* At the sizes of split.h, for messages of any length and any bytes to escape:
\* what upper_send queues fits the buffer, the bitmap and the link and is a
\* beginning of the message, something always fits, and a PATCH frame of
\* send_patch lacks at most its last slice.
THEOREM MessagesCutSoundly ==
  ASSUME Slices32
  PROVE  FitSpec => []CutSound
<1>1. FitInit => PatchInv
  BY DEF FitInit, PatchInv, NeverGivesUp, PatchLosesOne
<1>2. FitTypes /\ CutInv /\ PatchInv /\ [FitNext]_fitVars => PatchInv'
  BY PatchNextInv
<1>3. FitTypes /\ CutInv /\ PatchInv => CutSound
  BY CutInvSound DEF CutSound, PatchInv
<1> QED
  BY <1>1, <1>2, <1>3, FitSpecInv, PTL DEF FitSpec

-----------------------------------------------------------------------------
(* Bitmap: for words of any width and messages of any number of slices.    *)

\* A slice number is that of a word and of a bit in it.
LEMMA WordAndBit ==
  ASSUME NEW j \in Nat
  PROVE  /\ j \div W \in Nat /\ j % W \in 0..(W - 1) /\ (j \div W) * W + (j % W) = j
BY WAssumption

LEMMA OneWordOneBit ==
  ASSUME NEW x \in Nat, NEW b \in 0..(W - 1)
  PROVE  (x * W + b) \div W = x /\ (x * W + b) % W = b /\ x * W + b \in Nat
BY WAssumption

LEMMA WordsOrdered ==
  ASSUME NEW i \in Nat, NEW j \in Nat, i < j
  PROVE  i \div W <= j \div W /\ (i \div W = j \div W => i % W < j % W)
BY WAssumption, WordAndBit

\* The words before that of n hold slices below n.
LEMMA WordBefore ==
  ASSUME NEW x \in Nat, NEW j \in Nat, x < j \div W, NEW b \in 0..(W - 1)
  PROVE  x * W + b < j
<1>1. x + 1 <= j \div W /\ j \div W \in Nat /\ W \in Nat
  BY WordAndBit, WAssumption
<1>2. (x + 1) * W <= (j \div W) * W
  BY <1>1
<1>3. (x + 1) * W = x * W + W /\ x * W \in Nat
  BY <1>1
<1> QED
  BY <1>1, <1>2, <1>3, WordAndBit

LEMMA WordsSuffice ==
  ASSUME NEW j \in 0..MAX_SLICE_NUM
  PROVE  j \div W \in WordsOf /\ BITMAP32_SIZE \in Nat
<1>1. BITMAP32_SIZE = MAX_SLICE_NUM \div W + 1
  BY WAssumption DEF BITMAP32_SIZE
<1>2. j \div W <= MAX_SLICE_NUM \div W
  BY WAssumption
<1>3. j \div W \in Nat /\ MAX_SLICE_NUM \div W \in Nat
  BY WAssumption, WordAndBit
<1> QED
  BY <1>1, <1>2, <1>3 DEF WordsOf

-----------------------------------------------------------------------------
\* The words hold the bits of the slices that have come, and no other.
BitsInv ==
  /\ rse_n_slices \in 1..MAX_SLICE_NUM /\ received \subseteq 0..rse_n_slices
  /\ bitmap = [x \in WordsOf |-> {b \in 0..(W - 1) : x * W + b \in received}]

\* What the loop of send_ack has listed when it goes on at next_k.
ListInv ==
  /\ ack \in {"none", "listing", "ACKP", "ACKA"}
  /\ missing \in Seq(0..(MAX_SLICE_NUM - 1)) /\ next_k \in 0..MAX_SLICE_NUM
  /\ ack \in {"listing", "ACKP"} =>
       /\ next_k <= rse_n_slices
       /\ {missing[i] : i \in 1..Len(missing)} = 0..(next_k - 1) \ received
       /\ \A i \in 1..(Len(missing) - 1) : missing[i] < missing[i + 1]
       /\ IF missing = <<>> THEN next_k = 0 ELSE next_k = missing[Len(missing)] + 1
  /\ ack = "ACKP" => next_k # 0 /\ next_k..(rse_n_slices - 1) \subseteq received
  /\ ack = "ACKA" => Whole \subseteq received

LEMMA BitMeansReceived ==
  ASSUME BitsInv, NEW j \in 0..rse_n_slices
  PROVE  Holds(bitmap, j) <=> j \in received
<1>1. j \in 0..MAX_SLICE_NUM /\ j \in Nat
  BY WAssumption DEF BitsInv
<1>2. j \div W \in WordsOf /\ j % W \in 0..(W - 1) /\ (j \div W) * W + (j % W) = j
  BY <1>1, WordsSuffice, WordAndBit
<1>3. bitmap[j \div W] = {b \in 0..(W - 1) : (j \div W) * W + b \in received}
  BY <1>2 DEF BitsInv
<1> QED
  BY <1>2, <1>3 DEF Holds

\* Every slice has come, and a number that is no slice has not where its bit is in
\* the last word.
LEMMA AllSetMeans ==
  ASSUME BitsInv
  PROVE  TestAllBitsSet(bitmap, rse_n_slices) <=>
           Whole \subseteq received /\ (rse_n_slices % W # 0 => rse_n_slices \notin received)
<1> DEFINE n == rse_n_slices
           x == n \div W
           t == n % W
<1>1. n \in Nat /\ n \in 0..MAX_SLICE_NUM /\ W \in Nat \ {0}
  BY WAssumption DEF BitsInv
<1>0. x \in Nat /\ t \in 0..(W - 1) /\ x * W + t = n /\ x \in WordsOf
  BY <1>1, WordAndBit, WordsSuffice
<1>2. ASSUME NEW y \in 0..x
      PROVE  y \in WordsOf /\ bitmap[y] = {b \in 0..(W - 1) : y * W + b \in received}
  <2>1. y \in WordsOf
    BY <1>0, <1>1, WordsSuffice DEF WordsOf
  <2> QED
    BY <2>1 DEF BitsInv
<1>3. ASSUME TestAllBitsSet(bitmap, n), NEW j \in 0..(n - 1)
      PROVE  j \in received
  <2>1. /\ j \div W \in Nat /\ j % W \in 0..(W - 1) /\ (j \div W) * W + (j % W) = j
        /\ j \div W <= x /\ (j \div W = x => j % W < t)
    <3>1. j \in Nat /\ n \in Nat /\ j < n
      BY <1>1, <1>3
    <3> QED
      BY <3>1, WordAndBit, WordsOrdered
  <2>2. j % W \in bitmap[j \div W]
    <3>1. CASE j \div W < x
      BY <1>0, <1>1, <1>3, <2>1, <3>1 DEF TestAllBitsSet
    <3>2. CASE j \div W = x
      <4>1. t # 0 /\ bitmap[x] = 0..(t - 1)
        BY <1>0, <1>1, <1>3, <2>1, <3>2 DEF TestAllBitsSet
      <4> QED
        BY <1>0, <1>1, <2>1, <3>2, <4>1
    <3> QED
      BY <1>0, <1>1, <2>1, <3>1, <3>2
  <2> QED
    BY <1>0, <1>1, <1>2, <2>1, <2>2
<1>4. ASSUME TestAllBitsSet(bitmap, n), t # 0
      PROVE  n \notin received
  <2>1. bitmap[x] = 0..(t - 1)
    BY <1>4 DEF TestAllBitsSet
  <2>2. t \notin 0..(t - 1) /\ x \in 0..x
    <3> HIDE DEF t, x
    <3> QED
      BY <1>0, <1>1
  <2>3. ~(x * W + t \in received)
    BY <1>0, <1>2, <2>1, <2>2
  <2> QED
    BY <1>0, <2>3
<1>5. ASSUME Whole \subseteq received, t # 0 => n \notin received
      PROVE  TestAllBitsSet(bitmap, n)
  <2>1. ASSUME NEW i \in 0..(x - 1)
        PROVE  bitmap[i] = 0..(W - 1)
    <3>0. i \in Nat /\ i < x /\ i \in 0..x
      BY <1>0, <2>1
    <3>1. \A b \in 0..(W - 1) : i * W + b < n /\ i * W + b \in Nat
      BY <1>0, <1>1, <3>0, WordBefore, OneWordOneBit
    <3>2. \A b \in 0..(W - 1) : i * W + b \in received
      BY <1>0, <1>1, <1>5, <3>1 DEF Whole
    <3>3. bitmap[i] = {b \in 0..(W - 1) : i * W + b \in received}
      BY <1>2, <3>0
    <3> QED
      BY <3>2, <3>3
  <2>2. ASSUME t # 0
        PROVE  bitmap[x] = 0..(t - 1)
    <3>1. \A b \in 0..(W - 1) : x * W + b \in Nat /\ (b < t <=> x * W + b < n)
                                  /\ (b > t <=> x * W + b > n) /\ (b = t <=> x * W + b = n)
      BY <1>0, <1>1, OneWordOneBit
    <3>2. \A b \in 0..(W - 1) : x * W + b \in received <=> b < t
      BY <1>0, <1>1, <1>5, <2>2, <3>1 DEF Whole, BitsInv
    <3>3. bitmap[x] = {b \in 0..(W - 1) : x * W + b \in received}
      BY <1>0, <1>2
    <3>4. bitmap[x] = {b \in 0..(W - 1) : b < t}
      BY <3>2, <3>3
    <3> QED
      BY <1>0, <1>1, <3>4
  <2> QED
    BY <2>1, <2>2 DEF TestAllBitsSet
<1> QED
  BY <1>3, <1>4, <1>5 DEF Whole

\* find_first_zero returns the first slice that has not come, from the one given.
LEMMA FirstZeroMeans ==
  ASSUME BitsInv, NEW from \in 0..rse_n_slices
  PROVE  LET result == FindFirstZero(bitmap, from, rse_n_slices)
         IN \/ result = -1 /\ from..(rse_n_slices - 1) \subseteq received
            \/ /\ result \in from..(rse_n_slices - 1) /\ result \notin received
               /\ from..(result - 1) \subseteq received
<1> DEFINE open == {i \in from..(rse_n_slices - 1) : ~Holds(bitmap, i)}
           result == FindFirstZero(bitmap, from, rse_n_slices)
<1>1. open = {i \in from..(rse_n_slices - 1) : i \notin received} /\ open \in SUBSET Nat
  BY BitMeansReceived DEF BitsInv
<1>2. CASE open = {}
  BY <1>1, <1>2 DEF FindFirstZero
<1>3. CASE open # {}
  <2> HIDE DEF open
  <2>1. \E i \in open : \A j \in open : i <= j
    BY <1>1, <1>3, LeastNat
  <2>2. result = CHOOSE i \in open : \A j \in open : i <= j
    BY <1>3 DEF FindFirstZero, open
  <2>3. result \in open /\ \A j \in open : result <= j
    <3> HIDE DEF result
    <3> QED
      BY <2>1, <2>2
  <2>4. \A j \in from..(result - 1) : j \in received
    <3> HIDE DEF result
    <3> QED
      BY <1>1, <2>3 DEF BitsInv
  <2> HIDE DEF result
  <2> QED
    BY <1>1, <2>3, <2>4 DEF result
<1> QED
  BY <1>2, <1>3

LEMMA BitmapInitInv == BitmapInit => BitsInv /\ ListInv
BY WAssumption DEF BitmapInit, BitsInv, ListInv, Cleared

\* set_bit on the word of a slice that came.
LEMMA CpSliceInv ==
  ASSUME BitsInv, ListInv, NEW seq \in 0..MAX_SLICE_NUM, CpSlice(seq)
  PROVE  BitsInv' /\ ListInv'
<1>1. /\ seq \in Nat /\ seq \div W \in WordsOf /\ seq % W \in 0..(W - 1)
      /\ (seq \div W) * W + (seq % W) = seq /\ WordsOf \subseteq Nat
  BY WordAndBit, WordsSuffice, WAssumption DEF WordsOf
<1>2. ASSUME NEW x \in WordsOf
      PROVE  bitmap'[x] = {b \in 0..(W - 1) : x * W + b \in received'}
  <2>1. ASSUME NEW b \in 0..(W - 1)
        PROVE  x * W + b = seq <=> x = seq \div W /\ b = seq % W
    BY <1>1, OneWordOneBit
  <2>2. bitmap[x] = {b \in 0..(W - 1) : x * W + b \in received}
    BY DEF BitsInv
  <2>3. CASE x = seq \div W
    <3>1. bitmap'[x] = bitmap[x] \cup {seq % W}
      BY <2>3 DEF CpSlice, SetBit, BitsInv
    <3>2. \A b \in 0..(W - 1) : x * W + b \in received' <=> x * W + b \in received \/ b = seq % W
      BY <2>1, <2>3 DEF CpSlice
    <3> QED
      BY <1>1, <2>2, <3>1, <3>2
  <2>4. CASE x # seq \div W
    <3>1. bitmap'[x] = bitmap[x]
      BY <2>4 DEF CpSlice, SetBit, BitsInv
    <3>2. \A b \in 0..(W - 1) : x * W + b \in received' <=> x * W + b \in received
      BY <2>1, <2>4 DEF CpSlice
    <3> QED
      BY <2>2, <3>1, <3>2
  <2> QED
    BY <2>3, <2>4
<1>3. bitmap' = [x \in WordsOf |-> bitmap'[x]]
  BY DEF CpSlice, SetBit, BitsInv
<1>4. bitmap' = [x \in WordsOf |-> {b \in 0..(W - 1) : x * W + b \in received'}]
  BY <1>2, <1>3
<1>5. rse_n_slices' \in 1..MAX_SLICE_NUM /\ received' \subseteq 0..rse_n_slices'
  BY <1>1 DEF CpSlice, BitsInv
<1>6. BitsInv'
  BY <1>4, <1>5 DEF BitsInv
<1> QED
  BY <1>6 DEF CpSlice, ListInv

LEMMA SendAckInv ==
  ASSUME BitsInv, ListInv, SendAck
  PROVE  BitsInv' /\ ListInv'
<1>1. BitsInv' /\ Whole' = Whole
  BY DEF SendAck, BitsInv, Whole
<1>2. ack' = "ACKA" => Whole \subseteq received
  BY AllSetMeans DEF SendAck
<1>3. /\ missing' = <<>> /\ next_k' = 0 /\ ack' \in {"ACKA", "listing"}
      /\ rse_n_slices' = rse_n_slices /\ received' = received
  BY DEF SendAck
<1>4. 0 \in 0..MAX_SLICE_NUM /\ 0 <= rse_n_slices
  BY WAssumption DEF BitsInv
<1> QED
  BY <1>1, <1>2, <1>3, <1>4 DEF ListInv

\* One search of the loop in send_ack.
LEMMA ListNextInv ==
  ASSUME BitsInv, ListInv, ListNext
  PROVE  BitsInv' /\ ListInv'
<1> DEFINE result == FindFirstZero(bitmap, next_k, rse_n_slices)
<1>1. /\ ack = "listing" /\ UNCHANGED <<bitmap, rse_n_slices, received>>
      /\ \/ /\ result < 0
            /\ ack' = (IF next_k = 0 THEN "none" ELSE "ACKP") /\ UNCHANGED <<missing, next_k>>
         \/ /\ ~(result < 0)
            /\ missing' = Append(missing, result) /\ next_k' = result + 1 /\ UNCHANGED ack
  BY DEF ListNext
<1>2. /\ rse_n_slices \in 1..MAX_SLICE_NUM /\ next_k \in 0..rse_n_slices
      /\ MAX_SLICE_NUM \in Nat
  BY <1>1, WAssumption DEF BitsInv, ListInv
<1>3. \/ result = -1 /\ next_k..(rse_n_slices - 1) \subseteq received
      \/ /\ result \in next_k..(rse_n_slices - 1) /\ result \notin received
         /\ next_k..(result - 1) \subseteq received
  BY <1>2, FirstZeroMeans
<1> HIDE DEF result
<1>4. BitsInv' /\ Whole' = Whole
  BY <1>1 DEF BitsInv, Whole
<1>5. CASE result = -1
  BY <1>1, <1>2, <1>3, <1>4, <1>5 DEF ListInv
<1>6. CASE result \in next_k..(rse_n_slices - 1)
  <2>1. /\ missing' = Append(missing, result) /\ next_k' = result + 1 /\ ack' = ack
        /\ result \in 0..(MAX_SLICE_NUM - 1) /\ result \notin received
        /\ next_k..(result - 1) \subseteq received
    BY <1>1, <1>2, <1>3, <1>6
  <2>2. missing \in Seq(0..(MAX_SLICE_NUM - 1))
    BY DEF ListInv
  <2>3. /\ missing' \in Seq(0..(MAX_SLICE_NUM - 1)) /\ Len(missing') = Len(missing) + 1
        /\ Len(missing) \in Nat /\ missing'[Len(missing) + 1] = result
        /\ \A i \in 1..Len(missing) : missing'[i] = missing[i]
    BY <2>1, <2>2
  <2>4. /\ {missing[i] : i \in 1..Len(missing)} = 0..(next_k - 1) \ received
        /\ \A i \in 1..(Len(missing) - 1) : missing[i] < missing[i + 1]
        /\ IF missing = <<>> THEN next_k = 0 ELSE next_k = missing[Len(missing)] + 1
    BY <1>1 DEF ListInv
  <2>5. {missing'[i] : i \in 1..Len(missing')} = 0..(next_k' - 1) \ received
    <3>1. {missing'[i] : i \in 1..Len(missing')}
            = {missing[i] : i \in 1..Len(missing)} \cup {result}
      BY <2>3
    <3>2. 0..(next_k' - 1) \ received = (0..(next_k - 1) \ received) \cup {result}
      BY <1>2, <1>6, <2>1
    <3> QED
      BY <2>4, <3>1, <3>2
  <2>6. ASSUME NEW i \in 1..(Len(missing') - 1)
        PROVE  missing'[i] < missing'[i + 1]
    <3>1. CASE i < Len(missing)
      BY <2>3, <2>4, <2>6, <3>1
    <3>2. CASE i = Len(missing)
      <4>1. i \in 1..Len(missing) /\ missing # <<>> /\ missing[i] \in 0..(MAX_SLICE_NUM - 1)
        <5>1. i \in 1..Len(missing)
          BY <2>3, <2>6, <3>2
        <5>2. missing # <<>>
          BY <5>1
        <5> QED
          BY <2>2, <5>1, <5>2, ElementOfSeq
      <4>2. next_k = missing[i] + 1
        BY <2>4, <3>2, <4>1
      <4> QED
        BY <1>2, <1>6, <2>3, <2>6, <3>2, <4>1, <4>2
    <3> QED
      BY <2>3, <2>6, <3>1, <3>2
  <2>7. missing' # <<>> /\ next_k' = missing'[Len(missing')] + 1
    BY <2>1, <2>3
  <2>8. next_k' \in 0..MAX_SLICE_NUM /\ next_k' <= rse_n_slices
    BY <1>2, <1>6, <2>1
  <2> QED
    BY <1>1, <1>4, <2>1, <2>3, <2>5, <2>6, <2>7, <2>8 DEF ListInv
<1> QED
  BY <1>3, <1>5, <1>6

LEMMA BitmapNextInv ==
  ASSUME BitsInv, ListInv, [BitmapNext]_bitmapVars
  PROVE  BitsInv' /\ ListInv'
<1>1. ASSUME NEW slices \in 1..MAX_SLICE_NUM, Start(slices)
      PROVE  BitsInv' /\ ListInv'
  BY <1>1 DEF Start, BitsInv, ListInv, Cleared
<1>2. CASE AckSent
  BY <1>2 DEF AckSent, BitsInv, ListInv
<1>3. CASE UNCHANGED bitmapVars
  BY <1>3 DEF bitmapVars, BitsInv, ListInv, Whole
<1> QED
  BY <1>1, <1>2, <1>3, CpSliceInv, SendAckInv, ListNextInv DEF BitmapNext

LEMMA BitmapSpecInv == BitmapSpec => [](BitsInv /\ ListInv)
<1>1. BitsInv /\ ListInv /\ [BitmapNext]_bitmapVars => (BitsInv /\ ListInv)'
  BY BitmapNextInv
<1> QED
  BY <1>1, BitmapInitInv, PTL DEF BitmapSpec

\* For words of any width and up to any number of slices: test_all_bits_set takes
\* a message for complete only if all of it came, an ACKP of send_ack lists the
\* slices that are missing and an ACKA says that none is.
THEOREM BitmapIsExact == BitmapSpec => []BitmapExact
<1>1. ASSUME BitsInv, ListInv
      PROVE  BitmapExact
  <2>1. BitmapTypeOK
    BY <1>1 DEF BitsInv, ListInv, BitmapTypeOK
  <2>2. rse_n_slices \notin Whole /\ rse_n_slices \in Nat
    BY <1>1 DEF BitsInv, Whole
  <2>3. CompleteExact
    BY <1>1, <2>2, AllSetMeans DEF CompleteExact
  <2>4. ASSUME ack = "ACKP"
        PROVE  missing # <<>> /\ ToSet(missing) = Whole \ received
    <3>1. /\ {missing[i] : i \in 1..Len(missing)} = 0..(next_k - 1) \ received
          /\ next_k # 0 /\ next_k..(rse_n_slices - 1) \subseteq received
          /\ next_k \in 0..rse_n_slices /\ missing \in Seq(0..(MAX_SLICE_NUM - 1))
          /\ (missing = <<>> => next_k = 0)
      BY <1>1, <2>4 DEF ListInv
    <3>2. ToSet(missing) = {missing[i] : i \in 1..Len(missing)}
      BY <3>1 DEF ToSet
    <3>3. 0..(next_k - 1) \ received = Whole \ received
      BY <2>2, <3>1 DEF Whole
    <3> QED
      BY <3>1, <3>2, <3>3
  <2>5. AsksForMissing
    BY <1>1, <2>4 DEF AsksForMissing, ListInv
  <2> QED
    BY <2>1, <2>3, <2>5 DEF BitmapExact
<1> QED
  BY <1>1, BitmapSpecInv, PTL

\* Where one word holds the map, test_all_bits_set is the comparison with the set
\* of all slices that Split has.
THEOREM OneWordIsSet == BitmapSpec => []OneWordExact
<1>1. ASSUME BitsInv, BITMAP32_SIZE = 1
      PROVE  TestAllBitsSet(bitmap, rse_n_slices) <=> received = Whole
  <2>1. rse_n_slices \div W = 0 /\ rse_n_slices \in Nat \ {0} /\ rse_n_slices \in 0..MAX_SLICE_NUM
    <3>1. rse_n_slices \in Nat \ {0} /\ rse_n_slices \in 0..MAX_SLICE_NUM
      BY <1>1, WAssumption DEF BitsInv
    <3> QED
      BY <1>1, <3>1, WordsSuffice DEF WordsOf
  <2>2. rse_n_slices % W # 0
    BY <2>1, WordAndBit, WAssumption
  <2>3. received \subseteq 0..rse_n_slices
    BY <1>1 DEF BitsInv
  <2>4. TestAllBitsSet(bitmap, rse_n_slices)
          <=> Whole \subseteq received /\ rse_n_slices \notin received
    BY <1>1, <2>2, AllSetMeans
  <2>5. 0..rse_n_slices = Whole \cup {rse_n_slices} /\ rse_n_slices \notin Whole
    BY <2>1 DEF Whole
  <2> QED
    BY <2>3, <2>4, <2>5
<1>2. BitsInv => OneWordExact
  BY <1>1 DEF OneWordExact
<1> QED
  BY <1>2, BitmapSpecInv, PTL

-----------------------------------------------------------------------------
(* Byte stuffing on the link. *)

\* Stuffed and Reading are recursive functions of an index; that such functions
\* are, by induction on the index.
StuffOne(before, c) == before \o Escape(c)

StuffsTo(d, f, m) ==
  f = [i \in 0..m |-> IF i = 0 THEN <<>> ELSE StuffOne(f[i - 1], d[i])]

LEMMA StuffedIs ==
  ASSUME NEW d, Len(d) \in Nat
  PROVE  StuffsTo(d, Stuffed(d), Len(d))
<1> DEFINE S == {m \in Nat : \E f : StuffsTo(d, f, m)}
<1>1. 0 \in S
  <2> DEFINE f == [i \in 0..0 |-> <<>>]
  <2>1. StuffsTo(d, f, 0)
    BY DEF StuffsTo
  <2> QED
    BY <2>1
<1>2. \A m \in S : m + 1 \in S
  <2> SUFFICES ASSUME NEW m \in Nat, NEW f, StuffsTo(d, f, m)
               PROVE  \E g : StuffsTo(d, g, m + 1)
    OBVIOUS
  <2> DEFINE g == [i \in 0..(m + 1) |-> IF i = m + 1 THEN StuffOne(f[m], d[m + 1]) ELSE f[i]]
  <2>1. \A i \in 0..m : f[i] = IF i = 0 THEN <<>> ELSE StuffOne(f[i - 1], d[i])
    BY DEF StuffsTo
  <2>2. ASSUME NEW i \in 0..(m + 1)
        PROVE  g[i] = IF i = 0 THEN <<>> ELSE StuffOne(g[i - 1], d[i])
    <3>1. CASE i = m + 1
      <4>1. g[i] = StuffOne(f[m], d[i]) /\ g[i - 1] = f[m] /\ i # 0
        BY <3>1
      <4> HIDE DEF g
      <4> QED
        BY <4>1
    <3>2. CASE i # m + 1
      <4>1. i \in 0..m /\ g[i] = f[i] /\ (i # 0 => g[i - 1] = f[i - 1])
        BY <3>2
      <4> QED
        BY <2>1, <4>1, Zenon
    <3> QED
      BY <3>1, <3>2
  <2>3. g = [i \in 0..(m + 1) |-> g[i]]
    OBVIOUS
  <2> HIDE DEF g
  <2>4. StuffsTo(d, g, m + 1)
    BY <2>2, <2>3, Zenon DEF StuffsTo
  <2> QED
    BY <2>4
<1> HIDE DEF S
<1>3. S = Nat
  <2>1. S \in SUBSET Nat
    BY DEF S
  <2> QED
    BY <1>1, <1>2, <2>1, SetInduction
<1>4. \E f : StuffsTo(d, f, Len(d))
  BY <1>3 DEF S
<1> QED
  BY <1>4, Zenon DEF Stuffed, StuffsTo, StuffOne

ReadsTo(frm, cap, f, m) ==
  f = [i \in 0..m |-> IF i = 0 THEN Searching ELSE DeByte(f[i - 1], frm[i], cap)]

LEMMA ReadingIs ==
  ASSUME NEW frm, Len(frm) \in Nat, NEW cap
  PROVE  ReadsTo(frm, cap, Reading(frm, cap), Len(frm))
<1> DEFINE S == {m \in Nat : \E f : ReadsTo(frm, cap, f, m)}
<1>1. 0 \in S
  <2> DEFINE f == [i \in 0..0 |-> Searching]
  <2>1. ReadsTo(frm, cap, f, 0)
    BY DEF ReadsTo
  <2> QED
    BY <2>1
<1>2. \A m \in S : m + 1 \in S
  <2> SUFFICES ASSUME NEW m \in Nat, NEW f, ReadsTo(frm, cap, f, m)
               PROVE  \E g : ReadsTo(frm, cap, g, m + 1)
    OBVIOUS
  <2> DEFINE g == [i \in 0..(m + 1) |-> IF i = m + 1 THEN DeByte(f[m], frm[m + 1], cap) ELSE f[i]]
  <2>1. \A i \in 0..m : f[i] = IF i = 0 THEN Searching ELSE DeByte(f[i - 1], frm[i], cap)
    BY DEF ReadsTo
  <2>2. ASSUME NEW i \in 0..(m + 1)
        PROVE  g[i] = IF i = 0 THEN Searching ELSE DeByte(g[i - 1], frm[i], cap)
    <3>1. CASE i = m + 1
      BY <3>1
    <3>2. CASE i # m + 1
      <4>1. i \in 0..m /\ g[i] = f[i] /\ (i # 0 => g[i - 1] = f[i - 1])
        BY <3>2
      <4> QED
        BY <2>1, <4>1, Zenon
    <3> QED
      BY <3>1, <3>2
  <2>3. g = [i \in 0..(m + 1) |-> g[i]]
    OBVIOUS
  <2> HIDE DEF g
  <2>4. ReadsTo(frm, cap, g, m + 1)
    BY <2>2, <2>3, Zenon DEF ReadsTo
  <2> QED
    BY <2>4
<1> HIDE DEF S
<1>3. S = Nat
  <2>1. S \in SUBSET Nat
    BY DEF S
  <2> QED
    BY <1>1, <1>2, <2>1, SetInduction
<1>4. \E f : ReadsTo(frm, cap, f, Len(frm))
  BY <1>3 DEF S
<1> QED
  BY <1>4, Zenon DEF Reading, ReadsTo

LEMMA StuffedSteps ==
  ASSUME NEW d, Len(d) \in Nat
  PROVE  /\ Stuffed(d)[0] = <<>>
         /\ \A i \in 1..Len(d) : Stuffed(d)[i] = Stuffed(d)[i - 1] \o Escape(d[i])
<1> DEFINE f == Stuffed(d)
<1>1. f = [i \in 0..Len(d) |-> IF i = 0 THEN <<>> ELSE StuffOne(f[i - 1], d[i])]
  BY StuffedIs DEF StuffsTo
<1> HIDE DEF f
<1>2. \A i \in 0..Len(d) : f[i] = IF i = 0 THEN <<>> ELSE StuffOne(f[i - 1], d[i])
  BY <1>1, Zenon
<1>3. f[0] = <<>>
  BY <1>2
<1>4. \A i \in 1..Len(d) : f[i] = StuffOne(f[i - 1], d[i])
  <2> TAKE i \in 1..Len(d)
  <2>1. i \in 0..Len(d) /\ i # 0
    OBVIOUS
  <2> QED
    BY <1>2, <2>1, Zenon
<1> QED
  BY <1>3, <1>4 DEF f, StuffOne

LEMMA ReadingSteps ==
  ASSUME NEW frm, Len(frm) \in Nat, NEW cap
  PROVE  /\ Reading(frm, cap)[0] = Searching
         /\ \A i \in 1..Len(frm) :
              Reading(frm, cap)[i] = DeByte(Reading(frm, cap)[i - 1], frm[i], cap)
<1> DEFINE f == Reading(frm, cap)
<1>1. f = [i \in 0..Len(frm) |-> IF i = 0 THEN Searching ELSE DeByte(f[i - 1], frm[i], cap)]
  BY ReadingIs DEF ReadsTo
<1> HIDE DEF f
<1>2. \A i \in 0..Len(frm) : f[i] = IF i = 0 THEN Searching ELSE DeByte(f[i - 1], frm[i], cap)
  BY <1>1, Zenon
<1>3. f[0] = Searching
  BY <1>2
<1>4. \A i \in 1..Len(frm) : f[i] = DeByte(f[i - 1], frm[i], cap)
  <2> TAKE i \in 1..Len(frm)
  <2>1. i \in 0..Len(frm) /\ i # 0
    OBVIOUS
  <2> QED
    BY <1>2, <2>1, Zenon
<1> QED
  BY <1>3, <1>4 DEF f

LEMMA EscapeOne ==
  ASSUME NEW c \in Byte
  PROVE  \/ c \notin {BREAK, ESC} /\ Escape(c) = <<c>>
         \/ c = BREAK /\ Escape(c) = <<ESC, EBRK>>
         \/ c = ESC /\ Escape(c) = <<ESC, ESC>>
BY DEF Escape, Byte, BREAK, ESC, EBRK

\* de_frame reads a frame to be read at a byte, or an escape.
At(b) == [at |-> "frame", buf |-> b, ret |-> -1]
AtEscape(b) == [at |-> "escape", buf |-> b, ret |-> -1]

LEMMA DeByteIs ==
  ASSUME NEW b, NEW cap \in Nat, NEW c
  PROVE  /\ c # BREAK => DeByte(Searching, c, cap) = Searching
         /\ DeByte(Searching, BREAK, cap) = At(<<>>)
         /\ DeByte(At(b), BREAK, cap) = [at |-> "end", buf |-> b, ret |-> 0]
         /\ DeByte(At(b), ESC, cap) = AtEscape(b)
         /\ Len(b) + 1 <= cap /\ Len(b) \in Nat =>
              /\ c \notin {BREAK, ESC} => DeByte(At(b), c, cap) = At(Append(b, c))
              /\ DeByte(AtEscape(b), EBRK, cap) = At(Append(b, BREAK))
              /\ DeByte(AtEscape(b), ESC, cap) = At(Append(b, ESC))
         /\ DeByte(At(b), c, cap).buf \in {b, Append(b, c)}
<1>1. c # BREAK => DeByte(Searching, c, cap) = Searching
  BY DEF DeByte, Searching
<1>2. DeByte(Searching, BREAK, cap) = At(<<>>)
  BY DEF DeByte, Searching, At
<1>3. DeByte(At(b), BREAK, cap) = [at |-> "end", buf |-> b, ret |-> 0]
  <2>1. DeByte(At(b), BREAK, cap) = Stop(At(b), 0)
    BY DEF DeByte, At, BREAK, ESC
  <2>2. Stop(At(b), 0) = [at |-> "end", buf |-> b, ret |-> 0]
    BY DEF At, Stop
  <2> QED
    BY <2>1, <2>2
<1>4. DeByte(At(b), ESC, cap) = AtEscape(b)
  BY DEF DeByte, At, AtEscape, ESC, BREAK
<1>5. ASSUME Len(b) + 1 <= cap, Len(b) \in Nat
      PROVE  /\ c \notin {BREAK, ESC} => DeByte(At(b), c, cap) = At(Append(b, c))
             /\ DeByte(AtEscape(b), EBRK, cap) = At(Append(b, BREAK))
             /\ DeByte(AtEscape(b), ESC, cap) = At(Append(b, ESC))
  <2>1. \A x : Store(At(b), x, cap) = At(Append(b, x)) /\ Store(AtEscape(b), x, cap) = At(Append(b, x))
    BY <1>5 DEF Store, At, AtEscape
  <2>2. c \notin {BREAK, ESC} => DeByte(At(b), c, cap) = Store(At(b), c, cap)
    BY DEF DeByte, At
  <2>3. DeByte(AtEscape(b), EBRK, cap) = Store(AtEscape(b), BREAK, cap)
    BY DEF DeByte, AtEscape, EBRK, ESC, BREAK
  <2>4. DeByte(AtEscape(b), ESC, cap) = Store(AtEscape(b), ESC, cap)
    BY DEF DeByte, AtEscape, ESC, EBRK
  <2> QED
    BY <2>1, <2>2, <2>3, <2>4
<1>6. DeByte(At(b), c, cap).buf \in {b, Append(b, c)}
  <2>1. CASE c = BREAK
    BY <1>3, <2>1
  <2>2. CASE c = ESC
    BY <1>4, <2>2 DEF AtEscape
  <2>3. CASE c \notin {BREAK, ESC}
    <3>1. DeByte(At(b), c, cap) = Store(At(b), c, cap)
      BY <2>3 DEF DeByte, At
    <3>2. Store(At(b), c, cap).buf \in {b, Append(b, c)}
      BY DEF Store, Stop, At
    <3> QED
      BY <3>1, <3>2
  <2> QED
    BY <2>1, <2>2, <2>3
<1> QED
  BY <1>1, <1>2, <1>3, <1>4, <1>5, <1>6

LEMMA EscapeLen ==
  ASSUME NEW c \in Byte
  PROVE  /\ Escape(c) \in Seq(Byte) /\ Len(Escape(c)) >= 1
         /\ Len(Escape(c)) = 1 \/ Len(Escape(c)) = 2
<1>1. BREAK \in Byte /\ ESC \in Byte /\ EBRK \in Byte
  BY DEF Byte
<1>2. <<c>> \in Seq(Byte) /\ Len(<<c>>) = 1
  BY OneOf
<1>3. <<ESC, EBRK>> \in Seq(Byte) /\ Len(<<ESC, EBRK>>) = 2
  BY <1>1, TwoOf
<1>4. <<ESC, ESC>> \in Seq(Byte) /\ Len(<<ESC, ESC>>) = 2
  BY <1>1, TwoOf
<1>5. Escape(c) = <<c>> \/ Escape(c) = <<ESC, EBRK>> \/ Escape(c) = <<ESC, ESC>>
  BY EscapeOne
<1> DEFINE e == Escape(c)
<1> HIDE DEF e
<1>6. e = <<c>> \/ e = <<ESC, EBRK>> \/ e = <<ESC, ESC>>
  BY <1>5 DEF e
<1>7. e \in Seq(Byte) /\ (Len(e) = 1 \/ Len(e) = 2)
  BY <1>2, <1>3, <1>4, <1>6, Zenon
<1>8. Len(e) >= 1
  <2>1. CASE Len(e) = 1
    BY <2>1
  <2>2. CASE Len(e) = 2
    BY <2>2
  <2> QED
    BY <1>7, <2>1, <2>2
<1> QED
  BY <1>7, <1>8 DEF e

LEMMA StuffedPrefix ==
  ASSUME NEW d \in Seq(Byte), NEW k \in 0..Len(d), NEW i \in 0..k
  PROVE  /\ Stuffed(d)[k] \in Seq(Byte) /\ Stuffed(d)[i] \in Seq(Byte)
         /\ k <= Len(Stuffed(d)[k]) /\ i <= Len(Stuffed(d)[i])
         /\ Len(Stuffed(d)[i]) <= Len(Stuffed(d)[k])
         /\ \A x \in 1..Len(Stuffed(d)[i]) : Stuffed(d)[k][x] = Stuffed(d)[i][x]
<1> DEFINE f == Stuffed(d)
           Prefix(n, m) == /\ f[m] \in Seq(Byte) /\ Len(f[m]) <= Len(f[n])
                           /\ \A x \in 1..Len(f[m]) : f[n][x] = f[m][x]
           Good(n) == f[n] \in Seq(Byte) /\ n <= Len(f[n]) /\ \A m \in 0..n : Prefix(n, m)
           S == {n \in Nat : n <= Len(d) => Good(n)}
<1>1. Len(d) \in Nat /\ \A n \in 1..Len(d) : d[n] \in Byte
  OBVIOUS
<1>2. f[0] = <<>> /\ \A n \in 1..Len(d) : f[n] = f[n - 1] \o Escape(d[n])
  BY <1>1, StuffedSteps
<1> HIDE DEF f
<1>3. 0 \in S
  <2>1. f[0] \in Seq(Byte) /\ Len(f[0]) = 0
    BY <1>2
  <2> QED
    BY <2>1
<1>4. \A n \in S : n + 1 \in S
  <2> SUFFICES ASSUME NEW n \in Nat, n + 1 <= Len(d), Good(n)
               PROVE  Good(n + 1)
    BY <1>1
  <2> DEFINE e == Escape(d[n + 1])
  <2>1. e \in Seq(Byte) /\ Len(e) >= 1
    <3>1. d[n + 1] \in Byte
      BY <1>1
    <3> QED
      BY <3>1, EscapeLen, Zenon
  <2>2. f[n + 1] = f[n] \o e
    <3>1. n + 1 \in 1..Len(d) /\ (n + 1) - 1 = n
      BY <1>1
    <3> QED
      BY <1>2, <3>1
  <2> HIDE DEF e
  <2>3. f[n] \in Seq(Byte) /\ n <= Len(f[n])
    OBVIOUS
  <2>4. /\ f[n + 1] \in Seq(Byte) /\ Len(f[n + 1]) = Len(f[n]) + Len(e)
        /\ \A x \in 1..Len(f[n]) : f[n + 1][x] = f[n][x]
    BY <2>1, <2>2, <2>3
  <2>5. ASSUME NEW m \in 0..(n + 1)
        PROVE  Prefix(n + 1, m)
    <3>1. CASE m = n + 1
      BY <2>4, <3>1
    <3>2. CASE m \in 0..n
      <4>1. Prefix(n, m)
        BY <3>2
      <4>2. Len(f[m]) \in Nat /\ Len(f[n]) \in Nat /\ Len(e) \in Nat
        BY <2>1, <2>3, <4>1
      <4> QED
        BY <2>4, <4>1, <4>2
    <3> QED
      BY <3>1, <3>2
  <2>6. n + 1 <= Len(f[n + 1])
    <3>1. Len(f[n]) \in Nat /\ Len(e) \in Nat
      BY <2>1, <2>3
    <3> QED
      BY <2>1, <2>3, <2>4, <3>1
  <2> QED
    BY <2>4, <2>5, <2>6
<1> HIDE DEF S
<1>5. S = Nat
  <2>1. S \in SUBSET Nat
    BY DEF S
  <2> QED
    BY <1>3, <1>4, <2>1, SetInduction
<1>6. Good(k) /\ Good(i)
  <2>1. k \in Nat /\ k <= Len(d) /\ i \in Nat /\ i <= Len(d)
    BY <1>1
  <2> HIDE DEF Good
  <2> QED
    BY <1>5, <2>1 DEF S
<1> QED
  BY <1>6 DEF f

\* The bytes of a stuffed sequence that stand for its byte i + 1.
LEMMA StuffedByte ==
  ASSUME NEW d \in Seq(Byte), NEW k \in 0..Len(d), NEW i \in Nat, i < k
  PROVE  LET p == Len(Stuffed(d)[i])
             e == Escape(d[i + 1])
         IN /\ Len(Stuffed(d)[i + 1]) = p + Len(e) /\ p \in Nat /\ i <= p
            /\ (Len(e) = 1 \/ Len(e) = 2) /\ p + Len(e) <= Len(Stuffed(d)[k])
            /\ Stuffed(d)[k][p + 1] = e[1]
            /\ Len(e) = 2 => Stuffed(d)[k][p + 2] = e[2]
<1> DEFINE f == Stuffed(d)
           p == Len(f[i])
           e == Escape(d[i + 1])
<1>1. i + 1 \in 1..Len(d) /\ i + 1 \in 0..k /\ i \in 0..k /\ d[i + 1] \in Byte /\ (i + 1) - 1 = i
  OBVIOUS
<1>2. f[i + 1] = f[i] \o e
  <2>1. \A n \in 1..Len(d) : f[n] = f[n - 1] \o Escape(d[n])
    <3>1. Len(d) \in Nat
      OBVIOUS
    <3> QED
      BY <3>1, StuffedSteps, Zenon
  <2> HIDE DEF f
  <2> QED
    BY <1>1, <2>1
<1>3. /\ f[i] \in Seq(Byte) /\ f[i + 1] \in Seq(Byte) /\ i <= p
      /\ Len(f[i + 1]) <= Len(f[k])
      /\ \A x \in 1..Len(f[i + 1]) : f[k][x] = f[i + 1][x]
  BY <1>1, StuffedPrefix
<1>4. e \in Seq(Byte) /\ (Len(e) = 1 \/ Len(e) = 2)
  BY <1>1, EscapeLen
<1> HIDE DEF f, e
<1>5. p \in Nat /\ Len(f[i + 1]) = p + Len(e)
  BY <1>2, <1>3, <1>4
<1>6. \A x \in 1..Len(e) : f[i + 1][p + x] = e[x]
  BY <1>2, <1>3, <1>4
<1> HIDE DEF p
<1>7. f[i + 1][p + 1] = e[1] /\ (Len(e) = 2 => f[i + 1][p + 2] = e[2])
  BY <1>4, <1>6
<1>8. p + 1 \in 1..Len(f[i + 1]) /\ (Len(e) = 2 => p + 2 \in 1..Len(f[i + 1]))
  <2> DEFINE n == Len(f[i + 1])
             m == Len(e)
  <2>1. p \in Nat /\ (m = 1 \/ m = 2) /\ n = p + m
    BY <1>4, <1>5
  <2> HIDE DEF n, m
  <2>2. p + 1 \in 1..n /\ (m = 2 => p + 2 \in 1..n)
    BY <2>1
  <2> QED
    BY <2>2 DEF n, m
<1>9. /\ p \in Nat /\ i <= p /\ p + Len(e) <= Len(f[k])
      /\ f[k][p + 1] = e[1] /\ (Len(e) = 2 => f[k][p + 2] = e[2])
  BY <1>3, <1>5, <1>7, <1>8 DEF p
<1> QED
  BY <1>4, <1>5, <1>9 DEF f, p, e

\* r is o bytes that are no break, and what follows is a beginning of X.
Carries(r, o, X) ==
  /\ r \in Seq(Byte) /\ o \in Nat /\ Len(r) <= o + Len(X)
  /\ \A n \in 1..Len(r) : IF n <= o THEN r[n] # BREAK ELSE r[n] = X[n - o]

\* X is the break and the first k bytes of d, stuffed, and at most one byte more.
FrameOf(d, k, X) ==
  LET f == Stuffed(d)[k]
  IN /\ d \in Seq(Byte) /\ k \in 0..Len(d) /\ X \in Seq(Byte)
     /\ 1 + Len(f) <= Len(X) /\ Len(X) <= 2 + Len(f)
     /\ X[1] = BREAK /\ \A n \in 1..Len(f) : X[n + 1] = f[n]

\* Where de_frame is after n bytes of r: before the frame, at a byte of d, within
\* the escape of one, or at what follows the k bytes.
Before(s, n, o) == n <= o /\ s = Searching

AtByte(s, n, o, d, i) == n = o + 1 + Len(Stuffed(d)[i]) /\ s = At(SubSeq(d, 1, i))

WithinEscape(s, n, o, d, i) ==
  /\ n = o + 2 + Len(Stuffed(d)[i]) /\ s = AtEscape(SubSeq(d, 1, i))
  /\ Len(Escape(d[i + 1])) = 2

After(s, n, o, d, k, X, cap) ==
  LET p == Len(Stuffed(d)[k])
  IN n = o + 2 + p /\ s = DeByte(At(SubSeq(d, 1, k)), X[2 + p], cap)

Where(s, n, o, d, k, X, cap) ==
  \/ Before(s, n, o)
  \/ \E i \in 0..k : AtByte(s, n, o, d, i)
  \/ \E i \in 0..(k - 1) : WithinEscape(s, n, o, d, i)
  \/ After(s, n, o, d, k, X, cap)

LEMMA SubSeqGrows ==
  ASSUME NEW S, NEW d \in Seq(S), NEW i \in Nat, i < Len(d)
  PROVE  /\ SubSeq(d, 1, i + 1) = Append(SubSeq(d, 1, i), d[i + 1])
         /\ Len(SubSeq(d, 1, i)) = i
OBVIOUS

LEMMA ReadByteStep ==
  ASSUME NEW d, NEW k, NEW X, FrameOf(d, k, X),
         NEW r, NEW o, Carries(r, o, X),
         NEW cap \in Nat, 1 + Len(Stuffed(d)[k]) <= cap,
         NEW s, NEW n \in Nat, n + 1 <= Len(r), Where(s, n, o, d, k, X, cap)
  PROVE  Where(DeByte(s, r[n + 1], cap), n + 1, o, d, k, X, cap)
<1> DEFINE c == r[n + 1]
           t == DeByte(s, c, cap)
           P(i) == Len(Stuffed(d)[i])
<1>1. /\ n + 1 \in 1..Len(r) /\ o \in Nat /\ Len(r) \in Nat /\ Len(X) \in Nat
      /\ Len(r) <= o + Len(X)
      /\ IF n + 1 <= o THEN c # BREAK ELSE c = X[n + 1 - o]
  BY DEF Carries, FrameOf
<1>2. /\ d \in Seq(Byte) /\ k \in 0..Len(d) /\ Len(X) <= 2 + P(k) /\ X[1] = BREAK
      /\ \A m \in 1..P(k) : X[m + 1] = Stuffed(d)[k][m]
  BY DEF FrameOf
<1>3. P(0) = 0 /\ P(k) \in Nat /\ k \in Nat
  <2>0. k \in 0..k /\ Len(d) \in Nat
    BY <1>2
  <2>1. Stuffed(d)[0] = <<>> /\ Len(<<>>) = 0
    BY <2>0, StuffedSteps
  <2>2. Stuffed(d)[k] \in Seq(Byte)
    BY <1>2, <2>0, StuffedPrefix
  <2> QED
    BY <1>2, <2>1, <2>2
<1> HIDE DEF c, t
<1>4. CASE Before(s, n, o) /\ n + 1 <= o
  <2>1. t = Searching
    BY <1>1, <1>4, DeByteIs DEF t, Before
  <2> QED
    BY <1>4, <2>1 DEF Where, Before, t, c
<1>5. CASE Before(s, n, o) /\ ~(n + 1 <= o)
  <2>1. n = o /\ c = BREAK
    <3>1. n = o
      BY <1>1, <1>5 DEF Before
    <3>2. n + 1 - o = 1
      BY <1>1, <3>1
    <3> QED
      BY <1>1, <1>2, <1>5, <3>1, <3>2
  <2>2. t = At(<<>>)
    BY <1>5, <2>1, DeByteIs DEF t, Before
  <2>3. SubSeq(d, 1, 0) = <<>>
    BY <1>2
  <2>4. AtByte(t, n + 1, o, d, 0)
    <3>1. n + 1 = o + 1 + P(0)
      BY <1>1, <1>3, <2>1
    <3>2. t = At(SubSeq(d, 1, 0))
      BY <2>2, <2>3
    <3> QED
      BY <3>1, <3>2 DEF AtByte
  <2>5. 0 \in 0..k
    BY <1>3
  <2> QED
    BY <2>4, <2>5 DEF Where, t, c
<1>6. ASSUME NEW i \in 0..k, AtByte(s, n, o, d, i)
      PROVE  Where(t, n + 1, o, d, k, X, cap)
  <2>1. n = o + 1 + P(i) /\ s = At(SubSeq(d, 1, i))
    BY <1>6 DEF AtByte
  <2>2. CASE i = k
    <3>1. n = o + 1 + P(k)
      BY <2>1, <2>2
    <3> HIDE DEF P
    <3>2. n + 1 = o + 2 + P(k) /\ n + 1 - o = 2 + P(k) /\ ~(n + 1 <= o)
      BY <1>1, <1>3, <3>1
    <3>3. c = X[2 + P(k)]
      BY <1>1, <3>2
    <3>4. After(t, n + 1, o, d, k, X, cap)
      BY <2>1, <2>2, <3>2, <3>3 DEF After, t, P
    <3> QED
      BY <3>4 DEF Where
  <2>3. CASE i < k
    <3> DEFINE e == Escape(d[i + 1])
    <3>1. /\ P(i + 1) = P(i) + Len(e) /\ P(i) \in Nat /\ i <= P(i) /\ (Len(e) = 1 \/ Len(e) = 2)
          /\ P(i) + Len(e) <= P(k) /\ Stuffed(d)[k][P(i) + 1] = e[1]
      <4>1. i \in Nat
        OBVIOUS
      <4> QED
        BY <1>2, <2>3, <4>1, StuffedByte, Zenon
    <3>2. i \in Nat /\ i < Len(d) /\ d[i + 1] \in Byte /\ i + 1 \in 0..k
      BY <1>2, <2>3
    <3>3. c = e[1] /\ n + 1 = o + 2 + P(i)
      <4> HIDE DEF P, e
      <4>1. n + 1 - o = (P(i) + 1) + 1 /\ P(i) + 1 \in 1..P(k) /\ n + 1 = o + 2 + P(i)
        <5>1. n + 1 - o = (P(i) + 1) + 1 /\ n + 1 = o + 2 + P(i)
          <6>1. P(i) \in Nat /\ o \in Nat /\ n = o + 1 + P(i)
            BY <1>1, <2>1, <3>1
          <6> QED
            BY <6>1
        <5>2. P(i) + 1 \in 1..P(k)
          <6>1. CASE Len(e) = 1
            BY <1>3, <3>1, <6>1
          <6>2. CASE Len(e) = 2
            BY <1>3, <3>1, <6>2
          <6> QED
            BY <3>1, <6>1, <6>2
        <5> QED
          BY <5>1, <5>2
      <4>2. ~(n + 1 <= o)
        BY <1>1, <3>1, <4>1
      <4> QED
        BY <1>1, <1>2, <3>1, <4>1, <4>2
    <3>4. /\ SubSeq(d, 1, i + 1) = Append(SubSeq(d, 1, i), d[i + 1])
          /\ Len(SubSeq(d, 1, i)) = i
      BY <1>2, <3>2, SubSeqGrows
    <3>5. i + 1 <= cap
      <4> HIDE DEF P, e
      <4> QED
        BY <1>3, <3>1, <3>2 DEF P
    <3>6. CASE d[i + 1] \notin {BREAK, ESC}
      <4>1. e = <<d[i + 1]>>
        BY <3>2, <3>6, EscapeOne
      <4>2. Len(e) = 1 /\ c = d[i + 1]
        BY <3>3, <4>1
      <4>3. t = At(SubSeq(d, 1, i + 1))
        <5> DEFINE b == SubSeq(d, 1, i)
        <5>1. Len(b) + 1 <= cap /\ Len(b) \in Nat /\ c \notin {BREAK, ESC} /\ s = At(b)
          BY <2>1, <3>2, <3>4, <3>5, <3>6, <4>2
        <5> HIDE DEF b
        <5>2. t = At(Append(b, c))
          BY <5>1, DeByteIs DEF t
        <5> QED
          BY <3>4, <4>2, <5>2 DEF b
      <4>4. n + 1 = o + 1 + P(i + 1)
        <5> HIDE DEF P, e
        <5> QED
          BY <1>1, <3>1, <3>3, <4>2
      <4>5. AtByte(t, n + 1, o, d, i + 1)
        BY <4>3, <4>4 DEF AtByte
      <4> QED
        BY <3>2, <4>5 DEF Where
    <3>7. CASE d[i + 1] \in {BREAK, ESC}
      <4>1. e = <<ESC, EBRK>> \/ e = <<ESC, ESC>>
        BY <3>2, <3>7, EscapeOne
      <4>2. Len(e) = 2 /\ c = ESC
        BY <3>3, <4>1
      <4>3. t = AtEscape(SubSeq(d, 1, i))
        BY <2>1, <4>2, DeByteIs DEF t
      <4>4. WithinEscape(t, n + 1, o, d, i)
        BY <3>3, <4>2, <4>3 DEF WithinEscape
      <4>5. i \in 0..(k - 1)
        BY <1>3, <2>3
      <4> QED
        BY <4>4, <4>5 DEF Where
    <3> QED
      BY <3>6, <3>7
  <2> QED
    BY <1>3, <2>2, <2>3
<1>7. ASSUME NEW i \in 0..(k - 1), WithinEscape(s, n, o, d, i)
      PROVE  Where(t, n + 1, o, d, k, X, cap)
  <2> DEFINE e == Escape(d[i + 1])
  <2>0. i \in Nat /\ i < k /\ i < Len(d) /\ d[i + 1] \in Byte /\ i + 1 \in 0..k
    BY <1>2, <1>3
  <2>1. n = o + 2 + P(i) /\ s = AtEscape(SubSeq(d, 1, i)) /\ Len(e) = 2
    BY <1>7 DEF WithinEscape
  <2>2. /\ P(i + 1) = P(i) + Len(e) /\ P(i) \in Nat /\ i <= P(i)
        /\ P(i) + Len(e) <= P(k) /\ (Len(e) = 2 => Stuffed(d)[k][P(i) + 2] = e[2])
    BY <1>2, <2>0, StuffedByte
  <2>3. c = e[2] /\ n + 1 = o + 1 + P(i + 1) /\ i + 1 <= cap
    <3> HIDE DEF P, e
    <3>1. n + 1 - o = (P(i) + 2) + 1 /\ P(i) + 2 \in 1..P(k) /\ n + 1 = o + 3 + P(i)
      <4>0. n \in Nat /\ o \in Nat /\ P(i) \in Nat /\ n = o + 2 + P(i)
        BY <1>1, <2>1, <2>2, Zenon
      <4>1. n + 1 - o = (P(i) + 2) + 1 /\ n + 1 = o + 3 + P(i)
        BY <4>0
      <4>2. P(i) + 2 \in 1..P(k)
        BY <1>3, <2>1, <2>2
      <4> QED
        BY <4>1, <4>2
    <3>2. ~(n + 1 <= o)
      BY <1>1, <2>2, <3>1
    <3>3. c = e[2]
      BY <1>1, <1>2, <2>1, <2>2, <3>1, <3>2
    <3>4. n + 1 = o + 1 + P(i + 1)
      <4>1. P(i + 1) = P(i) + 2
        BY <2>1, <2>2
      <4> QED
        BY <1>1, <2>2, <3>1, <4>1
    <3>5. i + 1 <= cap
      <4>1. P(i) + 2 <= P(k) /\ 1 + P(k) <= cap
        BY <2>1, <2>2 DEF P
      <4> QED
        BY <1>3, <2>0, <2>2, <4>1
    <3> QED
      BY <3>3, <3>4, <3>5
  <2>4. /\ SubSeq(d, 1, i + 1) = Append(SubSeq(d, 1, i), d[i + 1])
        /\ Len(SubSeq(d, 1, i)) = i
    BY <1>2, <2>0, SubSeqGrows
  <2>5. \/ d[i + 1] = BREAK /\ c = EBRK
        \/ d[i + 1] = ESC /\ c = ESC
    <3>1. \/ e = <<d[i + 1]>>
          \/ d[i + 1] = BREAK /\ e = <<ESC, EBRK>>
          \/ d[i + 1] = ESC /\ e = <<ESC, ESC>>
      BY <2>0, EscapeOne
    <3> QED
      BY <2>1, <2>3, <3>1
  <2>6. t = At(SubSeq(d, 1, i + 1))
    <3> DEFINE b == SubSeq(d, 1, i)
    <3>1. Len(b) + 1 <= cap /\ Len(b) \in Nat /\ s = AtEscape(b)
      BY <2>0, <2>1, <2>3, <2>4
    <3> HIDE DEF b
    <3>2. t = At(Append(b, d[i + 1]))
      BY <2>5, <3>1, DeByteIs DEF t
    <3> QED
      BY <2>4, <3>2 DEF b
  <2>7. AtByte(t, n + 1, o, d, i + 1)
    BY <2>3, <2>6 DEF AtByte
  <2> QED
    BY <2>0, <2>7 DEF Where
<1>8. ~After(s, n, o, d, k, X, cap)
  <2> SUFFICES ASSUME n = o + 2 + P(k)
               PROVE  FALSE
    BY DEF After
  <2> HIDE DEF P
  <2> QED
    BY <1>1, <1>2, <1>3
<1>9. Where(t, n + 1, o, d, k, X, cap)
  BY <1>4, <1>5, <1>6, <1>7, <1>8 DEF Where, t, c
<1> QED
  BY <1>9 DEF t, c

LEMMA ReadingWhere ==
  ASSUME NEW d, NEW k, NEW X, FrameOf(d, k, X),
         NEW r, NEW o, Carries(r, o, X),
         NEW cap \in Nat, 1 + Len(Stuffed(d)[k]) <= cap, NEW n \in 0..Len(r)
  PROVE  Where(Reading(r, cap)[n], n, o, d, k, X, cap)
<1> DEFINE f == Reading(r, cap)
           Good(m) == Where(f[m], m, o, d, k, X, cap)
           S == {m \in Nat : m <= Len(r) => Good(m)}
<1>1. Len(r) \in Nat /\ o \in Nat
  BY DEF Carries
<1>2. f[0] = Searching /\ \A m \in 1..Len(r) : f[m] = DeByte(f[m - 1], r[m], cap)
  BY <1>1, ReadingSteps, Zenon
<1> HIDE DEF f
<1>3. 0 \in S
  <2>1. Before(f[0], 0, o)
    BY <1>1, <1>2 DEF Before
  <2> QED
    BY <2>1 DEF Where
<1>4. \A m \in S : m + 1 \in S
  <2> SUFFICES ASSUME NEW m \in Nat, m + 1 <= Len(r), Good(m)
               PROVE  Good(m + 1)
    BY <1>1
  <2>1. m + 1 \in 1..Len(r) /\ (m + 1) - 1 = m
    BY <1>1
  <2>2. f[m + 1] = DeByte(f[m], r[m + 1], cap)
    BY <1>2, <2>1
  <2>3. Where(DeByte(f[m], r[m + 1], cap), m + 1, o, d, k, X, cap)
    BY ReadByteStep
  <2> QED
    BY <2>2, <2>3
<1> HIDE DEF S
<1>5. S = Nat
  <2>1. S \in SUBSET Nat
    BY DEF S
  <2> QED
    BY <1>3, <1>4, <2>1, SetInduction
<1>6. Good(n)
  <2>1. n \in Nat /\ n <= Len(r)
    BY <1>1
  <2> HIDE DEF Good
  <2> QED
    BY <1>5, <2>1 DEF S
<1> QED
  BY <1>6 DEF f

LEMMA Beginning ==
  ASSUME NEW S, NEW d \in Seq(S), NEW i \in 0..Len(d)
  PROVE  IsPrefix(SubSeq(d, 1, i), d)
<1>1. Len(SubSeq(d, 1, i)) = i /\ i <= Len(d)
  OBVIOUS
<1>2. SubSeq(SubSeq(d, 1, i), 1, i) = SubSeq(d, 1, i)
  OBVIOUS
<1> QED
  BY <1>1, <1>2 DEF IsPrefix

\* What de_frame makes of such bytes: a beginning of d, and perhaps the byte more;
\* all of it where it reads up to the break at the end.
ReadsAs(g, d, k, X, r, o) ==
  LET p == Len(Stuffed(d)[k])
  IN /\ \/ IsPrefix(g.buf, d)
        \/ X[2 + p] # BREAK /\ Len(X) = 2 + p /\ g.buf = Append(SubSeq(d, 1, k), X[2 + p])
     /\ Len(r) = o + 2 + p /\ k = Len(d) /\ X[2 + p] = BREAK => g = [ret |-> 0, buf |-> d]

LEMMA ReadsBack ==
  ASSUME NEW d, NEW k, NEW X, FrameOf(d, k, X),
         NEW r, NEW o, Carries(r, o, X),
         NEW cap \in Nat, 1 + Len(Stuffed(d)[k]) <= cap
  PROVE  ReadsAs(DeFrame(r, cap), d, k, X, r, o)
<1> DEFINE g == DeFrame(r, cap)
           P(i) == Len(Stuffed(d)[i])
           s == Reading(r, cap)[Len(r)]
           c == X[2 + P(k)]
           b == SubSeq(d, 1, k)
<1>1. /\ d \in Seq(Byte) /\ k \in 0..Len(d) /\ k \in Nat /\ o \in Nat /\ Len(r) \in Nat
      /\ Len(X) \in Nat /\ Len(X) <= 2 + P(k) /\ Len(r) <= o + Len(X)
  BY DEF FrameOf, Carries
<1>2. Where(s, Len(r), o, d, k, X, cap)
  <2>1. Len(r) \in 0..Len(r)
    BY <1>1
  <2> QED
    BY <2>1, ReadingWhere
<1>3. g = [ret |-> IF s.at = "escape" THEN -2 ELSE s.ret, buf |-> s.buf]
  BY DEF DeFrame
<1>4. P(k) \in Nat
  <2>1. k \in 0..k
    BY <1>1
  <2>2. Stuffed(d)[k] \in Seq(Byte)
    BY <1>1, <2>1, StuffedPrefix
  <2> QED
    BY <2>2
<1>5. \A i \in 0..k : P(i) \in Nat /\ P(i) <= P(k)
  <2> TAKE i \in 0..k
  <2>1. Stuffed(d)[i] \in Seq(Byte) /\ P(i) <= P(k)
    BY <1>1, StuffedPrefix
  <2> QED
    BY <2>1
<1>6. \A i \in 0..(k - 1) : P(i) < P(k)
  <2> TAKE i \in 0..(k - 1)
  <2>1. i \in Nat /\ i < k
    BY <1>1
  <2> DEFINE e == Escape(d[i + 1])
  <2>2. P(i) \in Nat /\ (Len(e) = 1 \/ Len(e) = 2) /\ P(i) + Len(e) <= P(k)
    BY <1>1, <2>1, StuffedByte, Zenon
  <2> HIDE DEF P, e
  <2>3. CASE Len(e) = 1
    BY <1>4, <2>2, <2>3
  <2>4. CASE Len(e) = 2
    BY <1>4, <2>2, <2>4
  <2> QED
    BY <2>2, <2>3, <2>4
<1> HIDE DEF g, s, c, b
<1>7. CASE Before(s, Len(r), o)
  <2>1. g.buf = <<>>
    BY <1>3, <1>7 DEF Before, Searching
  <2>2. SubSeq(d, 1, 0) = <<>> /\ 0 \in 0..Len(d)
    BY <1>1
  <2>3. IsPrefix(g.buf, d)
    BY <1>1, <2>1, <2>2, Beginning
  <2>4. Len(r) # o + 2 + P(k)
    <3>1. Len(r) <= o
      BY <1>7 DEF Before
    <3> HIDE DEF P
    <3> QED
      BY <1>1, <1>4, <3>1
  <2> QED
    BY <2>3, <2>4 DEF g, ReadsAs
<1>8. ASSUME NEW i \in 0..k, AtByte(s, Len(r), o, d, i)
      PROVE  IsPrefix(g.buf, d) /\ Len(r) # o + 2 + P(k)
  <2>1. g.buf = SubSeq(d, 1, i)
    BY <1>3, <1>8 DEF AtByte, At
  <2>2. i \in 0..Len(d)
    BY <1>1
  <2>3. IsPrefix(g.buf, d)
    BY <1>1, <2>1, <2>2, Beginning
  <2>4. Len(r) # o + 2 + P(k)
    <3>1. Len(r) = o + 1 + P(i) /\ P(i) \in Nat /\ P(i) <= P(k)
      BY <1>5, <1>8 DEF AtByte
    <3> HIDE DEF P
    <3> QED
      BY <1>1, <1>4, <3>1
  <2> QED
    BY <2>3, <2>4
<1>9. ASSUME NEW i \in 0..(k - 1), WithinEscape(s, Len(r), o, d, i)
      PROVE  IsPrefix(g.buf, d) /\ Len(r) # o + 2 + P(k)
  <2>1. g.buf = SubSeq(d, 1, i)
    BY <1>3, <1>9 DEF WithinEscape, AtEscape
  <2>2. i \in 0..Len(d) /\ i \in 0..k
    BY <1>1
  <2>3. IsPrefix(g.buf, d)
    BY <1>1, <2>1, <2>2, Beginning
  <2>4. Len(r) # o + 2 + P(k)
    <3>1. Len(r) = o + 2 + P(i) /\ P(i) \in Nat /\ P(i) < P(k)
      BY <1>5, <1>6, <1>9, <2>2 DEF WithinEscape
    <3> HIDE DEF P
    <3> QED
      BY <1>1, <1>4, <3>1
  <2> QED
    BY <2>3, <2>4
<1>10. CASE After(s, Len(r), o, d, k, X, cap)
  <2>1. Len(r) = o + 2 + P(k) /\ s = DeByte(At(b), c, cap)
    BY <1>10 DEF After, b, c
  <2>2. Len(X) = 2 + P(k)
    <3>1. Len(r) = o + 2 + P(k)
      BY <2>1
    <3> HIDE DEF P
    <3> QED
      BY <1>1, <1>4, <3>1
  <2>3. IsPrefix(b, d)
    BY <1>1, Beginning DEF b
  <2>4. CASE c = BREAK
    <3>1. s = [at |-> "end", buf |-> b, ret |-> 0]
      BY <2>1, <2>4, DeByteIs
    <3>2. g = [ret |-> 0, buf |-> b]
      BY <1>3, <3>1
    <3>3. k = Len(d) => b = d
      BY <1>1 DEF b
    <3> QED
      BY <2>3, <3>2, <3>3 DEF g, c, ReadsAs
  <2>5. CASE c # BREAK
    <3>1. s.buf \in {b, Append(b, c)}
      BY <2>1, DeByteIs
    <3>2. g.buf = b \/ g.buf = Append(b, c)
      BY <1>3, <3>1
    <3> QED
      BY <2>2, <2>3, <2>5, <3>2 DEF g, b, c, ReadsAs
  <2> QED
    BY <2>4, <2>5
<1> QED
  BY <1>2, <1>7, <1>8, <1>9, <1>10 DEF Where, g, c, b, ReadsAs

LEMMA TakenIs ==
  ASSUME NEW d \in Seq(Byte), NEW size \in Nat \ {0}
  PROVE  LET k == Taken(d, size)
             P(i) == Len(Stuffed(d)[i])
         IN /\ k \in 0..Len(d)
            /\ 0 < k => 1 + P(k) <= size
            /\ k < Len(d) => 1 + P(k + 1) > size
<1> DEFINE P(i) == Len(Stuffed(d)[i])
           T == {i \in 0..Len(d) : i < Len(d) => 1 + P(i + 1) > size}
<1>1. Len(d) \in Nat
  OBVIOUS
<1>2. PICK k \in T : \A y \in T : k <= y
  <2>1. T \in SUBSET Nat
    BY <1>1
  <2>2. Len(d) \in T
    BY <1>1
  <2> QED
    BY <2>1, <2>2, LeastNat
<1>3. ASSUME 0 < k
      PROVE  1 + P(k) <= size
  <2>1. k - 1 \in 0..Len(d) /\ k - 1 < Len(d) /\ (k - 1) + 1 = k /\ ~(k <= k - 1) /\ k \in 0..Len(d)
    BY <1>1, <1>2, <1>3
  <2>2. k - 1 \notin T
    BY <1>2, <2>1
  <2>3. ~(1 + P(k) > size)
    BY <2>1, <2>2
  <2>4. P(k) \in Nat
    <3>1. k \in 0..k
      BY <1>1, <2>1
    <3>2. Stuffed(d)[k] \in Seq(Byte)
      BY <2>1, <3>1, StuffedPrefix
    <3> QED
      BY <3>2
  <2> HIDE DEF P
  <2> QED
    BY <2>3, <2>4
<1>4. k \in 0..Len(d) /\ (k < Len(d) => 1 + P(k + 1) > size)
  BY <1>2
<1> QED
  BY <1>3, <1>4 DEF Taken

\* The bytes on the link carry a frame of the data.
Carried(X, k, o) ==
  /\ FrameOf(data, k, X) /\ Carries(raw, o, X) /\ 1 + Len(Stuffed(data)[k]) <= LINK_MTU
  /\ state # "queued_cut" =>
       k = Len(data) /\ Len(X) = 2 + Len(Stuffed(data)[k]) /\ X[2 + Len(Stuffed(data)[k])] = BREAK
  /\ state = "whole" => Len(raw) = o + Len(X)

FramingInv ==
  /\ data \in Seq(Byte)
  /\ state = "none" => got = NoFrame
  /\ state # "none" => \E X, k, o : Carried(X, k, o)
  /\ DataRestored

LEMMA SendInv ==
  ASSUME NEW d \in BoundedSeq(Byte, DataLen), Send(d)
  PROVE  FramingInv'
<1> DEFINE size == LINK_MTU
           e == EnFrame(d, size)
           k == Taken(d, size)
           f == Stuffed(d)[k]
           body == <<BREAK>> \o f
<1>1. d \in Seq(Byte) /\ size \in Nat \ {0}
  BY FramingAssumption DEF BoundedSeq, SeqOf
<1>2. /\ k \in 0..Len(d)
      /\ 0 < k => 1 + Len(f) <= size
      /\ k < Len(d) => 1 + Len(Stuffed(d)[k + 1]) > size
  BY <1>1, TakenIs
<1>3. f \in Seq(Byte)
  <2>1. k \in 0..k
    BY <1>2
  <2> HIDE DEF k
  <2> QED
    BY <1>1, <1>2, <2>1, StuffedPrefix
<1>4. Len(f) \in Nat /\ 1 + Len(f) <= size
  <2>1. CASE k = 0
    <3>1. f = <<>>
      <4>1. Len(d) \in Nat
        BY <1>1
      <4>2. Stuffed(d)[0] = <<>>
        BY <4>1, StuffedSteps
      <4> QED
        BY <2>1, <4>2
    <3> QED
      BY <1>1, <3>1
  <2>2. CASE 0 < k
    BY <1>2, <1>3, <2>2
  <2> QED
    BY <1>2, <2>1, <2>2
<1>5. /\ body \in Seq(Byte) /\ Len(body) = 1 + Len(f)
      /\ body[1] = BREAK /\ \A n \in 1..Len(f) : body[n + 1] = f[n]
  <2>1. BREAK \in Byte
    BY DEF Byte
  <2> HIDE DEF f
  <2> QED
    BY <1>3, <2>1
<1>6. /\ data' = d /\ got' = NoFrame
      /\ IF e.len >= 0 THEN raw' = e.frm /\ state' = "whole"
         ELSE /\ \E rest \in [1..(size - Len(e.frm)) -> Byte] : raw' = e.frm \o rest
              /\ state' = "queued_cut"
  BY DEF Send
<1>7. /\ e.len = IF k = Len(d) /\ Len(body) + 1 <= size THEN Len(body) + 1 ELSE -1
      /\ e.frm = IF k = Len(d) /\ Len(body) + 1 <= size THEN Append(body, BREAK) ELSE body
  BY DEF EnFrame
<1> HIDE DEF e, k, f, body, size
<1>8. CASE k = Len(d) /\ Len(body) + 1 <= size
  <2>1. raw' = Append(body, BREAK) /\ state' = "whole"
    BY <1>4, <1>5, <1>6, <1>7, <1>8
  <2>2. BREAK \in Byte
    BY DEF Byte
  <2>3. /\ raw' \in Seq(Byte) /\ Len(raw') = 2 + Len(f) /\ raw'[2 + Len(f)] = BREAK
        /\ raw'[1] = BREAK /\ \A n \in 1..Len(f) : raw'[n + 1] = f[n]
    BY <1>4, <1>5, <2>1, <2>2
  <2>4. FrameOf(d, k, raw')
    BY <1>1, <1>2, <1>4, <2>3 DEF FrameOf, f
  <2>5. Carries(raw', 0, raw')
    BY <2>3 DEF Carries
  <2>6. ASSUME NEW X, X = raw'
        PROVE  Carried(X, k, 0)'
    <3>1. FrameOf(data', k, X) /\ Carries(raw', 0, X)
      BY <1>6, <2>6, <1>8, <2>1, <2>3, <2>4, <2>5
    <3>2. 1 + Len(Stuffed(data')[k]) <= LINK_MTU /\ data' = d
      BY <1>4, <1>6 DEF f, size
    <3> QED
      BY <2>6, <1>8, <2>1, <2>3, <2>4, <2>5, <3>1, <3>2 DEF Carried, f
  <2> QED
    BY <1>1, <1>6, <2>1, <2>6 DEF FramingInv, DataRestored, FrameRestored, CutGivesPrefix
<1>9. CASE ~(k = Len(d) /\ Len(body) + 1 <= size)
  <2>1. state' = "queued_cut" /\ \E rest \in [1..(size - Len(body)) -> Byte] : raw' = body \o rest
    BY <1>6, <1>7, <1>9
  <2>2. PICK rest \in [1..(size - Len(body)) -> Byte] : raw' = body \o rest
    BY <2>1
  <2>3. size - Len(body) \in {0, 1}
    <3>1. CASE k = Len(d)
      BY <1>1, <1>4, <1>5, <1>9, <3>1
    <3>2. CASE k < Len(d)
      <4>1. k \in Nat /\ k + 1 \in 0..Len(d) /\ k < k + 1
        BY <1>1, <1>2, <3>2
      <4> DEFINE x == Escape(d[k + 1])
                 q == Len(Stuffed(d)[k + 1])
      <4>2. q = Len(f) + Len(x) /\ (Len(x) = 1 \/ Len(x) = 2)
        BY <1>1, <4>1, StuffedByte, Zenon DEF f
      <4>3. 1 + q > size
        BY <1>2, <3>2
      <4> HIDE DEF q, x
      <4>4. CASE Len(x) = 1
        BY <1>1, <1>4, <1>5, <4>2, <4>3, <4>4
      <4>5. CASE Len(x) = 2
        BY <1>1, <1>4, <1>5, <4>2, <4>3, <4>5
      <4> QED
        BY <4>2, <4>4, <4>5
    <3> QED
      BY <1>1, <1>2, <3>1, <3>2
  <2>4. rest \in Seq(Byte) /\ Len(rest) = size - Len(body)
    BY <2>3
  <2>5. /\ raw' \in Seq(Byte) /\ Len(raw') = Len(body) + Len(rest)
        /\ \A n \in 1..Len(body) : raw'[n] = body[n]
    <3>1. /\ body \o rest \in Seq(Byte) /\ Len(body \o rest) = Len(body) + Len(rest)
          /\ \A n \in 1..Len(body) : (body \o rest)[n] = body[n]
      <4>1. body \in Seq(Byte) /\ Len(body) \in Nat
        BY <1>4, <1>5
      <4> HIDE DEF body
      <4> QED
        BY <2>4, <4>1
    <3> QED
      BY <2>2, <3>1
  <2>6. /\ raw'[1] = BREAK /\ \A n \in 1..Len(f) : raw'[n + 1] = f[n]
    BY <1>4, <1>5, <2>5
  <2>7. 1 + Len(f) <= Len(raw') /\ Len(raw') <= 2 + Len(f)
    BY <1>1, <1>4, <1>5, <2>3, <2>4, <2>5
  <2>8. FrameOf(d, k, raw')
    BY <1>1, <1>2, <2>5, <2>6, <2>7 DEF FrameOf, f
  <2>9. Carries(raw', 0, raw')
    BY <2>5 DEF Carries
  <2>10. ASSUME NEW X, X = raw'
        PROVE  Carried(X, k, 0)'
    <3>1. FrameOf(data', k, X) /\ Carries(raw', 0, X)
      BY <1>6, <2>10, <2>1, <2>8, <2>9
    <3>2. 1 + Len(Stuffed(data')[k]) <= LINK_MTU /\ data' = d
      BY <1>4, <1>6 DEF f, size
    <3> QED
      BY <2>10, <2>1, <2>8, <2>9, <3>1, <3>2 DEF Carried, f
  <2> QED
    BY <1>1, <1>6, <2>1, <2>10 DEF FramingInv, DataRestored, FrameRestored, CutGivesPrefix
<1> QED
  BY <1>8, <1>9

LEMMA NoiseInv ==
  ASSUME FramingInv, got = NoFrame, LinkNoise
  PROVE  FramingInv'
<1>1. PICK X, k, o : Carried(X, k, o)
  BY DEF FramingInv, LinkNoise
<1>2. PICK m \in 1..NoiseLen : \E y \in [1..m -> Byte \ {BREAK}] : raw' = y \o raw
  BY DEF LinkNoise
<1>10. PICK noise \in [1..m -> Byte \ {BREAK}] : raw' = noise \o raw
  BY <1>2
<1>3. raw \in Seq(Byte) /\ Len(raw) > 0 /\ raw[1] = BREAK /\ m \in Nat
  BY <1>1, FramingAssumption DEF LinkNoise, Carried, Carries
<1>4. o = 0
  BY <1>1, <1>3 DEF Carried, Carries
<1>5. noise \in Seq(Byte) /\ Len(noise) = m /\ \A n \in 1..m : noise[n] # BREAK
  BY <1>3
<1>6. /\ raw' \in Seq(Byte) /\ Len(raw') = m + Len(raw)
      /\ \A n \in 1..Len(raw') : raw'[n] = IF n <= m THEN noise[n] ELSE raw[n - m]
  <2>1. /\ noise \o raw \in Seq(Byte) /\ Len(noise \o raw) = Len(noise) + Len(raw)
        /\ \A n \in 1..(Len(noise) + Len(raw)) :
             (noise \o raw)[n] = IF n <= Len(noise) THEN noise[n] ELSE raw[n - Len(noise)]
    BY <1>3, <1>5, ConcatProperties
  <2> QED
    BY <1>10, <1>5, <2>1
<1>7. Len(raw) \in Nat /\ Len(raw) <= Len(X) /\ \A n \in 1..Len(raw) : raw[n] = X[n]
  <2>1. \A n \in 1..Len(raw) : ~(n <= 0) /\ n - 0 = n
    BY <1>3
  <2> QED
    BY <1>1, <1>3, <1>4, <2>1 DEF Carried, Carries, FrameOf
<1>8. Carries(raw', m, X)
  <2>1. Len(raw') <= m + Len(X)
    BY <1>1, <1>3, <1>6, <1>7 DEF Carried, FrameOf
  <2>2. ASSUME NEW n \in 1..Len(raw')
        PROVE  IF n <= m THEN raw'[n] # BREAK ELSE raw'[n] = X[n - m]
    <3>1. CASE n <= m
      BY <1>3, <1>5, <1>6, <3>1
    <3>2. CASE ~(n <= m)
      <4>1. n - m \in 1..Len(raw)
        BY <1>3, <1>6, <1>7, <3>2
      <4> QED
        BY <1>6, <1>7, <3>2, <4>1
    <3> QED
      BY <3>1, <3>2
  <2> QED
    BY <1>3, <1>6, <2>1, <2>2 DEF Carries
<1>9. Carried(X, k, m)'
  <2>1. state = "whole" => Len(raw') = m + Len(X)
    <3>1. Len(X) \in Nat /\ (state = "whole" => Len(raw) = 0 + Len(X))
      BY <1>1, <1>4 DEF Carried, FrameOf
    <3> QED
      <4>1. Len(raw') = m + Len(raw) /\ m \in Nat /\ Len(raw) \in Nat
        BY <1>3, <1>6, <1>7
      <4> QED
        BY <3>1, <4>1
  <2> QED
    BY <1>1, <1>8, <2>1 DEF Carried, LinkNoise
<1> QED
  BY <1>9 DEF FramingInv, LinkNoise, DataRestored, FrameRestored, CutGivesPrefix

LEMMA LosesEndInv ==
  ASSUME FramingInv, got = NoFrame, LinkLosesEnd
  PROVE  FramingInv'
<1>1. PICK X, k, o : Carried(X, k, o)
  BY DEF FramingInv, LinkLosesEnd
<1>2. PICK n \in 0..(Len(raw) - 1) : raw' = SubSeq(raw, 1, n)
  BY DEF LinkLosesEnd
<1>3. raw \in Seq(Byte) /\ o \in Nat /\ Len(raw) <= o + Len(X) /\ Len(X) \in Nat
  BY <1>1 DEF Carried, Carries, FrameOf
<1>4. raw' \in Seq(Byte) /\ Len(raw') = n /\ n <= Len(raw) /\ \A i \in 1..n : raw'[i] = raw[i]
  BY <1>2, <1>3
<1>5. Carries(raw', o, X)
  <2>1. \A i \in 1..n : i \in 1..Len(raw)
    BY <1>3, <1>4
  <2>2. Len(raw') <= o + Len(X)
    BY <1>3, <1>4
  <2> QED
    BY <1>1, <1>3, <1>4, <2>1, <2>2 DEF Carried, Carries
<1>6. Carried(X, k, o)'
  BY <1>1, <1>5 DEF Carried, LinkLosesEnd
<1> QED
  BY <1>6 DEF FramingInv, LinkLosesEnd, DataRestored, FrameRestored, CutGivesPrefix

LEMMA LowerPutInv ==
  ASSUME FramingInv, LowerPut
  PROVE  FramingInv'
<1>1. PICK X, k, o : Carried(X, k, o)
  BY DEF FramingInv, LowerPut
<1> DEFINE g == DeFrame(raw, LINK_MTU)
           p == Len(Stuffed(data)[k])
           b == SubSeq(data, 1, k)
           c == X[2 + p]
<1>2. /\ \/ IsPrefix(g.buf, data)
         \/ c # BREAK /\ Len(X) = 2 + p /\ g.buf = Append(b, c)
      /\ Len(raw) = o + 2 + p /\ k = Len(data) /\ c = BREAK => g = [ret |-> 0, buf |-> data]
  <2>1. FrameOf(data, k, X) /\ Carries(raw, o, X) /\ 1 + p <= LINK_MTU /\ LINK_MTU \in Nat
    BY <1>1, FramingAssumption DEF Carried
  <2>2. ReadsAs(g, data, k, X, raw, o)
    BY <2>1, ReadsBack
  <2> QED
    BY <2>2 DEF ReadsAs
<1>3. /\ data \in Seq(Byte) /\ k \in 0..Len(data) /\ X \in Seq(Byte) /\ o \in Nat
      /\ state # "queued_cut" => k = Len(data) /\ Len(X) = 2 + p /\ c = BREAK
      /\ state = "whole" => Len(raw) = o + Len(X)
  BY <1>1 DEF Carried, Carries, FrameOf
<1>4. p \in Nat
  <2>1. k \in 0..k
    BY <1>3
  <2>2. Stuffed(data)[k] \in Seq(Byte)
    BY <1>3, <2>1, StuffedPrefix
  <2> QED
    BY <2>2
<1>5. got' = g /\ data' = data /\ state' = state /\ raw' = raw
  BY DEF LowerPut
<1> HIDE DEF g, p, c, b
<1>6. state = "whole" => g = [ret |-> 0, buf |-> data]
  <2>1. ASSUME state = "whole"
        PROVE  Len(raw) = o + 2 + p
    BY <1>3, <1>4, <2>1
  <2> QED
    BY <1>2, <1>3, <2>1
<1>7. c # BREAK /\ Len(X) = 2 + p /\ g.buf = Append(b, c) =>
        g.buf # <<>> /\ IsPrefix(Front(g.buf), data)
  <2> SUFFICES ASSUME Len(X) = 2 + p, g.buf = Append(b, c)
               PROVE  g.buf # <<>> /\ IsPrefix(Front(g.buf), data)
    OBVIOUS
  <2>1. c \in Byte
    <3>1. 2 + p \in 1..Len(X)
      BY <1>4
    <3> QED
      BY <1>3, <3>1 DEF c
  <2>2. b \in Seq(Byte) /\ IsPrefix(b, data)
    BY <1>3, Beginning DEF b
  <2>3. Front(Append(b, c)) = b /\ Append(b, c) # <<>>
    BY <2>1, <2>2 DEF Front
  <2> QED
    BY <2>2, <2>3
<1>8. Carried(X, k, o)'
  BY <1>1, <1>5 DEF Carried
<1>9. DataRestored'
  BY <1>2, <1>3, <1>5, <1>6, <1>7 DEF DataRestored, FrameRestored, CutGivesPrefix
<1> QED
  BY <1>5, <1>8, <1>9 DEF FramingInv, LowerPut

LEMMA FramingInductive ==
  /\ FramingInit => FramingInv
  /\ FramingInv /\ [FramingNext]_framingVars => FramingInv'
<1>1. FramingInit => FramingInv
  BY DEF FramingInit, FramingInv, DataRestored, FrameRestored, CutGivesPrefix
<1>2. ASSUME FramingInv, [FramingNext]_framingVars
      PROVE  FramingInv'
  <2>1. CASE \E d \in BoundedSeq(Byte, DataLen) : Send(d)
    BY <2>1, SendInv
  <2>2. CASE got = NoFrame /\ LinkNoise
    BY <1>2, <2>2, NoiseInv
  <2>3. CASE got = NoFrame /\ LinkLosesEnd
    BY <1>2, <2>3, LosesEndInv
  <2>4. CASE LowerPut
    BY <1>2, <2>4, LowerPutInv
  <2>5. CASE NextFrame
    BY <2>5 DEF NextFrame, FramingInv, DataRestored, FrameRestored, CutGivesPrefix
  <2>6. CASE UNCHANGED framingVars
    BY <1>2, <2>6 DEF framingVars, FramingInv, Carried, DataRestored, FrameRestored, CutGivesPrefix
  <2> QED
    BY <1>2, <2>1, <2>2, <2>3, <2>4, <2>5, <2>6 DEF FramingNext
<1> QED
  BY <1>1, <1>2

\* en_frame and de_frame, whatever the bytes and wherever the frame is cut: one
\* that arrives whole gives back the data, breaks and escapes included, and of any
\* other lower_put gets a beginning of the data, with at most one foreign byte.
THEOREM FramesRestored == FramingSpec => []DataRestored
<1>1. FramingInv => DataRestored
  BY DEF FramingInv
<1> QED
  BY <1>1, FramingInductive, PTL DEF FramingSpec

-----------------------------------------------------------------------------
(* The format of compacted packets. *)

\* Appending, and a part of a sequence, as relations whose meaning only the
\* next lemmas use: what is appended changes no field before it, and is read
\* back after them.
Value == STRING \cup {"seq1", "seq2", "ack1", "ack2", "window", "urg_ptr", "check"}

Values == Seq(Value)

Joined(t, u, v) == t \in Values /\ u \in Values /\ v = t \o u

Part(t, i, j) == SubSeq(t, i, j)

LEMMA JoinedLen ==
  ASSUME NEW t, NEW u, NEW v, Joined(t, u, v)
  PROVE  Len(v) = Len(t) + Len(u) /\ Len(t) \in Nat /\ Len(u) \in Nat
BY DEF Joined, Values

LEMMA JoinedLast ==
  ASSUME NEW t, NEW u, NEW v, Joined(t, u, v)
  PROVE  Part(v, Len(t) + 1, Len(v)) = u
<1>1. SubSeq(t \o u, Len(t) + 1, Len(t \o u)) = u
  BY DEF Joined, Values
<1> QED
  BY <1>1 DEF Joined, Part

\* Every part of t is that part of v.
Kept(t, v) ==
  /\ Len(t) \in Nat /\ Len(v) \in Nat /\ Len(t) <= Len(v)
  /\ \A i, j \in Nat : 1 <= i /\ i <= Len(t) + 1 /\ j <= Len(t) => Part(v, i, j) = Part(t, i, j)

LEMMA JoinedKept ==
  ASSUME NEW t, NEW u, NEW v, Joined(t, u, v)
  PROVE  Kept(t, v)
<1>1. \A x \in 1..Len(t) : (t \o u)[x] = t[x]
  BY DEF Joined, Values
<1>2. \A i, j \in Nat : 1 <= i /\ i <= Len(t) + 1 /\ j <= Len(t) =>
                       SubSeq(t \o u, i, j) = SubSeq(t, i, j)
  BY <1>1 DEF Joined, Values
<1>3. v = t \o u /\ Len(t) \in Nat /\ Len(v) \in Nat /\ Len(t) <= Len(v)
  BY JoinedLen DEF Joined
<1> QED
  BY <1>2, <1>3 DEF Kept, Part

LEMMA KeptOn ==
  ASSUME NEW t, NEW u, NEW v, Kept(t, u), Kept(u, v)
  PROVE  Kept(t, v)
<1> SUFFICES ASSUME NEW i \in Nat, NEW j \in Nat, 1 <= i, i <= Len(t) + 1, j <= Len(t)
             PROVE  Part(v, i, j) = Part(t, i, j)
  BY DEF Kept
<1>1. i <= Len(u) + 1 /\ j <= Len(u)
  BY DEF Kept
<1> QED
  BY <1>1 DEF Kept

LEMMA PartKept ==
  ASSUME NEW t, NEW v, Kept(t, v), NEW n \in Nat, n <= Len(t)
  PROVE  Part(v, n + 1, Len(t)) = Part(t, n + 1, Len(t))
BY DEF Kept

LEMMA SixFields ==
  ASSUME NEW s, NEW a, NEW w, NEW u, NEW c, NEW b,
         NEW sa, NEW saw, NEW sawu, NEW sawuc, NEW d, Len(c) = 1,
         Joined(<<>>, s, s), Joined(s, a, sa), Joined(sa, w, saw),
         Joined(saw, u, sawu), Joined(sawu, c, sawuc), Joined(sawuc, b, d)
  PROVE  /\ Len(s) \in Nat /\ Len(sa) = Len(s) + Len(a) /\ Len(saw) = Len(sa) + Len(w)
         /\ Len(sawu) = Len(saw) + Len(u) /\ Len(sawu) \in Nat
         /\ Len(d) = Len(sawu) + 1 + Len(b) /\ Len(b) \in Nat
         /\ Part(d, 1, Len(s)) = s /\ Part(d, Len(s) + 1, Len(sa)) = a
         /\ Part(d, Len(sa) + 1, Len(saw)) = w /\ Part(d, Len(saw) + 1, Len(sawu)) = u
         /\ Part(d, Len(sawu) + 1, Len(sawu) + 1) = c
         /\ Part(d, Len(sawu) + 2, Len(d)) = b
<1> DEFINE ls == Len(s)
           la == Len(sa)
           lw == Len(saw)
           lu == Len(sawu)
           lc == Len(sawuc)
           ld == Len(d)
<1>1. ls \in Nat /\ Len(a) \in Nat /\ la = ls + Len(a)
  BY JoinedLen
<1>2. Len(w) \in Nat /\ lw = la + Len(w)
  BY JoinedLen
<1>3. Len(u) \in Nat /\ lu = lw + Len(u)
  BY JoinedLen
<1>4. lc = lu + Len(c) /\ ld = lc + Len(b) /\ Len(b) \in Nat
  BY JoinedLen
<1>5. /\ Part(s, Len(<<>>) + 1, ls) = s /\ Part(sa, ls + 1, la) = a /\ Part(saw, la + 1, lw) = w
      /\ Part(sawu, lw + 1, lu) = u /\ Part(sawuc, lu + 1, lc) = c /\ Part(d, lc + 1, ld) = b
  BY JoinedLast
<1>6. Len(<<>>) = 0
  OBVIOUS
<1>7. Kept(s, d) /\ Kept(sa, d) /\ Kept(saw, d) /\ Kept(sawu, d) /\ Kept(sawuc, d)
  BY JoinedKept, KeptOn
<1>8. /\ la \in Nat /\ lw \in Nat /\ lu \in Nat /\ lc = lu + 1
      /\ 0 <= ls /\ ls <= la /\ la <= lw /\ lw <= lu /\ lu <= lc
  BY <1>1, <1>2, <1>3, <1>4
<1>9. Part(d, 0 + 1, ls) = s
  BY <1>1, <1>5, <1>6, <1>7, <1>8, PartKept
<1>10. Part(d, ls + 1, la) = a
  BY <1>1, <1>5, <1>7, <1>8, PartKept
<1>11. Part(d, la + 1, lw) = w
  BY <1>5, <1>7, <1>8, PartKept
<1>12. Part(d, lw + 1, lu) = u
  BY <1>5, <1>7, <1>8, PartKept
<1>13. Part(d, lu + 1, lc) = c
  BY <1>5, <1>7, <1>8, PartKept
<1>14. 0 + 1 = 1 /\ lc + 1 = lu + 2 /\ ld = lu + 1 + Len(b)
  BY <1>4, <1>8
<1> HIDE DEF ls, la, lw, lu, lc, ld
<1>15. /\ Part(d, 1, ls) = s /\ Part(d, lu + 1, lu + 1) = c /\ Part(d, lu + 2, ld) = b
  BY <1>5, <1>8, <1>9, <1>13, <1>14
<1> QED
  BY <1>1, <1>2, <1>3, <1>4, <1>8, <1>10, <1>11, <1>12, <1>14, <1>15 DEF ls, la, lw, lu, lc, ld

LEMMA JoinedIn ==
  ASSUME NEW t \in Values, NEW u \in Values
  PROVE  t \o u \in Values
BY DEF Values

LEMMA SeqWidened ==
  ASSUME NEW S, NEW T, S \subseteq T
  PROVE  Seq(S) \subseteq Seq(T)
OBVIOUS

LEMMA NoValue == <<>> \in Values /\ Len(<<>>) = 0
BY DEF Values

LEMMA OneValue ==
  ASSUME NEW x \in Value
  PROVE  <<x>> \in Values /\ Len(<<x>>) = 1 /\ <<x>>[1] = x
BY OneOf, Zenon DEF Values

LEMMA TwoValues ==
  ASSUME NEW x \in Value, NEW y \in Value
  PROVE  <<x, y>> \in Values /\ Len(<<x, y>>) = 2
BY TwoOf, Zenon DEF Values

LEMMA FlagsCoded ==
  ASSUME NEW flags \in SUBSET Flags, Coded(flags)
  PROVE  /\ FlagCode(flags) \in 0..7
         /\ FlagCode(flags) = 0 \/ FlagCode(flags) >= 5 <=> "urg" \in flags
         /\ FlagsOf(FlagCode(flags)) = flags \ {"ack", "urg"}
<1> DEFINE f == flags \ {"ack"}
<1>1. CASE f = {"syn"}
  BY <1>1 DEF FlagCode, FlagsOf, Flags
<1>2. CASE f = {"fin"}
  BY <1>2 DEF FlagCode, FlagsOf, Flags
<1>3. CASE f = {"psh"}
  BY <1>3 DEF FlagCode, FlagsOf, Flags
<1>4. CASE f = {"syn", "urg"}
  BY <1>4 DEF FlagCode, FlagsOf, Flags
<1>5. CASE f = {"fin", "urg"}
  BY <1>5 DEF FlagCode, FlagsOf, Flags
<1>6. CASE f = {"psh", "urg"}
  BY <1>6 DEF FlagCode, FlagsOf, Flags
<1>7. CASE f = {"rst"}
  BY <1>7 DEF FlagCode, FlagsOf, Flags
<1>8. CASE f = {"urg"}
  BY <1>8 DEF FlagCode, FlagsOf, Flags
<1> QED
  BY <1>1, <1>2, <1>3, <1>4, <1>5, <1>6, <1>7, <1>8 DEF Coded

LEMMA TcpByte ==
  ASSUME NEW code \in 0..7, NEW ackBit \in {0, 16}
  PROVE  LET i == code + SBit + WBit + ackBit
             byte == 64 * FRM_TCP + i
         IN /\ byte \div 64 = FRM_TCP /\ byte % 64 = i /\ ~LooksLikeIp(byte)
            /\ Bit(i, SBit) /\ Bit(i, WBit) /\ (Bit(i, ABit) <=> ackBit = 16)
            /\ Code(i) = code
<1>1. CASE ackBit = 0
  BY <1>1 DEF SBit, WBit, ABit, FRM_TCP, LooksLikeIp, Bit, Code
<1>2. CASE ackBit = 16
  BY <1>2 DEF SBit, WBit, ABit, FRM_TCP, LooksLikeIp, Bit, Code
<1> QED BY <1>1, <1>2

TcpOut(p) ==
  [kind |-> "tcp", flags |-> p.flags, body |-> p.body, check |-> "check",
   seq |-> <<"seq1", "seq2">>, window |-> <<"window">>,
   ack_seq |-> If("ack" \in p.flags, <<"ack1", "ack2">>),
   urg_ptr |-> If("urg" \in p.flags, <<"urg_ptr">>)]


LEMMA TcpReadBack ==
  ASSUME NEW p \in TcpPkts, Coded(p.flags), NEW i \in Nat,
         Bit(i, SBit), Bit(i, WBit), Bit(i, ABit) <=> "ack" \in p.flags,
         Code(i) = FlagCode(p.flags)
  PROVE  RecvTcp(i, TcpData(p)) = TcpOut(p)
<1> DEFINE s == <<"seq1", "seq2">>
           a == If("ack" \in p.flags, <<"ack1", "ack2">>)
           w == <<"window">>
           u == If("urg" \in p.flags, <<"urg_ptr">>)
           c == <<"check">>
           b == p.body
           sa == s \o a
           saw == sa \o w
           sawu == saw \o u
           sawuc == sawu \o c
           d == sawuc \o b
<1>1. b \in Values /\ p.flags \in SUBSET Flags
  <2>1. p.body \in Seq(STRING) /\ p.flags \in SUBSET Flags
    BY BodiesAssumption DEF TcpPkts
  <2>2. STRING \subseteq Value
    BY DEF Value
  <2> QED
    BY <2>1, <2>2, SeqWidened DEF Values
<1>2. HasUrg(i) <=> "urg" \in p.flags
  BY <1>1, FlagsCoded DEF HasUrg
<1>3. FlagsOf(Code(i)) \cup {f \in {"ack"} : Bit(i, ABit)} \cup {f \in {"urg"} : HasUrg(i)} = p.flags
  BY <1>1, <1>2, FlagsCoded
<1>4. /\ s \in Values /\ a \in Values /\ w \in Values
      /\ u \in Values /\ c \in Values
      /\ Len(s) = Has(Bit(i, SBit), 2) /\ Len(a) = Has(Bit(i, ABit), 2)
      /\ Len(w) = Has(Bit(i, WBit), 1) /\ Len(u) = Has(HasUrg(i), 1)
      /\ Len(c) = 1 /\ c[1] = "check"
  <2>0. /\ "seq1" \in Value /\ "seq2" \in Value /\ "ack1" \in Value /\ "ack2" \in Value
        /\ "window" \in Value /\ "urg_ptr" \in Value /\ "check" \in Value
    BY DEF Value
  <2>1. s \in Values /\ Len(s) = 2
    BY <2>0, TwoValues, Zenon
  <2>2. w \in Values /\ Len(w) = 1 /\ c \in Values /\ Len(c) = 1 /\ c[1] = "check"
    BY <2>0, OneValue, Zenon
  <2>3. <<"ack1", "ack2">> \in Values /\ Len(<<"ack1", "ack2">>) = 2
    BY <2>0, TwoValues, Zenon
  <2>4. <<"urg_ptr">> \in Values /\ Len(<<"urg_ptr">>) = 1
    BY <2>0, OneValue, Zenon
  <2>5. a \in Values /\ Len(a) = Has(Bit(i, ABit), 2)
    <3>1. CASE "ack" \in p.flags
      BY <2>3, <3>1, Zenon DEF Has, If
    <3>2. CASE "ack" \notin p.flags
      <4>1. a = <<>> /\ Has(Bit(i, ABit), 2) = 0
        BY <3>2 DEF Has, If
      <4> QED
        BY <4>1, NoValue
    <3> QED
      BY <3>1, <3>2
  <2>6. u \in Values /\ Len(u) = Has(HasUrg(i), 1)
    <3>1. CASE "urg" \in p.flags
      BY <1>2, <2>4, <3>1, Zenon DEF Has, If
    <3>2. CASE "urg" \notin p.flags
      <4>1. u = <<>> /\ Has(HasUrg(i), 1) = 0
        BY <1>2, <3>2 DEF Has, If
      <4> QED
        BY <4>1, NoValue
    <3> QED
      BY <3>1, <3>2
  <2> HIDE DEF s, a, w, u, c
  <2> QED
    BY <2>1, <2>2, <2>5, <2>6 DEF Has
<1>5. TcpData(p) = d
  BY DEF TcpData
<1>6. TcpOut(p) = [kind |-> "tcp", flags |-> p.flags, body |-> b, check |-> c[1],
                   seq |-> s, window |-> w, ack_seq |-> a, urg_ptr |-> u]
  BY DEF TcpOut
<1> HIDE DEF s, a, w, u, c, b, sa, saw, sawu, sawuc, d
<1>7. /\ Joined(<<>>, s, s) /\ Joined(s, a, sa) /\ Joined(sa, w, saw)
      /\ Joined(saw, u, sawu) /\ Joined(sawu, c, sawuc)
      /\ Joined(sawuc, b, d)
  <2>1. s = <<>> \o s
    BY <1>4 DEF Values
  <2>2. sa \in Values
    BY <1>4, JoinedIn DEF sa
  <2>3. saw \in Values
    BY <1>4, <2>2, JoinedIn DEF saw
  <2>4. sawu \in Values
    BY <1>4, <2>3, JoinedIn DEF sawu
  <2>5. sawuc \in Values
    BY <1>4, <2>4, JoinedIn DEF sawuc
  <2>6. Joined(<<>>, s, s)
    BY <1>4, <2>1, NoValue DEF Joined
  <2>7. Joined(s, a, sa) /\ Joined(sa, w, saw)
    BY <1>4, <2>2 DEF Joined, sa, saw
  <2>8. Joined(saw, u, sawu) /\ Joined(sawu, c, sawuc)
    BY <1>4, <2>3, <2>4 DEF Joined, sawu, sawuc
  <2>9. Joined(sawuc, b, d)
    BY <1>1, <2>5 DEF Joined, d
  <2> QED
    BY <2>6, <2>7, <2>8, <2>9
<1>8. /\ Len(s) \in Nat /\ Len(sa) = Len(s) + Len(a) /\ Len(saw) = Len(sa) + Len(w)
      /\ Len(sawu) = Len(saw) + Len(u) /\ Len(sawu) \in Nat
      /\ Len(d) = Len(sawu) + 1 + Len(b) /\ Len(b) \in Nat
      /\ Part(d, 1, Len(s)) = s /\ Part(d, Len(s) + 1, Len(sa)) = a
      /\ Part(d, Len(sa) + 1, Len(saw)) = w /\ Part(d, Len(saw) + 1, Len(sawu)) = u
      /\ Part(d, Len(sawu) + 1, Len(sawu) + 1) = c
      /\ Part(d, Len(sawu) + 2, Len(d)) = b
  <2>1. Len(c) = 1
    BY <1>4
  <2> QED
    BY <1>7, <2>1, SixFields
<1>9. d[Len(sawu) + 1] = c[1]
  <2>1. d \in Seq(Value)
    BY <1>7 DEF Joined, Values
  <2> QED
    BY <1>8, <2>1 DEF Part
<1>10. RecvTcp(i, d) =
         [kind |-> "tcp", seq |-> Part(d, 1, Len(s)), ack_seq |-> Part(d, Len(s) + 1, Len(sa)),
          window |-> Part(d, Len(sa) + 1, Len(saw)), urg_ptr |-> Part(d, Len(saw) + 1, Len(sawu)),
          check |-> d[Len(sawu) + 1], flags |-> p.flags, body |-> Part(d, Len(sawu) + 2, Len(d))]
  <2>1. ~(Len(sawu) + 1 > Len(d))
    BY <1>8
  <2>2. /\ Has(Bit(i, SBit), 2) = Len(s) /\ Len(s) + Has(Bit(i, ABit), 2) = Len(sa)
        /\ Len(sa) + Has(Bit(i, WBit), 1) = Len(saw) /\ Len(saw) + Has(HasUrg(i), 1) = Len(sawu)
    BY <1>4, <1>8
  <2> QED
    BY <1>3, <2>1, <2>2 DEF RecvTcp, Part
<1> QED
  BY <1>5, <1>6, <1>8, <1>9, <1>10

LEMMA BodyAfterOne ==
  ASSUME NEW S, NEW x \in S, NEW b \in Seq(S)
  PROVE  /\ Len(<<x>> \o b) = 1 + Len(b) /\ Len(b) \in Nat /\ (<<x>> \o b)[1] = x
         /\ SubSeq(<<x>> \o b, 2, Len(<<x>> \o b)) = b
         /\ Tail(<<x>> \o b) = b
<1> DEFINE d == <<x>> \o b
<1>1. d \in Seq(S) /\ Len(d) = 1 + Len(b) /\ Len(b) \in Nat /\ d[1] = x
  OBVIOUS
<1>2. \A k \in 1..Len(b) : d[k + 1] = b[k]
  OBVIOUS
<1> HIDE DEF d
<1>3. SubSeq(d, 2, Len(d)) = b
  BY <1>1, <1>2
<1>4. Tail(d) = b
  BY <1>1, <1>2
<1> QED
  BY <1>1, <1>3, <1>4 DEF d

UdpOut(p) == [kind |-> "udp", check |-> "check", body |-> p.body]

RawOut(p) == [kind |-> "raw", off |-> p.off, mf |-> p.mf, body |-> p.body]

LEMMA BodiesAreValues ==
  ASSUME NEW b \in Bodies
  PROVE  b \in Seq(Value \cup {"0", "off"})
<1>1. b \in Seq(STRING)
  BY BodiesAssumption
<1>2. STRING \subseteq Value \cup {"0", "off"}
  BY DEF Value
<1> QED
  BY <1>1, <1>2, SeqWidened

LEMMA UdpReadBack ==
  ASSUME NEW p \in UdpPkts
  PROVE  RecvUdp(<<"check">> \o p.body) = UdpOut(p)
<1>1. p.body \in Seq(Value \cup {"0", "off"}) /\ "check" \in Value \cup {"0", "off"}
  BY BodiesAreValues DEF UdpPkts, Value
<1> DEFINE d == <<"check">> \o p.body
<1>2. Len(d) = 1 + Len(p.body) /\ Len(p.body) \in Nat /\ d[1] = "check" /\ Tail(d) = p.body
  BY <1>1, BodyAfterOne
<1> HIDE DEF d
<1>3. RecvUdp(d) = UdpOut(p)
  <2>1. ~(Len(d) < 1)
    BY <1>2
  <2> QED
    BY <1>2, <2>1, Zenon DEF RecvUdp, UdpOut
<1> QED
  BY <1>3 DEF d

RawBits(p) == Has(p.off # "0", SBit) + Has(p.mf, ABit)

LEMMA RawBytes ==
  ASSUME NEW p \in RawPkts
  PROVE  /\ RawBits(p) \in 0..63
         /\ Bit(RawBits(p), SBit) <=> p.off # "0"
         /\ Bit(RawBits(p), ABit) <=> p.mf
<1>1. p.mf \in BOOLEAN
  BY DEF RawPkts
<1>2. CASE p.off # "0" /\ p.mf
  BY <1>2 DEF RawBits, Has, SBit, ABit, Bit
<1>3. CASE p.off # "0" /\ ~p.mf
  BY <1>3 DEF RawBits, Has, SBit, ABit, Bit
<1>4. CASE p.off = "0" /\ p.mf
  BY <1>4 DEF RawBits, Has, SBit, ABit, Bit
<1>5. CASE p.off = "0" /\ ~p.mf
  BY <1>5 DEF RawBits, Has, SBit, ABit, Bit
<1> QED
  BY <1>1, <1>2, <1>3, <1>4, <1>5

LEMMA RawReadBack ==
  ASSUME NEW p \in RawPkts
  PROVE  RecvRaw(RawBits(p), If(p.off # "0", <<p.off>>) \o p.body) = RawOut(p)
<1>1. /\ p.body \in Seq(Value \cup {"0", "off"}) /\ p.off \in Value \cup {"0", "off"}
      /\ p.mf \in BOOLEAN
  BY BodiesAreValues DEF RawPkts
<1>2. CASE p.off # "0"
  <2> DEFINE d == <<p.off>> \o p.body
  <2>1. /\ Len(d) = 1 + Len(p.body) /\ Len(p.body) \in Nat /\ d[1] = p.off
        /\ SubSeq(d, 2, Len(d)) = p.body
    BY <1>1, BodyAfterOne
  <2> HIDE DEF d
  <2>2. Has(Bit(RawBits(p), SBit), 1) = 1 /\ Bit(RawBits(p), ABit) = p.mf
    BY <1>1, <1>2, RawBytes DEF Has, Bit
  <2>3. RecvRaw(RawBits(p), d) = RawOut(p)
    <3>1. ~(1 > Len(d)) /\ 1 + 1 = 2
      BY <2>1
    <3> QED
      BY <2>1, <2>2, <3>1, Zenon DEF RecvRaw, RawOut
  <2>4. If(p.off # "0", <<p.off>>) \o p.body = d
    BY <1>2 DEF d, If
  <2> QED
    BY <2>3, <2>4
<1>3. CASE p.off = "0"
  <2> DEFINE d == p.body
  <2>1. Len(d) \in Nat /\ SubSeq(d, 1, Len(d)) = d
    BY <1>1
  <2> HIDE DEF d
  <2>2. Has(Bit(RawBits(p), SBit), 1) = 0 /\ Bit(RawBits(p), ABit) = p.mf
    BY <1>1, <1>3, RawBytes DEF Has, Bit
  <2>3. RecvRaw(RawBits(p), d) = RawOut(p)
    <3>1. ~(0 > Len(d)) /\ 0 + 1 = 1 /\ 0 # 1
      BY <2>1
    <3> QED
      BY <1>3, <2>1, <2>2, <3>1, Zenon DEF RecvRaw, RawOut, d
  <2>4. If(p.off # "0", <<p.off>>) \o p.body = d
    BY <1>1, <1>3, ConcatEmptySeq DEF d, If
  <2> QED
    BY <2>3, <2>4
<1> QED
  BY <1>2, <1>3

Framed == TcpPkts \cup UdpPkts \cup RawPkts \cup Controls

\* What is on the wire was made of the packet that is being sent.
OnWire ==
  \/ pkt \in Framed /\ wire \in Frames(pkt)
  \/ pkt \in UntouchedPkts /\ wire = pkt

\* What the codec restores of p.
Right(p, o) ==
  /\ p \in TcpPkts /\ Coded(p.flags) => o = TcpOut(p)
  /\ p \in UdpPkts => o = UdpOut(p)
  /\ p \in RawPkts /\ p.ipid => o = RawOut(p)
  /\ p \in Framed => o # Ip

Kinds ==
  /\ \A p \in TcpPkts : p.kind = "tcp"
  /\ \A p \in UdpPkts : p.kind = "udp"
  /\ \A p \in RawPkts : p.kind = "raw"
  /\ \A p \in Controls : p.kind = "ctl" /\ p.i \in 1..3
  /\ \A p \in UntouchedPkts : p.kind = "untouched"

LEMMA KindsRight == Kinds
BY DEF Kinds, TcpPkts, UdpPkts, RawPkts, Controls, UntouchedPkts

\* No byte that build_cpkt or build_ctl writes is that of an IPv4 header, except
\* where no field is written.
FirstBytes(f) ==
  f.kind = "frame" /\ ~LooksLikeIp(f.byte)

LEMMA TcpFrameRead ==
  ASSUME NEW p \in TcpPkts
  PROVE  /\ FirstBytes(TcpFrame(p))
         /\ RecvFrame(TcpFrame(p)) = RecvTcp(TcpFrame(p).byte % 64, TcpData(p))
         /\ Coded(p.flags) => RecvFrame(TcpFrame(p)) = TcpOut(p)
         /\ RecvFrame(TcpFrame(p)) # Ip
<1> DEFINE f == p.flags
           ackBit == Has("ack" \in f, ABit)
           i == FlagCode(f) + SBit + WBit + ackBit
           byte == 64 * FRM_TCP + i
<1>1. f \in SUBSET Flags
  BY DEF TcpPkts
<1>2. FlagCode(f) \in 0..7
  BY DEF FlagCode
<1>3. ackBit \in {0, 16} /\ (ackBit = 16 <=> "ack" \in f)
  BY DEF Has, ABit
<1>4. /\ byte \div 64 = FRM_TCP /\ byte % 64 = i /\ ~LooksLikeIp(byte)
      /\ Bit(i, SBit) /\ Bit(i, WBit) /\ (Bit(i, ABit) <=> ackBit = 16)
      /\ Code(i) = FlagCode(f)
  BY <1>2, <1>3, TcpByte
<1>5. TcpFrame(p) = [kind |-> "frame", byte |-> byte, data |-> TcpData(p)]
  BY DEF TcpFrame, Frame
<1>6. i \in Nat
  BY <1>2, <1>3 DEF SBit, WBit
<1> HIDE DEF ackBit, i, byte
<1>7. RecvFrame(TcpFrame(p)) = RecvTcp(i, TcpData(p))
  BY <1>4, <1>5 DEF RecvFrame, FRM_CTL, FRM_TCP, FRM_UDP, FRM_RAW
<1>8. RecvTcp(i, TcpData(p)) # Ip
  BY DEF RecvTcp, Crash, Ip
<1>9. Coded(f) => RecvTcp(i, TcpData(p)) = TcpOut(p)
  BY <1>3, <1>4, <1>6, TcpReadBack
<1> QED
  BY <1>4, <1>5, <1>7, <1>8, <1>9 DEF FirstBytes

LEMMA UdpFrameRead ==
  ASSUME NEW p \in UdpPkts
  PROVE  FirstBytes(UdpFrame(p)) /\ RecvFrame(UdpFrame(p)) = UdpOut(p)
<1>1. UdpFrame(p) = [kind |-> "frame", byte |-> 128, data |-> <<"check">> \o p.body]
  BY DEF UdpFrame, Frame, FRM_UDP
<1>2. 128 \div 64 = 2 /\ ~LooksLikeIp(128)
  BY DEF LooksLikeIp
<1>3. RecvFrame(UdpFrame(p)) = RecvUdp(<<"check">> \o p.body)
  BY <1>1, <1>2 DEF RecvFrame, FRM_CTL, FRM_TCP, FRM_UDP, FRM_RAW
<1> QED
  BY <1>1, <1>2, <1>3, UdpReadBack DEF FirstBytes

LEMMA RawFrameRead ==
  ASSUME NEW p \in RawPkts
  PROVE  FirstBytes(RawFrame(p)) /\ RecvFrame(RawFrame(p)) = RawOut(p)
<1> DEFINE i == RawBits(p)
           d == If(p.off # "0", <<p.off>>) \o p.body
           byte == 192 + i
<1>1. RawFrame(p) = [kind |-> "frame", byte |-> byte, data |-> d]
  BY DEF RawFrame, Frame, FRM_RAW, RawBits
<1>2. i \in 0..63
  BY RawBytes
<1>3. byte \div 64 = 3 /\ byte % 64 = i /\ byte \div 16 >= 12
  BY <1>2
<1> HIDE DEF i, d, byte
<1>4. RecvFrame(RawFrame(p)) = RecvRaw(i, d)
  BY <1>1, <1>3 DEF RecvFrame, FRM_CTL, FRM_TCP, FRM_UDP, FRM_RAW
<1>5. RecvRaw(i, d) = RawOut(p)
  BY RawReadBack DEF i, d
<1> QED
  BY <1>1, <1>3, <1>4, <1>5 DEF FirstBytes, LooksLikeIp

LEMMA NeverHappenRead ==
  ASSUME NEW f \in NeverHappenFrames
  PROVE  FirstBytes(f) /\ RecvFrame(f) # Ip
<1>1. PICK t \in 0..3 : f = [kind |-> "frame", byte |-> 64 * t + 0, data |-> <<>>]
  BY DEF NeverHappenFrames, Frame
<1>2. ~LooksLikeIp(f.byte)
  BY <1>1 DEF LooksLikeIp
<1>3. f.byte \div 64 = t /\ f.byte % 64 = 0 /\ f.data = <<>>
  BY <1>1
<1>4. RecvCtl(0) # Ip /\ RecvTcp(0, <<>>) # Ip /\ RecvUdp(<<>>) # Ip /\ RecvRaw(0, <<>>) # Ip
  BY DEF RecvCtl, RecvTcp, RecvUdp, RecvRaw, Ip, Crash
<1>5. RecvFrame(f) # Ip
  <2>1. CASE t = 0
    BY <1>3, <1>4, <2>1 DEF RecvFrame, FRM_CTL, FRM_TCP, FRM_UDP, FRM_RAW
  <2>2. CASE t = 1
    BY <1>3, <1>4, <2>2 DEF RecvFrame, FRM_CTL, FRM_TCP, FRM_UDP, FRM_RAW
  <2>3. CASE t = 2
    BY <1>3, <1>4, <2>3 DEF RecvFrame, FRM_CTL, FRM_TCP, FRM_UDP, FRM_RAW
  <2>4. CASE t = 3
    BY <1>3, <1>4, <2>4 DEF RecvFrame, FRM_CTL, FRM_TCP, FRM_UDP, FRM_RAW
  <2> QED
    BY <2>1, <2>2, <2>3, <2>4
<1> QED
  BY <1>1, <1>2, <1>5 DEF FirstBytes

LEMMA CtlRead ==
  ASSUME NEW n \in 1..3, NEW f, f = Frame(FRM_CTL, n, <<>>)
  PROVE  FirstBytes(f) /\ RecvFrame(f) # Ip
<1>1. f = [kind |-> "frame", byte |-> n, data |-> <<>>]
  BY DEF Frame, FRM_CTL
<1>2. n \div 64 = 0 /\ n % 64 = n /\ n \div 16 = 0
  OBVIOUS
<1>3. RecvFrame(f) = RecvCtl(n)
  BY <1>1, <1>2 DEF RecvFrame, FRM_CTL, FRM_TCP, FRM_UDP, FRM_RAW
<1>4. RecvCtl(n) # Ip
  BY DEF RecvCtl, Ip
<1> QED
  BY <1>1, <1>2, <1>3, <1>4 DEF FirstBytes, LooksLikeIp

\* What the peer makes of a frame of p.
LEMMA FrameRead ==
  ASSUME NEW p \in Framed, NEW f \in Frames(p), NEW o \in Outcomes(f)
  PROVE  Right(p, o)
<1>1. Kinds
  BY KindsRight
<1>2. ASSUME FirstBytes(f)
      PROVE  o = RecvFrame(f)
  BY <1>2 DEF Outcomes, FirstBytes
<1>3. CASE p \in TcpPkts
  <2>1. f = TcpFrame(p) /\ p \notin UdpPkts /\ p \notin RawPkts
    BY <1>1, <1>3 DEF Frames, Kinds
  <2> QED
    BY <1>2, <1>3, <2>1, TcpFrameRead DEF Right
<1>4. CASE p \in UdpPkts
  <2>1. f = UdpFrame(p) /\ p \notin TcpPkts /\ p \notin RawPkts
    BY <1>1, <1>4 DEF Frames, Kinds
  <2>2. o = UdpOut(p)
    BY <1>2, <1>4, <2>1, UdpFrameRead
  <2>3. o # Ip
    BY <2>2 DEF UdpOut, Ip
  <2> QED
    BY <2>1, <2>2, <2>3 DEF Right
<1>5. CASE p \in RawPkts /\ p.ipid
  <2>1. f = RawFrame(p) /\ p \notin TcpPkts /\ p \notin UdpPkts
    BY <1>1, <1>5 DEF Frames, Kinds
  <2>2. o = RawOut(p)
    BY <1>2, <1>5, <2>1, RawFrameRead
  <2>3. o # Ip
    BY <2>2 DEF RawOut, Ip
  <2> QED
    BY <2>1, <2>2, <2>3 DEF Right
<1>6. CASE p \in RawPkts /\ ~p.ipid
  <2>1. f \in NeverHappenFrames /\ p \notin TcpPkts /\ p \notin UdpPkts
    BY <1>1, <1>6 DEF Frames, Kinds
  <2>2. o # Ip
    BY <1>2, <2>1, NeverHappenRead
  <2> QED
    BY <1>6, <2>1, <2>2 DEF Right
<1>7. CASE p \in Controls
  <2>1. /\ f = Frame(FRM_CTL, p.i, <<>>) /\ p.i \in 1..3
        /\ p \notin TcpPkts /\ p \notin UdpPkts /\ p \notin RawPkts
    BY <1>1, <1>7 DEF Frames, Kinds
  <2>2. o # Ip
    BY <1>2, <2>1, CtlRead
  <2> QED
    BY <2>1, <2>2 DEF Right
<1> QED
  BY <1>3, <1>4, <1>5, <1>6, <1>7 DEF Framed

CodecInv ==
  /\ pkt \in {Nothing} \cup Framed \cup UntouchedPkts
  /\ wire # Nothing => OnWire /\ out = Nothing
  /\ out # Nothing => Right(pkt, out)

LEMMA CodecInvImplies == CodecInv => PacketsRestored
<1> SUFFICES ASSUME CodecInv
             PROVE  PacketsRestored
  OBVIOUS
<1>1. Kinds
  BY KindsRight
<1>2. CASE out = Nothing
  BY <1>2 DEF PacketsRestored, TcpRestored, OthersRestored, NotTakenForIp, Restored, Nothing, Ip
<1>3. CASE out # Nothing
  <2>1. Right(pkt, out)
    BY <1>3 DEF CodecInv
  <2>2. /\ pkt.kind = "tcp" => pkt \in TcpPkts
        /\ pkt.kind = "udp" => pkt \in UdpPkts
        /\ pkt.kind = "raw" => pkt \in RawPkts
        /\ pkt.kind = "ctl" => pkt \in Controls
    BY <1>1 DEF CodecInv, Kinds, Framed, Nothing
  <2>3. TcpRestored
    BY <2>1, <2>2 DEF TcpRestored, Restored, Right, TcpOut
  <2>4. OthersRestored
    BY <2>1, <2>2 DEF OthersRestored, Restored, Right, UdpOut, RawOut
  <2>5. NotTakenForIp
    BY <2>1, <2>2 DEF NotTakenForIp, Right, Framed
  <2> QED
    BY <2>3, <2>4, <2>5 DEF PacketsRestored
<1> QED
  BY <1>2, <1>3

LEMMA CodecInductive ==
  /\ CodecInit => CodecInv
  /\ CodecInv /\ [CodecNext]_codecVars => CodecInv'
<1>1. CodecInit => CodecInv
  BY DEF CodecInit, CodecInv
<1>2. ASSUME CodecInv, [CodecNext]_codecVars
      PROVE  CodecInv'
  <2>1. CASE XmitFrame
    BY <2>1 DEF XmitFrame, CodecInv, OnWire, Framed
  <2>2. CASE XmitUntouched
    BY <2>2 DEF XmitUntouched, CodecInv, OnWire
  <2>3. CASE RecvCompress
    <3>1. Right(pkt, out')
      <4>1. CASE pkt \in Framed /\ wire \in Frames(pkt)
        BY <2>3, <4>1, FrameRead DEF RecvCompress
      <4>2. CASE pkt \in UntouchedPkts
        <5>1. pkt \notin Framed
          BY <4>2, KindsRight DEF Framed, Kinds
        <5> QED
          BY <5>1 DEF Right, Framed
      <4> QED
        BY <1>2, <2>3, <4>1, <4>2 DEF RecvCompress, CodecInv, OnWire
    <3> QED
      BY <1>2, <2>3, <3>1 DEF RecvCompress, CodecInv
  <2>4. CASE UNCHANGED codecVars
    BY <1>2, <2>4 DEF codecVars, CodecInv, OnWire
  <2> QED
    BY <1>2, <2>1, <2>2, <2>3, <2>4 DEF CodecNext
<1> QED
  BY <1>1, <1>2

\* build_cpkt and recv_tcp, recv_udp, recv_raw: whatever the payloads, what one
\* side compacts the other restores field by field, and no compacted packet is
\* taken for an IP packet.
THEOREM CodecRestores == CodecSpec => []PacketsRestored
<1>1. CodecInit => CodecInv
  BY CodecInductive
<1>2. CodecInv /\ [CodecNext]_codecVars => CodecInv'
  BY CodecInductive
<1>3. CodecInv => PacketsRestored
  BY CodecInvImplies
<1> QED
  BY <1>1, <1>2, <1>3, PTL DEF CodecSpec

-----------------------------------------------------------------------------
(* The CRCs: a register is what a division leaves, bit by bit, and so what  *)
(* two strings differ in is told from their registers.                      *)

\* Exclusive or, bit by bit.
LEMMA XorIn ==
  ASSUME NEW x, NEW y, NEW b
  PROVE  b \in Xor(x, y) <=> ~(b \in x <=> b \in y)
BY DEF Xor

\* A word's bits move down by k.
LEMMA ShiftIn ==
  ASSUME NEW w \in SUBSET Nat, NEW k \in Nat
  PROVE  /\ ShiftRight(w, k) \in SUBSET Nat
         /\ \A b \in Nat : b \in ShiftRight(w, k) <=> b + k \in w
<1>1. ASSUME NEW b \in Nat, b + k \in w
      PROVE  b \in ShiftRight(w, k)
  <2>1. b + k >= k /\ (b + k) - k = b
    OBVIOUS
  <2> QED
    BY <1>1, <2>1 DEF ShiftRight
<1> QED
  BY <1>1 DEF ShiftRight

\* What the tables hold, bit by bit.
LEMMA EightBits ==
  /\ Bits(247) = {0, 1, 2, 4, 5, 6, 7}
  /\ Bits(185) = {0, 3, 4, 5, 7}
  /\ Bits(37) = {0, 2, 5}
  /\ Bits(74) = {1, 3, 6}
  /\ Bits(148) = {2, 4, 7}
  /\ Bits(127) = {0, 1, 2, 3, 4, 5, 6}
  /\ Bits(254) = {1, 2, 3, 4, 5, 6, 7}
  /\ Bits(171) = {0, 1, 3, 5, 7}
BY DEF Bits, Power, Ones

LEMMA SixteenBits ==
  /\ Bits(49345) = {0, 6, 7, 14, 15}
  /\ Bits(49537) = {0, 7, 8, 14, 15}
  /\ Bits(49921) = {0, 8, 9, 14, 15}
  /\ Bits(50689) = {0, 9, 10, 14, 15}
  /\ Bits(52225) = {0, 10, 11, 14, 15}
  /\ Bits(55297) = {0, 11, 12, 14, 15}
  /\ Bits(61441) = {0, 12, 13, 14, 15}
  /\ Bits(40961) = {0, 13, 15}
BY DEF Bits, Power, Ones

LEMMA ThirtyTwoBits ==
  /\ Word32(<<62059, 33539>>) =
       {0, 1, 8, 9, 15, 16, 17, 19, 21, 22, 25, 28, 29, 30, 31}
  /\ Word32(<<57659, 28919>>) =
       {0, 1, 2, 4, 5, 6, 7, 12, 13, 14, 16, 17, 19, 20, 21, 24, 29, 30, 31}
  /\ Word32(<<51098, 38687>>) =
       {0, 1, 2, 3, 4, 8, 9, 10, 12, 15, 17, 19, 20, 23, 24, 25, 26, 30, 31}
  /\ Word32(<<35545, 22735>>) =
       {0, 1, 2, 3, 6, 7, 11, 12, 14, 16, 19, 20, 22, 23, 25, 27, 31}
  /\ Word32(<<4190, 51055>>) =
       {0, 1, 2, 3, 5, 6, 8, 9, 10, 14, 15, 17, 18, 19, 20, 22, 28}
  /\ Word32(<<8381, 36574>>) =
       {1, 2, 3, 4, 6, 7, 9, 10, 11, 15, 16, 18, 19, 20, 21, 23, 29}
  /\ Word32(<<16763, 7612>>) =
       {2, 3, 4, 5, 7, 8, 10, 11, 12, 16, 17, 19, 20, 21, 22, 24, 30}
  /\ Word32(<<33526, 15224>>) =
       {3, 4, 5, 6, 8, 9, 11, 12, 13, 17, 18, 20, 21, 22, 23, 25, 31}
<1>1. Word32(<<62059, 33539>>) =
       {0, 1, 8, 9, 15, 16, 17, 19, 21, 22, 25, 28, 29, 30, 31}
  <2>1. Bits(62059) = {0, 1, 3, 5, 6, 9, 12, 13, 14, 15}
    BY DEF Bits, Power, Ones
  <2>2. Bits(33539) = {0, 1, 8, 9, 15}
    BY DEF Bits, Power, Ones
  <2> QED
    BY <2>1, <2>2 DEF Word32
<1>2. Word32(<<57659, 28919>>) =
       {0, 1, 2, 4, 5, 6, 7, 12, 13, 14, 16, 17, 19, 20, 21, 24, 29, 30, 31}
  <2>1. Bits(57659) = {0, 1, 3, 4, 5, 8, 13, 14, 15}
    BY DEF Bits, Power, Ones
  <2>2. Bits(28919) = {0, 1, 2, 4, 5, 6, 7, 12, 13, 14}
    BY DEF Bits, Power, Ones
  <2> QED
    BY <2>1, <2>2 DEF Word32
<1>3. Word32(<<51098, 38687>>) =
       {0, 1, 2, 3, 4, 8, 9, 10, 12, 15, 17, 19, 20, 23, 24, 25, 26, 30, 31}
  <2>1. Bits(51098) = {1, 3, 4, 7, 8, 9, 10, 14, 15}
    BY DEF Bits, Power, Ones
  <2>2. Bits(38687) = {0, 1, 2, 3, 4, 8, 9, 10, 12, 15}
    BY DEF Bits, Power, Ones
  <2> QED
    BY <2>1, <2>2 DEF Word32
<1>4. Word32(<<35545, 22735>>) =
       {0, 1, 2, 3, 6, 7, 11, 12, 14, 16, 19, 20, 22, 23, 25, 27, 31}
  <2>1. Bits(35545) = {0, 3, 4, 6, 7, 9, 11, 15}
    BY DEF Bits, Power, Ones
  <2>2. Bits(22735) = {0, 1, 2, 3, 6, 7, 11, 12, 14}
    BY DEF Bits, Power, Ones
  <2> QED
    BY <2>1, <2>2 DEF Word32
<1>5. Word32(<<4190, 51055>>) =
       {0, 1, 2, 3, 5, 6, 8, 9, 10, 14, 15, 17, 18, 19, 20, 22, 28}
  <2>1. Bits(4190) = {1, 2, 3, 4, 6, 12}
    BY DEF Bits, Power, Ones
  <2>2. Bits(51055) = {0, 1, 2, 3, 5, 6, 8, 9, 10, 14, 15}
    BY DEF Bits, Power, Ones
  <2> QED
    BY <2>1, <2>2 DEF Word32
<1>6. Word32(<<8381, 36574>>) =
       {1, 2, 3, 4, 6, 7, 9, 10, 11, 15, 16, 18, 19, 20, 21, 23, 29}
  <2>1. Bits(8381) = {0, 2, 3, 4, 5, 7, 13}
    BY DEF Bits, Power, Ones
  <2>2. Bits(36574) = {1, 2, 3, 4, 6, 7, 9, 10, 11, 15}
    BY DEF Bits, Power, Ones
  <2> QED
    BY <2>1, <2>2 DEF Word32
<1>7. Word32(<<16763, 7612>>) =
       {2, 3, 4, 5, 7, 8, 10, 11, 12, 16, 17, 19, 20, 21, 22, 24, 30}
  <2>1. Bits(16763) = {0, 1, 3, 4, 5, 6, 8, 14}
    BY DEF Bits, Power, Ones
  <2>2. Bits(7612) = {2, 3, 4, 5, 7, 8, 10, 11, 12}
    BY DEF Bits, Power, Ones
  <2> QED
    BY <2>1, <2>2 DEF Word32
<1>8. Word32(<<33526, 15224>>) =
       {3, 4, 5, 6, 8, 9, 11, 12, 13, 17, 18, 20, 21, 22, 23, 25, 31}
  <2>1. Bits(33526) = {1, 2, 4, 5, 6, 7, 9, 15}
    BY DEF Bits, Power, Ones
  <2>2. Bits(15224) = {3, 4, 5, 6, 8, 9, 11, 12, 13}
    BY DEF Bits, Power, Ones
  <2> QED
    BY <2>1, <2>2 DEF Word32
<1> QED
  BY <1>1, <1>2, <1>3, <1>4, <1>5, <1>6, <1>7, <1>8

LEMMA Mirror ==
  /\ Mirrored("crc8") = {0, 1, 3, 5, 7}
  /\ Mirrored("crc16") = {0, 13, 15}
  /\ Mirrored("crc32") = {3, 4, 5, 6, 8, 9, 11, 12, 13, 17, 18, 20, 21, 22, 23, 25, 31}
BY DEF Mirrored, Poly, Width

LEMMA MirrorSize ==
  ASSUME NEW alg \in Algs
  PROVE  /\ Width(alg) \in {8, 16, 32}
         /\ Mirrored(alg) \in SUBSET Ones(Width(alg))
         /\ Width(alg) - 1 \in Mirrored(alg)
BY Mirror DEF Algs, Width, Ones

\* A turn, bit by bit.
LEMMA TurnIn ==
  ASSUME NEW alg \in Algs, NEW w \in SUBSET Nat
  PROVE  /\ Turn(alg, w) \in SUBSET Nat
         /\ \A b \in Nat : b \in Turn(alg, w) <=>
                             ~(b + 1 \in w <=> 0 \in w /\ b \in Mirrored(alg))
<1>1. ShiftRight(w, 1) \in SUBSET Nat /\ \A b \in Nat : b \in ShiftRight(w, 1) <=> b + 1 \in w
  BY ShiftIn
<1>2. Mirrored(alg) \in SUBSET Nat
  BY MirrorSize DEF Ones
<1>3. \A b \in Nat : b \in Xor(ShiftRight(w, 1), Mirrored(alg)) <=>
         ~(b \in ShiftRight(w, 1) <=> b \in Mirrored(alg))
  BY XorIn
<1>4. Xor(ShiftRight(w, 1), Mirrored(alg)) \in SUBSET Nat
  BY <1>1, <1>2 DEF Xor
<1>5. CASE 0 \in w
  BY <1>1, <1>3, <1>4, <1>5 DEF Turn
<1>6. CASE 0 \notin w
  BY <1>1, <1>6 DEF Turn
<1> QED
  BY <1>5, <1>6

\* The entry of a byte with one bit.
Column(alg, i) == Entry(alg, Power[i + 1])

\* Each entry of the tables at a power of two is a turn of the next.
LEMMA ColumnsTurn ==
  ASSUME NEW alg \in Algs
  PROVE  /\ Turn(alg, {0}) = Column(alg, 7)
         /\ Turn(alg, Column(alg, 1)) = Column(alg, 0)
         /\ Turn(alg, Column(alg, 2)) = Column(alg, 1)
         /\ Turn(alg, Column(alg, 3)) = Column(alg, 2)
         /\ Turn(alg, Column(alg, 4)) = Column(alg, 3)
         /\ Turn(alg, Column(alg, 5)) = Column(alg, 4)
         /\ Turn(alg, Column(alg, 6)) = Column(alg, 5)
         /\ Turn(alg, Column(alg, 7)) = Column(alg, 6)
<1>1. CASE alg = "crc8"
  <2>18. /\ Crc8Table[2] = 247 /\ Crc8Table[3] = 185 /\ Crc8Table[5] = 37
         /\ Crc8Table[9] = 74 /\ Crc8Table[17] = 148 /\ Crc8Table[33] = 127
         /\ Crc8Table[65] = 254 /\ Crc8Table[129] = 171
    BY DEF Crc8Table
  <2>0. Column(alg, 0) = {0, 1, 2, 4, 5, 6, 7}
    BY <1>1, <2>18, EightBits DEF Column, Entry, Power
  <2>1. Column(alg, 1) = {0, 3, 4, 5, 7}
    BY <1>1, <2>18, EightBits DEF Column, Entry, Power
  <2>2. Column(alg, 2) = {0, 2, 5}
    BY <1>1, <2>18, EightBits DEF Column, Entry, Power
  <2>3. Column(alg, 3) = {1, 3, 6}
    BY <1>1, <2>18, EightBits DEF Column, Entry, Power
  <2>4. Column(alg, 4) = {2, 4, 7}
    BY <1>1, <2>18, EightBits DEF Column, Entry, Power
  <2>5. Column(alg, 5) = {0, 1, 2, 3, 4, 5, 6}
    BY <1>1, <2>18, EightBits DEF Column, Entry, Power
  <2>6. Column(alg, 6) = {1, 2, 3, 4, 5, 6, 7}
    BY <1>1, <2>18, EightBits DEF Column, Entry, Power
  <2>7. Column(alg, 7) = {0, 1, 3, 5, 7}
    BY <1>1, <2>18, EightBits DEF Column, Entry, Power
  <2>8. Mirrored(alg) = {0, 1, 3, 5, 7}
    BY <1>1, Mirror
  <2>10. Turn(alg, {0, 3, 4, 5, 7}) = {0, 1, 2, 4, 5, 6, 7}
    BY <2>8, TurnIn, SMTT(30)
  <2>11. Turn(alg, {0, 2, 5}) = {0, 3, 4, 5, 7}
    BY <2>8, TurnIn, SMTT(30)
  <2>12. Turn(alg, {1, 3, 6}) = {0, 2, 5}
    BY <2>8, TurnIn, SMTT(30)
  <2>13. Turn(alg, {2, 4, 7}) = {1, 3, 6}
    BY <2>8, TurnIn, SMTT(30)
  <2>14. Turn(alg, {0, 1, 2, 3, 4, 5, 6}) = {2, 4, 7}
    BY <2>8, TurnIn, SMTT(30)
  <2>15. Turn(alg, {1, 2, 3, 4, 5, 6, 7}) = {0, 1, 2, 3, 4, 5, 6}
    BY <2>8, TurnIn, SMTT(30)
  <2>16. Turn(alg, {0, 1, 3, 5, 7}) = {1, 2, 3, 4, 5, 6, 7}
    BY <2>8, TurnIn, SMTT(30)
  <2>17. Turn(alg, {0}) = {0, 1, 3, 5, 7}
    BY <2>8, TurnIn, SMTT(30)
  <2> QED
    BY <2>0, <2>1, <2>2, <2>3, <2>4, <2>5, <2>6, <2>7,
       <2>10, <2>11, <2>12, <2>13, <2>14, <2>15, <2>16, <2>17, Zenon
<1>2. CASE alg = "crc16"
  <2>18. /\ Crc16Table[2] = 49345 /\ Crc16Table[3] = 49537 /\ Crc16Table[5] = 49921
         /\ Crc16Table[9] = 50689 /\ Crc16Table[17] = 52225 /\ Crc16Table[33] = 55297
         /\ Crc16Table[65] = 61441 /\ Crc16Table[129] = 40961
    BY DEF Crc16Table
  <2>0. Column(alg, 0) = {0, 6, 7, 14, 15}
    BY <1>2, <2>18, SixteenBits DEF Column, Entry, Power
  <2>1. Column(alg, 1) = {0, 7, 8, 14, 15}
    BY <1>2, <2>18, SixteenBits DEF Column, Entry, Power
  <2>2. Column(alg, 2) = {0, 8, 9, 14, 15}
    BY <1>2, <2>18, SixteenBits DEF Column, Entry, Power
  <2>3. Column(alg, 3) = {0, 9, 10, 14, 15}
    BY <1>2, <2>18, SixteenBits DEF Column, Entry, Power
  <2>4. Column(alg, 4) = {0, 10, 11, 14, 15}
    BY <1>2, <2>18, SixteenBits DEF Column, Entry, Power
  <2>5. Column(alg, 5) = {0, 11, 12, 14, 15}
    BY <1>2, <2>18, SixteenBits DEF Column, Entry, Power
  <2>6. Column(alg, 6) = {0, 12, 13, 14, 15}
    BY <1>2, <2>18, SixteenBits DEF Column, Entry, Power
  <2>7. Column(alg, 7) = {0, 13, 15}
    BY <1>2, <2>18, SixteenBits DEF Column, Entry, Power
  <2>8. Mirrored(alg) = {0, 13, 15}
    BY <1>2, Mirror
  <2>10. Turn(alg, {0, 7, 8, 14, 15}) = {0, 6, 7, 14, 15}
    BY <2>8, TurnIn, SMTT(30)
  <2>11. Turn(alg, {0, 8, 9, 14, 15}) = {0, 7, 8, 14, 15}
    BY <2>8, TurnIn, SMTT(30)
  <2>12. Turn(alg, {0, 9, 10, 14, 15}) = {0, 8, 9, 14, 15}
    BY <2>8, TurnIn, SMTT(30)
  <2>13. Turn(alg, {0, 10, 11, 14, 15}) = {0, 9, 10, 14, 15}
    BY <2>8, TurnIn, SMTT(30)
  <2>14. Turn(alg, {0, 11, 12, 14, 15}) = {0, 10, 11, 14, 15}
    BY <2>8, TurnIn, SMTT(30)
  <2>15. Turn(alg, {0, 12, 13, 14, 15}) = {0, 11, 12, 14, 15}
    BY <2>8, TurnIn, SMTT(30)
  <2>16. Turn(alg, {0, 13, 15}) = {0, 12, 13, 14, 15}
    BY <2>8, TurnIn, SMTT(30)
  <2>17. Turn(alg, {0}) = {0, 13, 15}
    BY <2>8, TurnIn, SMTT(30)
  <2> QED
    BY <2>0, <2>1, <2>2, <2>3, <2>4, <2>5, <2>6, <2>7,
       <2>10, <2>11, <2>12, <2>13, <2>14, <2>15, <2>16, <2>17, Zenon
<1>3. CASE alg = "crc32"
  <2>18. /\ Crc32Table[2] = <<62059, 33539>> /\ Crc32Table[3] = <<57659, 28919>>
         /\ Crc32Table[5] = <<51098, 38687>> /\ Crc32Table[9] = <<35545, 22735>>
         /\ Crc32Table[17] = <<4190, 51055>> /\ Crc32Table[33] = <<8381, 36574>>
         /\ Crc32Table[65] = <<16763, 7612>> /\ Crc32Table[129] = <<33526, 15224>>
    BY DEF Crc32Table
  <2>0. Column(alg, 0) = {0, 1, 8, 9, 15, 16, 17, 19, 21, 22, 25, 28, 29, 30, 31}
    BY <1>3, <2>18, ThirtyTwoBits DEF Column, Entry, Power
  <2>1. Column(alg, 1) = {0, 1, 2, 4, 5, 6, 7, 12, 13, 14, 16, 17, 19, 20, 21, 24, 29, 30, 31}
    BY <1>3, <2>18, ThirtyTwoBits DEF Column, Entry, Power
  <2>2. Column(alg, 2) = {0, 1, 2, 3, 4, 8, 9, 10, 12, 15, 17, 19, 20, 23, 24, 25, 26, 30, 31}
    BY <1>3, <2>18, ThirtyTwoBits DEF Column, Entry, Power
  <2>3. Column(alg, 3) = {0, 1, 2, 3, 6, 7, 11, 12, 14, 16, 19, 20, 22, 23, 25, 27, 31}
    BY <1>3, <2>18, ThirtyTwoBits DEF Column, Entry, Power
  <2>4. Column(alg, 4) = {0, 1, 2, 3, 5, 6, 8, 9, 10, 14, 15, 17, 18, 19, 20, 22, 28}
    BY <1>3, <2>18, ThirtyTwoBits DEF Column, Entry, Power
  <2>5. Column(alg, 5) = {1, 2, 3, 4, 6, 7, 9, 10, 11, 15, 16, 18, 19, 20, 21, 23, 29}
    BY <1>3, <2>18, ThirtyTwoBits DEF Column, Entry, Power
  <2>6. Column(alg, 6) = {2, 3, 4, 5, 7, 8, 10, 11, 12, 16, 17, 19, 20, 21, 22, 24, 30}
    BY <1>3, <2>18, ThirtyTwoBits DEF Column, Entry, Power
  <2>7. Column(alg, 7) = {3, 4, 5, 6, 8, 9, 11, 12, 13, 17, 18, 20, 21, 22, 23, 25, 31}
    BY <1>3, <2>18, ThirtyTwoBits DEF Column, Entry, Power
  <2>8. Mirrored(alg) = {3, 4, 5, 6, 8, 9, 11, 12, 13, 17, 18, 20, 21, 22, 23, 25, 31}
    BY <1>3, Mirror
  <2>10. Turn(alg, {0, 1, 2, 4, 5, 6, 7, 12, 13, 14, 16, 17, 19, 20, 21, 24, 29, 30, 31})
          = {0, 1, 8, 9, 15, 16, 17, 19, 21, 22, 25, 28, 29, 30, 31}
    BY <2>8, TurnIn, SMTT(30)
  <2>11. Turn(alg, {0, 1, 2, 3, 4, 8, 9, 10, 12, 15, 17, 19, 20, 23, 24, 25, 26, 30, 31})
          = {0, 1, 2, 4, 5, 6, 7, 12, 13, 14, 16, 17, 19, 20, 21, 24, 29, 30, 31}
    BY <2>8, TurnIn, SMTT(30)
  <2>12. Turn(alg, {0, 1, 2, 3, 6, 7, 11, 12, 14, 16, 19, 20, 22, 23, 25, 27, 31})
          = {0, 1, 2, 3, 4, 8, 9, 10, 12, 15, 17, 19, 20, 23, 24, 25, 26, 30, 31}
    BY <2>8, TurnIn, SMTT(30)
  <2>13. Turn(alg, {0, 1, 2, 3, 5, 6, 8, 9, 10, 14, 15, 17, 18, 19, 20, 22, 28})
          = {0, 1, 2, 3, 6, 7, 11, 12, 14, 16, 19, 20, 22, 23, 25, 27, 31}
    BY <2>8, TurnIn, SMTT(30)
  <2>14. Turn(alg, {1, 2, 3, 4, 6, 7, 9, 10, 11, 15, 16, 18, 19, 20, 21, 23, 29})
          = {0, 1, 2, 3, 5, 6, 8, 9, 10, 14, 15, 17, 18, 19, 20, 22, 28}
    BY <2>8, TurnIn, SMTT(30)
  <2>15. Turn(alg, {2, 3, 4, 5, 7, 8, 10, 11, 12, 16, 17, 19, 20, 21, 22, 24, 30})
          = {1, 2, 3, 4, 6, 7, 9, 10, 11, 15, 16, 18, 19, 20, 21, 23, 29}
    BY <2>8, TurnIn, SMTT(30)
  <2>16. Turn(alg, {3, 4, 5, 6, 8, 9, 11, 12, 13, 17, 18, 20, 21, 22, 23, 25, 31})
          = {2, 3, 4, 5, 7, 8, 10, 11, 12, 16, 17, 19, 20, 21, 22, 24, 30}
    BY <2>8, TurnIn, SMTT(30)
  <2>17. Turn(alg, {0}) = {3, 4, 5, 6, 8, 9, 11, 12, 13, 17, 18, 20, 21, 22, 23, 25, 31}
    BY <2>8, TurnIn, SMTT(30)
  <2> QED
    BY <2>0, <2>1, <2>2, <2>3, <2>4, <2>5, <2>6, <2>7,
       <2>10, <2>11, <2>12, <2>13, <2>14, <2>15, <2>16, <2>17, Zenon
<1> QED
  BY <1>1, <1>2, <1>3 DEF Algs

LEMMA TurnLinear ==
  ASSUME NEW alg \in Algs, NEW x \in SUBSET Nat, NEW y \in SUBSET Nat
  PROVE  /\ Turn(alg, Xor(x, y)) = Xor(Turn(alg, x), Turn(alg, y))
         /\ Xor(x, y) \in SUBSET Nat
<1>1. Xor(x, y) \in SUBSET Nat
  BY DEF Xor
<1> DEFINE u == Turn(alg, x)
           v == Turn(alg, y)
           t == Turn(alg, Xor(x, y))
<1>2. /\ u \in SUBSET Nat /\ v \in SUBSET Nat /\ t \in SUBSET Nat
      /\ \A b \in Nat : b \in u <=> ~(b + 1 \in x <=> 0 \in x /\ b \in Mirrored(alg))
      /\ \A b \in Nat : b \in v <=> ~(b + 1 \in y <=> 0 \in y /\ b \in Mirrored(alg))
      /\ \A b \in Nat : b \in t <=> ~(b + 1 \in Xor(x, y) <=> 0 \in Xor(x, y) /\ b \in Mirrored(alg))
  BY <1>1, TurnIn
<1>3. Xor(u, v) \in SUBSET Nat
  BY <1>2 DEF Xor
<1> HIDE DEF u, v, t
<1>4. ASSUME NEW b \in Nat
      PROVE  b \in t <=> b \in Xor(u, v)
  <2>1. b + 1 \in Nat
    OBVIOUS
  <2>2. /\ b \in Xor(u, v) <=> ~(b \in u <=> b \in v)
        /\ b + 1 \in Xor(x, y) <=> ~(b + 1 \in x <=> b + 1 \in y)
        /\ 0 \in Xor(x, y) <=> ~(0 \in x <=> 0 \in y)
    BY XorIn
  <2> QED
    BY <1>2, <2>1, <2>2, Zenon
<1>5. t = Xor(u, v)
  BY <1>2, <1>3, <1>4
<1> QED
  BY <1>1, <1>5 DEF t, u, v

\* A word whose lowest bit is 0 is shifted.
LEMMA TurnEven ==
  ASSUME NEW alg \in Algs, NEW w \in SUBSET Nat, NEW k \in Nat, k \notin w
  PROVE  Turn(alg, ShiftRight(w, k)) = ShiftRight(w, k + 1)
<1>1. /\ ShiftRight(w, k) \in SUBSET Nat /\ ShiftRight(w, k + 1) \in SUBSET Nat
      /\ \A b \in Nat : b \in ShiftRight(w, k) <=> b + k \in w
      /\ \A b \in Nat : b \in ShiftRight(w, k + 1) <=> b + (k + 1) \in w
  <2>1. k + 1 \in Nat
    OBVIOUS
  <2> QED
    BY <2>1, ShiftIn, Zenon
<1>2. 0 \notin ShiftRight(w, k)
  BY <1>1
<1>3. /\ ShiftRight(ShiftRight(w, k), 1) \in SUBSET Nat
      /\ \A b \in Nat : b \in ShiftRight(ShiftRight(w, k), 1) <=> b + 1 \in ShiftRight(w, k)
  BY <1>1, ShiftIn
<1>4. ASSUME NEW b \in Nat
      PROVE  b \in ShiftRight(ShiftRight(w, k), 1) <=> b \in ShiftRight(w, k + 1)
  <2>1. b + 1 \in Nat /\ b + 1 + k = b + (k + 1)
    OBVIOUS
  <2> QED
    BY <1>1, <1>3, <2>1
<1>5. ShiftRight(ShiftRight(w, k), 1) = ShiftRight(w, k + 1)
  BY <1>1, <1>3, <1>4
<1> QED
  BY <1>2, <1>5 DEF Turn

LEMMA ShiftNone ==
  ASSUME NEW w \in SUBSET Nat
  PROVE  ShiftRight(w, 0) = w
<1>1. ShiftRight(w, 0) \in SUBSET Nat /\ \A b \in Nat : b \in ShiftRight(w, 0) <=> b + 0 \in w
  BY ShiftIn
<1>2. \A b \in Nat : b + 0 = b
  OBVIOUS
<1>3. \A b \in Nat : b \in ShiftRight(w, 0) <=> b \in w
  BY <1>1, <1>2
<1> QED
  BY <1>1, <1>3

LEMMA TurnEmpty ==
  ASSUME NEW alg \in Algs
  PROVE  Turn(alg, {}) = {}
BY DEF Turn, ShiftRight

LEMMA EightLinear ==
  ASSUME NEW alg \in Algs, NEW x \in SUBSET Nat, NEW y \in SUBSET Nat
  PROVE  /\ EightTurns(alg, Xor(x, y)) = Xor(EightTurns(alg, x), EightTurns(alg, y))
         /\ EightTurns(alg, x) \in SUBSET Nat
<1> DEFINE T(w) == Turn(alg, w)
<1>1. \A u, v \in SUBSET Nat : T(Xor(u, v)) = Xor(T(u), T(v))
  BY TurnLinear
<1>2. \A w \in SUBSET Nat : T(w) \in SUBSET Nat
  BY TurnIn
<1>3. \A w : EightTurns(alg, w) = T(T(T(T(T(T(T(T(w))))))))
  BY DEF EightTurns
<1> HIDE DEF T
<1>4. ASSUME NEW w \in SUBSET Nat
      PROVE  /\ T(w) \in SUBSET Nat /\ T(T(w)) \in SUBSET Nat /\ T(T(T(w))) \in SUBSET Nat
             /\ T(T(T(T(w)))) \in SUBSET Nat /\ T(T(T(T(T(w))))) \in SUBSET Nat
             /\ T(T(T(T(T(T(w)))))) \in SUBSET Nat /\ T(T(T(T(T(T(T(w))))))) \in SUBSET Nat
             /\ T(T(T(T(T(T(T(T(w)))))))) \in SUBSET Nat
  BY <1>2
<1>5. T(T(T(T(Xor(x, y))))) = Xor(T(T(T(T(x)))), T(T(T(T(y)))))
  BY <1>1, <1>4
<1>6. T(T(T(T(T(T(T(T(Xor(x, y))))))))) = Xor(T(T(T(T(T(T(T(T(x)))))))), T(T(T(T(T(T(T(T(y)))))))))
  BY <1>1, <1>4, <1>5
<1> QED
  BY <1>3, <1>4, <1>6

\* Eight turns of what lies above a byte shift it.
LEMMA EightHigh ==
  ASSUME NEW alg \in Algs, NEW w \in SUBSET Nat, w \cap Ones(8) = {}
  PROVE  EightTurns(alg, w) = ShiftRight(w, 8)
<1>1. \A k \in 0..7 : k \notin w
  BY DEF Ones
<1> DEFINE T(x) == Turn(alg, x)
<1>2. \A k \in 0..7 : T(ShiftRight(w, k)) = ShiftRight(w, k + 1)
  BY <1>1, TurnEven
<1>3. EightTurns(alg, w) = T(T(T(T(T(T(T(T(w))))))))
  BY DEF EightTurns
<1> HIDE DEF T
<1>4. /\ T(w) = ShiftRight(w, 1) /\ T(ShiftRight(w, 1)) = ShiftRight(w, 2)
      /\ T(ShiftRight(w, 2)) = ShiftRight(w, 3) /\ T(ShiftRight(w, 3)) = ShiftRight(w, 4)
      /\ T(ShiftRight(w, 4)) = ShiftRight(w, 5) /\ T(ShiftRight(w, 5)) = ShiftRight(w, 6)
      /\ T(ShiftRight(w, 6)) = ShiftRight(w, 7) /\ T(ShiftRight(w, 7)) = ShiftRight(w, 8)
  BY <1>2, ShiftNone
<1> QED
  BY <1>3, <1>4

\* Eight turns of one bit: the entry of the table.
LEMMA EightOne ==
  ASSUME NEW alg \in Algs, NEW i \in 0..7
  PROVE  EightTurns(alg, {i}) = Column(alg, i)
<1> DEFINE T(x) == Turn(alg, x)
<1>1. ASSUME NEW k \in 1..7
      PROVE  T({k}) = {k - 1}
  BY DEF Turn, ShiftRight
<1>2. /\ T({0}) = Column(alg, 7)
      /\ T(Column(alg, 7)) = Column(alg, 6) /\ T(Column(alg, 6)) = Column(alg, 5)
      /\ T(Column(alg, 5)) = Column(alg, 4) /\ T(Column(alg, 4)) = Column(alg, 3)
      /\ T(Column(alg, 3)) = Column(alg, 2) /\ T(Column(alg, 2)) = Column(alg, 1)
      /\ T(Column(alg, 1)) = Column(alg, 0)
  BY ColumnsTurn
<1>3. EightTurns(alg, {i}) = T(T(T(T(T(T(T(T({i}))))))))
  BY DEF EightTurns
<1> HIDE DEF T
<1>4. /\ T({7}) = {6} /\ T({6}) = {5} /\ T({5}) = {4} /\ T({4}) = {3}
      /\ T({3}) = {2} /\ T({2}) = {1} /\ T({1}) = {0}
  BY <1>1
<1>5. i = 0 \/ i = 1 \/ i = 2 \/ i = 3 \/ i = 4 \/ i = 5 \/ i = 6 \/ i = 7
  OBVIOUS
<1>6. CASE i = 0
  BY <1>2, <1>3, <1>4, <1>6
<1>7. CASE i = 1
  BY <1>2, <1>3, <1>4, <1>7
<1>8. CASE i = 2
  BY <1>2, <1>3, <1>4, <1>8
<1>9. CASE i = 3
  BY <1>2, <1>3, <1>4, <1>9
<1>10. CASE i = 4
  BY <1>2, <1>3, <1>4, <1>10
<1>11. CASE i = 5
  BY <1>2, <1>3, <1>4, <1>11
<1>12. CASE i = 6
  BY <1>2, <1>3, <1>4, <1>12
<1>13. CASE i = 7
  BY <1>2, <1>3, <1>4, <1>13
<1> QED
  BY <1>5, <1>6, <1>7, <1>8, <1>9, <1>10, <1>11, <1>12, <1>13

\* Exclusive or of numbers: their binary digits add up modulo 2.
Digit(n, b) == (n \div Power[b + 1]) % 2

SumOf(x, y, z) == \A b \in Ones(16) : Digit(x, b) = (Digit(y, b) + Digit(z, b)) % 2

LEMMA SumBits ==
  ASSUME NEW x \in Nat, NEW y \in Nat, NEW z \in Nat, SumOf(x, y, z)
  PROVE  Bits(x) = Xor(Bits(y), Bits(z))
<1>1. ASSUME NEW n \in Nat, NEW b \in Ones(16)
      PROVE  Digit(n, b) \in {0, 1} /\ (b \in Bits(n) <=> Digit(n, b) = 1)
  <2>1. Power[b + 1] \in Nat \ {0}
    BY DEF Ones, Power
  <2>2. n \div Power[b + 1] \in Nat
    BY <2>1
  <2> QED
    BY <2>2 DEF Digit, Bits
<1>2. ASSUME NEW b \in Ones(16)
      PROVE  b \in Bits(x) <=> b \in Xor(Bits(y), Bits(z))
  <2>1. Digit(x, b) = (Digit(y, b) + Digit(z, b)) % 2
    BY DEF SumOf
  <2>2. Digit(x, b) = 1 <=> ~(Digit(y, b) = 1 <=> Digit(z, b) = 1)
    BY <1>1, <2>1
  <2> QED
    BY <1>1, <2>2, XorIn
<1>3. Bits(x) \in SUBSET Ones(16) /\ Xor(Bits(y), Bits(z)) \in SUBSET Ones(16)
  BY DEF Bits, Xor
<1> QED
  BY <1>2, <1>3

\* In a table of 256 entries, those from p to 2p - 1 are the first p, with that of
\* p added: so for each power of two p, every entry is told from those of powers.
Adds(p, table) == \A m \in 0..(p - 1) : SumOf(table[p + m + 1], table[p + 1], table[m + 1])

AddsHalf(p, h) ==
  \A m \in 0..(p - 1) :
    SumOf(Crc32Table[p + m + 1][h], Crc32Table[p + 1][h], Crc32Table[m + 1][h])

LEMMA Crc8Adds ==
  /\ \A p \in {1, 2, 4, 8, 16, 32, 64, 128} : Adds(p, Crc8Table)
  /\ \A n \in 1..256 : Crc8Table[n] \in Nat
<1>1. Adds(1, Crc8Table)
  BY DEF Adds, Crc8Table, SumOf, Digit, Power, Ones
<1>2. Adds(2, Crc8Table)
  BY DEF Adds, Crc8Table, SumOf, Digit, Power, Ones
<1>3. Adds(4, Crc8Table)
  BY DEF Adds, Crc8Table, SumOf, Digit, Power, Ones
<1>4. Adds(8, Crc8Table)
  BY DEF Adds, Crc8Table, SumOf, Digit, Power, Ones
<1>5. Adds(16, Crc8Table)
  BY DEF Adds, Crc8Table, SumOf, Digit, Power, Ones
<1>6. Adds(32, Crc8Table)
  BY DEF Adds, Crc8Table, SumOf, Digit, Power, Ones
<1>7. Adds(64, Crc8Table)
  BY DEF Adds, Crc8Table, SumOf, Digit, Power, Ones
<1>8. Adds(128, Crc8Table)
  BY DEF Adds, Crc8Table, SumOf, Digit, Power, Ones
<1>9. \A n \in 1..256 : Crc8Table[n] \in Nat
  BY DEF Crc8Table
<1> QED
  BY <1>1, <1>2, <1>3, <1>4, <1>5, <1>6, <1>7, <1>8, <1>9

LEMMA Crc16Adds ==
  /\ \A p \in {1, 2, 4, 8, 16, 32, 64, 128} : Adds(p, Crc16Table)
  /\ \A n \in 1..256 : Crc16Table[n] \in Nat
<1>1. Adds(1, Crc16Table)
  BY DEF Adds, Crc16Table, SumOf, Digit, Power, Ones
<1>2. Adds(2, Crc16Table)
  BY DEF Adds, Crc16Table, SumOf, Digit, Power, Ones
<1>3. Adds(4, Crc16Table)
  BY DEF Adds, Crc16Table, SumOf, Digit, Power, Ones
<1>4. Adds(8, Crc16Table)
  BY DEF Adds, Crc16Table, SumOf, Digit, Power, Ones
<1>5. Adds(16, Crc16Table)
  BY DEF Adds, Crc16Table, SumOf, Digit, Power, Ones
<1>6. Adds(32, Crc16Table)
  BY DEF Adds, Crc16Table, SumOf, Digit, Power, Ones
<1>7. Adds(64, Crc16Table)
  BY DEF Adds, Crc16Table, SumOf, Digit, Power, Ones
<1>8. Adds(128, Crc16Table)
  BY DEF Adds, Crc16Table, SumOf, Digit, Power, Ones
<1>9. \A n \in 1..256 : Crc16Table[n] \in Nat
  BY DEF Crc16Table
<1> QED
  BY <1>1, <1>2, <1>3, <1>4, <1>5, <1>6, <1>7, <1>8, <1>9

LEMMA HighAdds ==
  /\ \A p \in {1, 2, 4, 8, 16, 32, 64, 128} : AddsHalf(p, 1)
  /\ \A n \in 1..256 : Crc32Table[n][1] \in Nat
<1>1. AddsHalf(1, 1)
  BY SMTT(60) DEF AddsHalf, Crc32Table, SumOf, Digit, Power, Ones
<1>2. AddsHalf(2, 1)
  BY SMTT(60) DEF AddsHalf, Crc32Table, SumOf, Digit, Power, Ones
<1>3. AddsHalf(4, 1)
  BY SMTT(60) DEF AddsHalf, Crc32Table, SumOf, Digit, Power, Ones
<1>4. AddsHalf(8, 1)
  BY SMTT(60) DEF AddsHalf, Crc32Table, SumOf, Digit, Power, Ones
<1>5. AddsHalf(16, 1)
  BY SMTT(60) DEF AddsHalf, Crc32Table, SumOf, Digit, Power, Ones
<1>6. AddsHalf(32, 1)
  BY SMTT(60) DEF AddsHalf, Crc32Table, SumOf, Digit, Power, Ones
<1>7. AddsHalf(64, 1)
  BY SMTT(60) DEF AddsHalf, Crc32Table, SumOf, Digit, Power, Ones
<1>8. AddsHalf(128, 1)
  BY SMTT(60) DEF AddsHalf, Crc32Table, SumOf, Digit, Power, Ones
<1>9. \A n \in 1..256 : Crc32Table[n][1] \in Nat
  BY SMTT(60) DEF Crc32Table
<1> QED
  BY <1>1, <1>2, <1>3, <1>4, <1>5, <1>6, <1>7, <1>8, <1>9

LEMMA LowAdds ==
  /\ \A p \in {1, 2, 4, 8, 16, 32, 64, 128} : AddsHalf(p, 2)
  /\ \A n \in 1..256 : Crc32Table[n][2] \in Nat
<1>1. AddsHalf(1, 2)
  BY SMTT(60) DEF AddsHalf, Crc32Table, SumOf, Digit, Power, Ones
<1>2. AddsHalf(2, 2)
  BY SMTT(60) DEF AddsHalf, Crc32Table, SumOf, Digit, Power, Ones
<1>3. AddsHalf(4, 2)
  BY SMTT(60) DEF AddsHalf, Crc32Table, SumOf, Digit, Power, Ones
<1>4. AddsHalf(8, 2)
  BY SMTT(60) DEF AddsHalf, Crc32Table, SumOf, Digit, Power, Ones
<1>5. AddsHalf(16, 2)
  BY SMTT(60) DEF AddsHalf, Crc32Table, SumOf, Digit, Power, Ones
<1>6. AddsHalf(32, 2)
  BY SMTT(60) DEF AddsHalf, Crc32Table, SumOf, Digit, Power, Ones
<1>7. AddsHalf(64, 2)
  BY SMTT(60) DEF AddsHalf, Crc32Table, SumOf, Digit, Power, Ones
<1>8. AddsHalf(128, 2)
  BY SMTT(60) DEF AddsHalf, Crc32Table, SumOf, Digit, Power, Ones
<1>9. \A n \in 1..256 : Crc32Table[n][2] \in Nat
  BY SMTT(60) DEF Crc32Table
<1> QED
  BY <1>1, <1>2, <1>3, <1>4, <1>5, <1>6, <1>7, <1>8, <1>9
LEMMA EntryAdds ==
  ASSUME NEW alg \in Algs, NEW k \in 0..7, NEW m \in 0..(Power[k + 1] - 1)
  PROVE  Entry(alg, Power[k + 1] + m) = Xor(Entry(alg, Power[k + 1]), Entry(alg, m))
<1> DEFINE p == Power[k + 1]
<1>1. p \in {1, 2, 4, 8, 16, 32, 64, 128}
  BY DEF Power
<1> HIDE DEF p
<1>2. {p + m + 1, p + 1, m + 1} \subseteq 1..256
  BY <1>1 DEF p
<1>3. CASE alg = "crc8"
  <2>1. SumOf(Crc8Table[p + m + 1], Crc8Table[p + 1], Crc8Table[m + 1])
    BY <1>1, Crc8Adds DEF Adds, p
  <2>2. Bits(Crc8Table[p + m + 1]) = Xor(Bits(Crc8Table[p + 1]), Bits(Crc8Table[m + 1]))
    BY <1>2, <2>1, SumBits, Crc8Adds
  <2> QED
    BY <1>3, <2>2 DEF Entry, p
<1>4. CASE alg = "crc16"
  <2>1. SumOf(Crc16Table[p + m + 1], Crc16Table[p + 1], Crc16Table[m + 1])
    BY <1>1, Crc16Adds DEF Adds, p
  <2>2. Bits(Crc16Table[p + m + 1]) = Xor(Bits(Crc16Table[p + 1]), Bits(Crc16Table[m + 1]))
    BY <1>2, <2>1, SumBits, Crc16Adds
  <2> QED
    BY <1>4, <2>2 DEF Entry, p
<1>5. CASE alg = "crc32"
  <2> DEFINE Half(n, h) == Bits(Crc32Table[n][h])
  <2>1. Half(p + m + 1, 1) = Xor(Half(p + 1, 1), Half(m + 1, 1))
    <3>1. SumOf(Crc32Table[p + m + 1][1], Crc32Table[p + 1][1], Crc32Table[m + 1][1])
      BY <1>1, HighAdds DEF AddsHalf, p
    <3> QED
      BY <1>2, <3>1, SumBits, HighAdds
  <2>2. Half(p + m + 1, 2) = Xor(Half(p + 1, 2), Half(m + 1, 2))
    <3>1. SumOf(Crc32Table[p + m + 1][2], Crc32Table[p + 1][2], Crc32Table[m + 1][2])
      BY <1>1, LowAdds DEF AddsHalf, p
    <3> QED
      BY <1>2, <3>1, SumBits, LowAdds
  <2>3. Word32(Crc32Table[p + m + 1]) = Xor(Word32(Crc32Table[p + 1]), Word32(Crc32Table[m + 1]))
    <3> DEFINE Halves(h, l) == {16 + b : b \in h} \cup l
    <3>1. ASSUME NEW h \in SUBSET Ones(16), NEW l \in SUBSET Ones(16),
                 NEW i \in SUBSET Ones(16), NEW j \in SUBSET Ones(16)
          PROVE  Halves(Xor(h, i), Xor(l, j)) = Xor(Halves(h, l), Halves(i, j))
      BY DEF Xor, Ones
    <3>2. \A n : Word32(Crc32Table[n]) = Halves(Half(n, 1), Half(n, 2))
      BY DEF Word32
    <3>3. \A n, h : Half(n, h) \in SUBSET Ones(16)
      BY DEF Bits
    <3> HIDE DEF Halves, Half
    <3>4. Halves(Half(p + m + 1, 1), Half(p + m + 1, 2))
            = Xor(Halves(Half(p + 1, 1), Half(p + 1, 2)), Halves(Half(m + 1, 1), Half(m + 1, 2)))
      BY <2>1, <2>2, <3>1, <3>3
    <3> QED
      BY <3>2, <3>4
  <2> QED
    BY <1>5, <2>3 DEF Entry, p
<1> QED
  BY <1>3, <1>4, <1>5 DEF Algs

\* The entry of a byte without bits is empty.
LEMMA EntryNone ==
  ASSUME NEW alg \in Algs
  PROVE  Entry(alg, 0) = {}
<1>1. Bits(0) = {}
  BY DEF Bits, Power, Ones
<1>2. Crc8Table[1] = 0 /\ Crc16Table[1] = 0
  BY DEF Crc8Table, Crc16Table
<1>3. Crc32Table[1] = <<0, 0>>
  BY DEF Crc32Table
<1>4. Word32(<<0, 0>>) = {}
  BY <1>1 DEF Word32
<1> QED
  BY <1>1, <1>2, <1>3, <1>4 DEF Entry, Algs

\* A byte as a number, bit by bit from below.
LEMMA NumberAdds ==
  ASSUME NEW k \in 0..7, NEW low \in SUBSET (0..(k - 1))
  PROVE  /\ Number(low) \in 0..(Power[k + 1] - 1)
         /\ Number(low \cup {k}) = Power[k + 1] + Number(low)
<1> DEFINE V(s, i) == IF i \in s THEN Power[i + 1] ELSE 0
<1>1. \A s : Number(s) = V(s, 0) + V(s, 1) + V(s, 2) + V(s, 3)
                           + V(s, 4) + V(s, 5) + V(s, 6) + V(s, 7)
  BY DEF Number
<1>2. ASSUME NEW i \in 0..7
      PROVE  /\ i < k => V(low, i) \in {0, Power[i + 1]} /\ V(low \cup {k}, i) = V(low, i)
             /\ i = k => V(low, i) = 0 /\ V(low \cup {k}, i) = Power[k + 1]
             /\ i > k => V(low, i) = 0 /\ V(low \cup {k}, i) = 0
  OBVIOUS
<1>3. /\ Power[1] = 1 /\ Power[2] = 2 /\ Power[3] = 4 /\ Power[4] = 8
      /\ Power[5] = 16 /\ Power[6] = 32 /\ Power[7] = 64 /\ Power[8] = 128
  BY DEF Power
<1> HIDE DEF V
<1>4. k = 0 \/ k = 1 \/ k = 2 \/ k = 3 \/ k = 4 \/ k = 5 \/ k = 6 \/ k = 7
  OBVIOUS
<1>5. CASE k = 0
  BY <1>1, <1>2, <1>3, <1>5
<1>6. CASE k = 1
  BY <1>1, <1>2, <1>3, <1>6
<1>7. CASE k = 2
  BY <1>1, <1>2, <1>3, <1>7
<1>8. CASE k = 3
  BY <1>1, <1>2, <1>3, <1>8
<1>9. CASE k = 4
  BY <1>1, <1>2, <1>3, <1>9
<1>10. CASE k = 5
  BY <1>1, <1>2, <1>3, <1>10
<1>11. CASE k = 6
  BY <1>1, <1>2, <1>3, <1>11
<1>12. CASE k = 7
  BY <1>1, <1>2, <1>3, <1>12
<1> QED
  BY <1>4, <1>5, <1>6, <1>7, <1>8, <1>9, <1>10, <1>11, <1>12

\* Eight turns of a byte: its entry in the table.
LEMMA EightByte ==
  ASSUME NEW alg \in Algs, NEW byte \in SUBSET Ones(8)
  PROVE  EightTurns(alg, byte) = Entry(alg, Number(byte))
<1> DEFINE Lowest(k) == byte \cap (0..(k - 1))
           Agrees(k) == EightTurns(alg, Lowest(k)) = Entry(alg, Number(Lowest(k)))
<1>1. Agrees(0)
  <2>1. Lowest(0) = {}
    OBVIOUS
  <2>2. EightTurns(alg, {}) = {}
    BY TurnEmpty DEF EightTurns
  <2>3. Number({}) = 0
    BY DEF Number
  <2> QED
    BY <2>1, <2>2, <2>3, EntryNone
<1>2. ASSUME NEW k \in 0..7, Agrees(k)
      PROVE  Agrees(k + 1)
  <2>1. CASE k \notin byte
    <3>1. Lowest(k + 1) = Lowest(k)
      BY <2>1
    <3> QED
      BY <1>2, <3>1
  <2>2. CASE k \in byte
    <3> DEFINE low == Lowest(k)
    <3>1. Lowest(k + 1) = low \cup {k} /\ Lowest(k + 1) = Xor({k}, low)
      BY <2>2 DEF Xor
    <3>2. low \in SUBSET (0..(k - 1)) /\ low \in SUBSET Nat /\ {k} \in SUBSET Nat
      OBVIOUS
    <3>3. EightTurns(alg, low) = Entry(alg, Number(low))
      BY <1>2
    <3> HIDE DEF low
    <3>4. EightTurns(alg, Xor({k}, low)) = Xor(EightTurns(alg, {k}), EightTurns(alg, low))
      BY <3>2, EightLinear
    <3>5. EightTurns(alg, {k}) = Entry(alg, Power[k + 1])
      BY EightOne DEF Column
    <3>6. Entry(alg, Number(low \cup {k})) = Xor(Entry(alg, Power[k + 1]), Entry(alg, Number(low)))
      BY <3>2, NumberAdds, EntryAdds
    <3>7. EightTurns(alg, Lowest(k + 1)) = Entry(alg, Number(Lowest(k + 1)))
      BY <3>1, <3>3, <3>4, <3>5, <3>6, Zenon
    <3> QED
      BY <3>7
  <2> QED
    BY <2>1, <2>2
<1>3. byte = Lowest(8)
  BY DEF Ones
<1> HIDE DEF Agrees
<1>4. Agrees(8)
  <2>1. Agrees(1) /\ Agrees(2) /\ Agrees(3) /\ Agrees(4)
    BY <1>1, <1>2
  <2> QED
    BY <1>2, <2>1
<1> QED
  BY <1>3, <1>4 DEF Agrees

\* A byte is taken in as eight bits are.
LEMMA CrcByteTurns ==
  ASSUME NEW alg \in Algs, NEW crc \in SUBSET Nat, NEW byte \in SUBSET Ones(8)
  PROVE  CrcByte(alg, crc, byte) = EightTurns(alg, Xor(crc, byte))
<1> DEFINE high == crc \ Low(crc)
           low == Xor(Low(crc), byte)
<1>1. /\ high \in SUBSET Nat /\ high \cap Ones(8) = {}
      /\ low \in SUBSET Ones(8) /\ low \in SUBSET Nat
  BY DEF Low, Xor, Ones
<1>2. Xor(crc, byte) = Xor(high, low)
  BY DEF Low, Xor, Ones
<1>3. ShiftRight(high, 8) = ShiftRight(crc, 8)
  BY DEF ShiftRight, Low, Ones
<1>4. Table[alg][low] = Entry(alg, Number(low))
  BY <1>1 DEF Table
<1>5. CrcByte(alg, crc, byte) = Xor(ShiftRight(crc, 8), Table[alg][low])
  BY DEF CrcByte
<1> HIDE DEF high, low
<1>6. EightTurns(alg, Xor(high, low)) = Xor(EightTurns(alg, high), EightTurns(alg, low))
  BY <1>1, EightLinear
<1> QED
  BY <1>1, <1>2, <1>3, <1>4, <1>5, <1>6, EightHigh, EightByte

-----------------------------------------------------------------------------
\* Crc is a recursive function of an index; that such functions are, by induction
\* on the index.
CrcTo(alg, from, s, f, m) ==
  f = [k \in 0..m |-> IF k = 0 THEN from ELSE CrcByte(alg, f[k - 1], s[k])]

LEMMA CrcIs ==
  ASSUME NEW alg, NEW from, NEW s, Len(s) \in Nat
  PROVE  CrcTo(alg, from, s, Crc(alg, from, s), Len(s))
<1> DEFINE S == {m \in Nat : \E f : CrcTo(alg, from, s, f, m)}
<1>1. 0 \in S
  <2> DEFINE f == [k \in 0..0 |-> from]
  <2>1. CrcTo(alg, from, s, f, 0)
    BY DEF CrcTo
  <2> QED
    BY <2>1
<1>2. \A m \in S : m + 1 \in S
  <2> SUFFICES ASSUME NEW m \in Nat, NEW f, CrcTo(alg, from, s, f, m)
               PROVE  \E g : CrcTo(alg, from, s, g, m + 1)
    OBVIOUS
  <2> DEFINE g == [k \in 0..(m + 1) |-> IF k = m + 1 THEN CrcByte(alg, f[m], s[m + 1]) ELSE f[k]]
  <2>1. \A k \in 0..m : f[k] = IF k = 0 THEN from ELSE CrcByte(alg, f[k - 1], s[k])
    BY DEF CrcTo
  <2>2. ASSUME NEW k \in 0..(m + 1)
        PROVE  g[k] = IF k = 0 THEN from ELSE CrcByte(alg, g[k - 1], s[k])
    <3>1. CASE k = m + 1
      <4>1. g[k] = CrcByte(alg, f[m], s[k]) /\ g[k - 1] = f[m] /\ k # 0
        BY <3>1
      <4> HIDE DEF g
      <4> QED
        BY <4>1
    <3>2. CASE k # m + 1
      <4>1. k \in 0..m /\ g[k] = f[k] /\ (k # 0 => g[k - 1] = f[k - 1])
        BY <3>2
      <4> QED
        BY <2>1, <4>1, Zenon
    <3> QED
      BY <3>1, <3>2
  <2>3. g = [k \in 0..(m + 1) |-> g[k]]
    OBVIOUS
  <2> HIDE DEF g
  <2>4. CrcTo(alg, from, s, g, m + 1)
    BY <2>2, <2>3, Zenon DEF CrcTo
  <2> QED
    BY <2>4
<1> HIDE DEF S
<1>3. S = Nat
  <2>1. S \in SUBSET Nat
    BY DEF S
  <2> QED
    BY <1>1, <1>2, <2>1, SetInduction
<1>4. \E f : CrcTo(alg, from, s, f, Len(s))
  BY <1>3 DEF S
<1> QED
  BY <1>4, Zenon DEF Crc, CrcTo

\* A run of as many bits as the register has, from bit j on, and where it is
\* after eight turns.
Run(alg, j) == j..(j + Width(alg) - 1)

Lowered(j, k) == IF j < k THEN 0 ELSE j - k

\* A turn keeps a run a run, and leaves nothing of nothing only.
LEMMA TurnRun ==
  ASSUME NEW alg \in Algs, NEW j \in Nat, NEW w \in SUBSET Run(alg, j)
  PROVE  /\ Turn(alg, w) \in SUBSET Run(alg, Lowered(j, 1))
         /\ Turn(alg, w) = {} => w = {}
<1> DEFINE L == Width(alg)
           t == Turn(alg, w)
<1>1. /\ L \in {8, 16, 32} /\ L - 1 \in Mirrored(alg)
      /\ \A b \in Mirrored(alg) : b \in 0..(L - 1)
  BY MirrorSize DEF Ones
<1>2. w \in SUBSET Nat /\ \A b \in w : b \in j..(j + L - 1)
  BY <1>1 DEF Run
<1>3. /\ t \in SUBSET Nat
      /\ \A b \in Nat : b \in t <=> ~(b + 1 \in w <=> 0 \in w /\ b \in Mirrored(alg))
  BY <1>2, TurnIn
<1> HIDE DEF L, t
<1>4. CASE 0 \in w
  <2>1. j = 0
    BY <1>1, <1>2, <1>4
  <2>2. L - 1 \in t
    <3>1. L - 1 \in Nat /\ L - 1 + 1 = L /\ L \notin w
      BY <1>1, <1>2, <2>1
    <3> QED
      BY <1>1, <1>3, <1>4, <3>1
  <2>3. \A b \in t : b \in 0..(L - 1)
    BY <1>1, <1>2, <1>3, <2>1
  <2> QED
    BY <1>4, <2>1, <2>2, <2>3 DEF Run, Lowered, t, L
<1>5. CASE 0 \notin w
  <2>1. \A b \in Nat : b \in t <=> b + 1 \in w
    BY <1>3, <1>5
  <2>2. \A b \in t : b \in Lowered(j, 1)..(Lowered(j, 1) + L - 1)
    BY <1>1, <1>2, <1>3, <2>1 DEF Lowered
  <2>3. ASSUME NEW b \in w
        PROVE  b - 1 \in t
    <3>1. b - 1 \in Nat /\ b - 1 + 1 = b
      BY <1>2, <1>5
    <3> QED
      BY <2>1, <3>1
  <2> QED
    BY <2>2, <2>3 DEF Run, t, L
<1> QED
  BY <1>4, <1>5

LEMMA EightRun ==
  ASSUME NEW alg \in Algs, NEW j \in Nat, NEW w \in SUBSET Run(alg, j)
  PROVE  /\ EightTurns(alg, w) \in SUBSET Run(alg, Lowered(j, 8))
         /\ EightTurns(alg, w) = {} => w = {}
<1> DEFINE T(x) == Turn(alg, x)
           R(k) == Run(alg, Lowered(j, k))
<1>1. ASSUME NEW k \in Nat, NEW x \in SUBSET R(k)
      PROVE  T(x) \in SUBSET R(k + 1) /\ (T(x) = {} => x = {})
  <2>1. Lowered(j, k) \in Nat /\ Lowered(Lowered(j, k), 1) = Lowered(j, k + 1)
    BY DEF Lowered
  <2> QED
    BY <2>1, TurnRun
<1>2. EightTurns(alg, w) = T(T(T(T(T(T(T(T(w))))))))
  BY DEF EightTurns
<1>3. w \in SUBSET R(0)
  BY DEF Lowered
<1>4. R(8) = Run(alg, Lowered(j, 8))
  OBVIOUS
<1> HIDE DEF T, R
<1>5. \A k \in Nat : \A x \in SUBSET R(k) : T(x) \in SUBSET R(k + 1) /\ (T(x) = {} => x = {})
  BY <1>1
<1>6. T(w) \in SUBSET R(1) /\ (T(w) = {} => w = {})
  BY <1>3, <1>5
<1>7. T(T(w)) \in SUBSET R(2) /\ (T(T(w)) = {} => w = {})
  BY <1>5, <1>6
<1>8. T(T(T(w))) \in SUBSET R(3) /\ (T(T(T(w))) = {} => w = {})
  BY <1>5, <1>7
<1>9. T(T(T(T(w)))) \in SUBSET R(4) /\ (T(T(T(T(w)))) = {} => w = {})
  BY <1>5, <1>8
<1>10. T(T(T(T(T(w))))) \in SUBSET R(5) /\ (T(T(T(T(T(w))))) = {} => w = {})
  BY <1>5, <1>9
<1>11. T(T(T(T(T(T(w)))))) \in SUBSET R(6) /\ (T(T(T(T(T(T(w)))))) = {} => w = {})
  BY <1>5, <1>10
<1>12. T(T(T(T(T(T(T(w))))))) \in SUBSET R(7) /\ (T(T(T(T(T(T(T(w))))))) = {} => w = {})
  BY <1>5, <1>11
<1>13. T(T(T(T(T(T(T(T(w)))))))) \in SUBSET R(8) /\ (T(T(T(T(T(T(T(T(w)))))))) = {} => w = {})
  BY <1>5, <1>12
<1> QED
  BY <1>2, <1>4, <1>13

\* The registers fit, and are what the bits leave.
LEMMA RegistersTurn ==
  ASSUME NEW alg \in Algs, NEW from \in SUBSET Ones(Width(alg)), NEW s \in Seq(SUBSET Ones(8))
  PROVE  LET c == Crc(alg, from, s)
         IN /\ c[0] = from
            /\ \A k \in 0..Len(s) : c[k] \in SUBSET Ones(Width(alg))
            /\ \A k \in 0..(Len(s) - 1) : c[k + 1] = EightTurns(alg, Xor(c[k], s[k + 1]))
<1> DEFINE c == Crc(alg, from, s)
           n == Len(s)
           O == Ones(Width(alg))
<1>1. n \in Nat /\ \A k \in 0..(n - 1) : s[k + 1] \in SUBSET Ones(8)
  BY DEF Ones
<1>2. c = [k \in 0..n |-> IF k = 0 THEN from ELSE CrcByte(alg, c[k - 1], s[k])]
  BY <1>1, CrcIs DEF CrcTo
<1> HIDE DEF c
<1>3. c[0] = from
  BY <1>1, <1>2
<1>4. ASSUME NEW k \in 0..(n - 1)
      PROVE  c[k + 1] = CrcByte(alg, c[k], s[k + 1])
  <2>1. k + 1 \in 0..n /\ k + 1 # 0 /\ k + 1 - 1 = k
    BY <1>1
  <2> QED
    BY <1>2, <2>1
<1>5. Run(alg, 0) = O /\ Ones(8) \in SUBSET O /\ O \in SUBSET Nat /\ Lowered(0, 8) = 0
  BY MirrorSize DEF Run, Ones, Lowered
<1> HIDE DEF n, O
<1>6. ASSUME NEW k \in 0..(n - 1), c[k] \in SUBSET O
      PROVE  /\ c[k + 1] = EightTurns(alg, Xor(c[k], s[k + 1]))
             /\ c[k + 1] \in SUBSET O
  <2>1. s[k + 1] \in SUBSET Ones(8)
    BY <1>1
  <2>2. c[k] \in SUBSET Nat
    BY <1>5, <1>6
  <2>3. Xor(c[k], s[k + 1]) \in SUBSET Run(alg, 0)
    BY <1>5, <1>6, <2>1 DEF Xor
  <2>4. c[k + 1] = EightTurns(alg, Xor(c[k], s[k + 1]))
    BY <1>4, <2>1, <2>2, CrcByteTurns
  <2> QED
    BY <1>5, <2>3, <2>4, EightRun
<1> DEFINE S == {k \in Nat : k <= n => c[k] \in SUBSET O}
<1>7. 0 \in S /\ \A k \in S : k + 1 \in S
  <2>1. 0 \in S
    BY <1>3 DEF O
  <2>2. ASSUME NEW k \in S, k + 1 <= n
        PROVE  c[k + 1] \in SUBSET O
    <3>1. k \in 0..(n - 1) /\ c[k] \in SUBSET O
      BY <1>1, <2>2
    <3> QED
      BY <1>6, <3>1
  <2> QED
    BY <2>1, <2>2
<1> HIDE DEF S
<1>8. S = Nat
  <2>1. S \in SUBSET Nat
    BY DEF S
  <2> QED
    BY <1>7, <2>1, SetInduction
<1>9. \A k \in 0..n : c[k] \in SUBSET O
  BY <1>1, <1>8 DEF S
<1>10. \A k \in 0..(n - 1) : c[k] \in SUBSET O
  BY <1>1, <1>9
<1> QED
  BY <1>3, <1>6, <1>9, <1>10 DEF c, n, O

\* The bits in which two strings of bytes differ, by their place.
Differ(s, t) ==
  UNION {{8 * (i - 1) + b : b \in Xor(s[i], t[i])} : i \in DOMAIN s}

LEMMA DifferIn ==
  ASSUME NEW s \in Seq(SUBSET Ones(8)), NEW t \in Seq(SUBSET Ones(8)), Len(t) = Len(s)
  PROVE  /\ Differ(s, t) \in SUBSET 0..(8 * Len(s) - 1)
         /\ \A k \in 0..(Len(s) - 1) : \A b \in Ones(8) :
              8 * k + b \in Differ(s, t) <=> b \in Xor(s[k + 1], t[k + 1])
<1> DEFINE n == Len(s)
           X(i) == Xor(s[i], t[i])
<1>1. /\ n \in Nat /\ DOMAIN s = 1..n
      /\ \A i \in 1..n : s[i] \in SUBSET Ones(8) /\ t[i] \in SUBSET Ones(8)
  OBVIOUS
<1>2. \A i \in 1..n : X(i) \in SUBSET Ones(8)
  BY <1>1 DEF Xor
<1>3. Differ(s, t) = UNION {{8 * (i - 1) + b : b \in X(i)} : i \in 1..n}
  BY <1>1 DEF Differ
<1> HIDE DEF n, X
<1>4. ASSUME NEW x \in Differ(s, t)
      PROVE  \E i \in 1..n : \E b \in X(i) : x = 8 * (i - 1) + b
  BY <1>3
<1>5. ASSUME NEW i \in 1..n, NEW b \in X(i)
      PROVE  8 * (i - 1) + b \in Differ(s, t)
  BY <1>3
<1>6. ASSUME NEW x \in Differ(s, t)
      PROVE  x \in 0..(8 * n - 1)
  <2> PICK i \in 1..n : \E b \in X(i) : x = 8 * (i - 1) + b
    BY <1>4
  <2>1. PICK b \in X(i) : x = 8 * (i - 1) + b
    OBVIOUS
  <2>2. b \in 0..7
    BY <1>2 DEF Ones
  <2> QED
    BY <1>1, <2>1, <2>2
<1>7. ASSUME NEW k \in 0..(n - 1), NEW b \in Ones(8)
      PROVE  8 * k + b \in Differ(s, t) <=> b \in X(k + 1)
  <2>1. k + 1 \in 1..n /\ k + 1 - 1 = k /\ b \in 0..7
    BY <1>1 DEF Ones
  <2>2. ASSUME b \in X(k + 1)
        PROVE  8 * k + b \in Differ(s, t)
    <3>1. 8 * (k + 1 - 1) + b \in Differ(s, t)
      BY <1>5, <2>1, <2>2
    <3> QED
      BY <2>1, <3>1
  <2>3. ASSUME 8 * k + b \in Differ(s, t)
        PROVE  b \in X(k + 1)
    <3> PICK i \in 1..n : \E c \in X(i) : 8 * k + b = 8 * (i - 1) + c
      BY <1>4, <2>3
    <3>1. PICK c \in X(i) : 8 * k + b = 8 * (i - 1) + c
      OBVIOUS
    <3>2. c \in 0..7
      BY <1>2 DEF Ones
    <3>3. i = k + 1 /\ c = b
      BY <1>1, <2>1, <3>1, <3>2
    <3> QED
      BY <3>1, <3>3
  <2> QED
    BY <2>2, <2>3
<1> QED
  BY <1>6, <1>7 DEF n, X

LEMMA XorRules ==
  ASSUME NEW x, NEW y, NEW z
  PROVE  /\ Xor(x, y) = Xor(y, x)
         /\ Xor(x, {}) = x /\ Xor({}, x) = x
         /\ Xor(x, Xor(y, z)) = Xor(Xor(x, y), z)
         /\ Xor(x, y) = {} <=> x = y
BY DEF Xor

\* Strings of the same checksum that differ within a run of as many bits as the
\* register has are the same: the run, shifted down, would stay in the register.
LEMMA RunsTold ==
  ASSUME NEW alg \in Algs, NEW from \in SUBSET Ones(Width(alg)),
         NEW s \in Seq(SUBSET Ones(8)), NEW t \in Seq(SUBSET Ones(8)), Len(t) = Len(s),
         NEW a \in Nat, Differ(s, t) \in SUBSET Run(alg, a),
         Crc(alg, from, s)[Len(s)] = Crc(alg, from, t)[Len(s)]
  PROVE  s = t
<1> DEFINE n == Len(s)
           u == Crc(alg, from, s)
           v == Crc(alg, from, t)
           F == Differ(s, t)
           E(x) == EightTurns(alg, x)
           O == Ones(Width(alg))
           z(k) == Xor(Xor(u[k], v[k]), ShiftRight(F, 8 * k))
<1>1. /\ n \in Nat
      /\ \A k \in 0..(n - 1) : s[k + 1] \in SUBSET Ones(8) /\ t[k + 1] \in SUBSET Ones(8)
  BY DEF Ones
<1>2. /\ u[0] = from /\ v[0] = from /\ u[n] = v[n]
      /\ \A k \in 0..n : u[k] \in SUBSET O /\ v[k] \in SUBSET O
      /\ \A k \in 0..(n - 1) : u[k + 1] = E(Xor(u[k], s[k + 1])) /\ v[k + 1] = E(Xor(v[k], t[k + 1]))
  <2>1. /\ u[0] = from
        /\ \A k \in 0..n : u[k] \in SUBSET O
        /\ \A k \in 0..(n - 1) : u[k + 1] = E(Xor(u[k], s[k + 1]))
    BY RegistersTurn
  <2>2. /\ v[0] = from
        /\ \A k \in 0..n : v[k] \in SUBSET O
        /\ \A k \in 0..(n - 1) : v[k + 1] = E(Xor(v[k], t[k + 1]))
    <3>1. /\ v[0] = from
          /\ \A k \in 0..Len(t) : v[k] \in SUBSET O
          /\ \A k \in 0..(Len(t) - 1) : v[k + 1] = E(Xor(v[k], t[k + 1]))
      BY RegistersTurn
    <3> HIDE DEF v, E, O
    <3> QED
      BY <3>1
  <2> QED
    BY <2>1, <2>2
<1>3. O \in SUBSET Nat
  BY MirrorSize DEF Ones
<1>4. /\ F \in SUBSET 0..(8 * n - 1)
      /\ \A k \in 0..(n - 1) : \A b \in Ones(8) : 8 * k + b \in F <=> b \in Xor(s[k + 1], t[k + 1])
  BY DifferIn
<1>5. F \in SUBSET Nat /\ F \in SUBSET Run(alg, a)
  BY <1>1, <1>4
<1>6. \A x, y \in SUBSET Nat :
        E(Xor(x, y)) = Xor(E(x), E(y)) /\ E(x) \in SUBSET Nat /\ Xor(x, y) \in SUBSET Nat
  BY EightLinear, TurnLinear
<1>7. \A w \in SUBSET Nat : w \cap Ones(8) = {} => E(w) = ShiftRight(w, 8)
  BY EightHigh
<1>8. \A j \in Nat : \A w \in SUBSET Run(alg, j) :
        E(w) \in SUBSET Run(alg, Lowered(j, 8)) /\ (E(w) = {} => w = {})
  BY EightRun
<1> HIDE DEF u, v, F, E, O, n
\* The rest of the difference, shifted down, and the difference of the registers.
<1>9. ASSUME NEW k \in 0..(n - 1)
      PROVE  z(k + 1) = E(z(k))
  <2> DEFINE x == Xor(s[k + 1], t[k + 1])
             f == ShiftRight(F, 8 * k)
             g == f \ Ones(8)
             d == Xor(u[k], v[k])
  <2>1. /\ x \in SUBSET Ones(8) /\ x \in SUBSET Nat
        /\ s[k + 1] \in SUBSET Nat /\ t[k + 1] \in SUBSET Nat
        /\ u[k] \in SUBSET Nat /\ v[k] \in SUBSET Nat
    <3>1. s[k + 1] \in SUBSET Ones(8) /\ t[k + 1] \in SUBSET Ones(8)
      BY <1>1
    <3>2. k \in 0..n
      BY <1>1
    <3>3. Ones(8) \in SUBSET Nat
      BY DEF Ones
    <3>4. u[k] \in SUBSET Nat /\ v[k] \in SUBSET Nat
      BY <1>2, <1>3, <3>2
    <3> QED
      BY <3>1, <3>3, <3>4 DEF Xor
  <2>2. f \in SUBSET Nat /\ \A b \in Nat : b \in f <=> b + 8 * k \in F
    <3>1. 8 * k \in Nat
      BY <1>1
    <3> QED
      BY <1>5, <3>1, ShiftIn, Zenon
  <2>3. \A b \in Ones(8) : b \in f <=> b \in x
    <3> HIDE DEF x, f
    <3>1. ASSUME NEW b \in Ones(8)
          PROVE  b \in Nat /\ b + 8 * k = 8 * k + b
      BY <1>1 DEF Ones
    <3>2. \A b \in Ones(8) : 8 * k + b \in F <=> b \in x
      BY <1>4 DEF x
    <3> QED
      BY <2>2, <3>1, <3>2
  <2>4. f = Xor(x, g) /\ g \in SUBSET Nat /\ g \cap Ones(8) = {}
    <3> HIDE DEF x, f
    <3> QED
      BY <2>1, <2>2, <2>3 DEF Xor
  <2>5. ShiftRight(g, 8) = ShiftRight(F, 8 * (k + 1))
    <3>1. /\ ShiftRight(g, 8) \in SUBSET Nat
          /\ \A b \in Nat : b \in ShiftRight(g, 8) <=> b + 8 \in g
      <4>1. 8 \in Nat
        OBVIOUS
      <4> HIDE DEF f, g
      <4> QED
        BY <2>4, <4>1, ShiftIn, Zenon
    <3>2. 8 * (k + 1) \in Nat
      BY <1>1
    <3>3. /\ ShiftRight(F, 8 * (k + 1)) \in SUBSET Nat
          /\ \A b \in Nat : b \in ShiftRight(F, 8 * (k + 1)) <=> b + 8 * (k + 1) \in F
      BY <1>5, <3>2, ShiftIn, Zenon
    <3>4. ASSUME NEW b \in Nat
          PROVE  b + 8 \in g <=> b + 8 * (k + 1) \in F
      <4>1. b + 8 \in Nat /\ b + 8 \notin Ones(8) /\ b + 8 + 8 * k = b + 8 * (k + 1)
        BY <1>1 DEF Ones
      <4> HIDE DEF f
      <4> QED
        BY <2>2, <4>1
    <3> QED
      BY <3>1, <3>3, <3>4
  <2>6. z(k) = Xor(Xor(d, x), g)
    BY <2>4, XorRules
  <2>7. d \in SUBSET Nat /\ Xor(d, x) \in SUBSET Nat
    BY <1>6, <2>1
  <2>8. E(z(k)) = Xor(E(Xor(d, x)), ShiftRight(F, 8 * (k + 1)))
    BY <1>6, <1>7, <2>4, <2>5, <2>6, <2>7
  <2>9. Xor(d, x) = Xor(Xor(u[k], s[k + 1]), Xor(v[k], t[k + 1]))
    BY DEF Xor
  <2>10. /\ Xor(u[k], s[k + 1]) \in SUBSET Nat
         /\ Xor(v[k], t[k + 1]) \in SUBSET Nat
    BY <1>6, <2>1
  <2>11. E(Xor(d, x)) = Xor(u[k + 1], v[k + 1])
    BY <1>2, <1>6, <2>9, <2>10
  <2> QED
    BY <2>8, <2>11
<1>10. z(0) = F
  <2>1. ShiftRight(F, 8 * 0) = F
    BY <1>5, ShiftNone
  <2>2. Xor(u[0], v[0]) = {}
    BY <1>2, XorRules
  <2> QED
    BY <2>1, <2>2, XorRules
<1>11. z(n) = {}
  <2>1. 8 * n \in Nat
    BY <1>1
  <2>2. /\ ShiftRight(F, 8 * n) \in SUBSET Nat
        /\ \A b \in Nat : b \in ShiftRight(F, 8 * n) <=> b + 8 * n \in F
    BY <1>5, <2>1, ShiftIn, Zenon
  <2>3. \A b \in Nat : b + 8 * n \notin F
    BY <1>1, <1>4
  <2>4. ShiftRight(F, 8 * n) = {}
    BY <2>2, <2>3
  <2>5. Xor(u[n], v[n]) = {}
    BY <1>2, XorRules
  <2> QED
    BY <2>4, <2>5, XorRules
<1> HIDE DEF z
<1> DEFINE P(k) == k <= n => z(k) \in SUBSET Run(alg, Lowered(a, 8 * k))
           Q(k) == k <= n => z(n - k) = {}
<1>12. \A k \in Nat : P(k)
  <2>1. P(0)
    <3>1. Lowered(a, 8 * 0) = a
      BY DEF Lowered
    <3> QED
      BY <1>5, <1>10, <3>1
  <2>2. ASSUME NEW k \in Nat, P(k), k + 1 <= n
        PROVE  z(k + 1) \in SUBSET Run(alg, Lowered(a, 8 * (k + 1)))
    <3>1. k \in 0..(n - 1) /\ z(k) \in SUBSET Run(alg, Lowered(a, 8 * k))
      BY <1>1, <2>2
    <3>2. /\ Lowered(a, 8 * k) \in Nat
          /\ Lowered(Lowered(a, 8 * k), 8) = Lowered(a, 8 * (k + 1))
      BY <3>1 DEF Lowered
    <3> QED
      BY <1>8, <1>9, <3>1, <3>2
  <2>3. \A k \in Nat : P(k) => P(k + 1)
    BY <2>2
  <2> HIDE DEF P
  <2> DEFINE A == {k \in Nat : P(k)}
  <2>4. 0 \in A /\ \A k \in A : k + 1 \in A
    BY <2>1, <2>3
  <2>5. A \in SUBSET Nat
    OBVIOUS
  <2>6. A = Nat
    <3> HIDE DEF A
    <3> QED
      BY <2>4, <2>5, SetInduction
  <2> QED
    BY <2>6
<1>13. \A k \in Nat : Q(k)
  <2>1. Q(0)
    BY <1>1, <1>11
  <2>2. ASSUME NEW k \in Nat, Q(k), k + 1 <= n
        PROVE  z(n - (k + 1)) = {}
    <3> DEFINE m == n - (k + 1)
    <3>1. m \in 0..(n - 1) /\ m \in Nat /\ m <= n /\ m + 1 = n - k /\ z(n - k) = {}
      BY <1>1, <2>2
    <3>2. P(m)
      BY <1>12, <3>1
    <3>3. z(m) \in SUBSET Run(alg, Lowered(a, 8 * m)) /\ Lowered(a, 8 * m) \in Nat
      BY <3>1, <3>2 DEF Lowered
    <3> HIDE DEF m
    <3>4. E(z(m)) = {}
      BY <1>9, <3>1
    <3>5. z(m) = {}
      BY <1>8, <3>3, <3>4
    <3> QED
      BY <3>5 DEF m
  <2>3. \A k \in Nat : Q(k) => Q(k + 1)
    BY <2>2
  <2> HIDE DEF Q
  <2> DEFINE C == {k \in Nat : Q(k)}
  <2>4. 0 \in C /\ \A k \in C : k + 1 \in C
    BY <2>1, <2>3
  <2>5. C \in SUBSET Nat
    OBVIOUS
  <2>6. C = Nat
    <3> HIDE DEF C
    <3> QED
      BY <2>4, <2>5, SetInduction
  <2> QED
    BY <2>6
<1>14. F = {}
  <2>1. n - n = 0 /\ z(n - n) = {}
    BY <1>1, <1>13
  <2> QED
    BY <1>10, <2>1
<1>15. ASSUME NEW i \in 1..n
       PROVE  s[i] = t[i]
  <2>1. i - 1 \in 0..(n - 1) /\ i - 1 + 1 = i
    BY <1>1
  <2>2. \A b \in Ones(8) : b \notin Xor(s[i], t[i])
    BY <1>4, <1>14, <2>1
  <2>3. s[i] \in SUBSET Ones(8) /\ t[i] \in SUBSET Ones(8)
    BY <1>1, <2>1
  <2> QED
    BY <2>2, <2>3 DEF Xor
<1> QED
  BY <1>15, SeqEqual DEF n

-----------------------------------------------------------------------------
\* What a sender fills in, and what a receiver makes of it.
PartNames == {"frm_hdr", "msg_hdr", "slice", "message"}

Bytes == SUBSET Ones(8)

LEMMA FieldWidth ==
  ASSUME NEW p \in PartNames
  PROVE  /\ Alg[p] \in Algs /\ FieldLen[p] \in {1, 2, 4}
         /\ Width(Alg[p]) <= 8 * FieldLen[p]
         /\ p = "frm_hdr" => Width(Alg[p]) = 8
         /\ p = "message" => Alg[p] = "crc32" /\ FieldLen[p] = 4
         /\ p = "msg_hdr" => FieldLen[p] = 1
BY DEF PartNames, Alg, Algs, FieldLen, Width

LEMMA CoveredIs ==
  ASSUME NEW p \in PartNames, NEW s \in Seq(Bytes), Len(s) > 4
  PROVE  /\ Covered(p, s) \in Seq(Bytes)
         /\ Len(Covered(p, s)) = Len(s) - (IF p = "message" THEN FieldLen[p] ELSE 0)
         /\ Len(Covered(p, s)) \in Nat /\ Len(s) \in Nat
         /\ Len(s) - FieldLen[p] <= Len(Covered(p, s))
         /\ Len(Covered(p, s)) <= Len(s)
         /\ \A i \in 1..Len(Covered(p, s)) :
              Covered(p, s)[i] = IF i \in Body(p, s) THEN s[i]
                                 ELSE IF p = "frm_hdr" /\ i = 8 THEN {} ELSE Ones(8)
<1> DEFINE m == Len(s) - (IF p = "message" THEN FieldLen[p] ELSE 0)
           f(i) == IF i \in Body(p, s) THEN s[i]
                   ELSE IF p = "frm_hdr" /\ i = 8 THEN {} ELSE Ones(8)
<1>1. m \in Nat /\ Len(s) \in Nat /\ Len(s) - FieldLen[p] <= m /\ m <= Len(s)
  BY FieldWidth
<1>2. Covered(p, s) = [i \in 1..m |-> f(i)]
  BY DEF Covered
<1>3. ASSUME NEW i \in 1..m
      PROVE  f(i) \in Bytes
  BY <1>1 DEF Body, Bytes
<1> HIDE DEF m, f
<1>4. Covered(p, s) \in Seq(Bytes) /\ Len(Covered(p, s)) = m
  BY <1>1, <1>2, <1>3
<1>5. \A i \in 1..m : Covered(p, s)[i] = f(i)
  BY <1>2
<1> QED
  BY <1>1, <1>4, <1>5 DEF m, f

\* The checksum fits its field.
LEMMA CsumFits ==
  ASSUME NEW p \in PartNames, NEW s \in Seq(Bytes), Len(s) > 4
  PROVE  /\ CsumOf(p, s) \in SUBSET Ones(Width(Alg[p]))
         /\ Crc(Alg[p], Ones(Width(Alg[p])), Covered(p, s))[Len(Covered(p, s))] \in
              SUBSET Ones(Width(Alg[p]))
<1> DEFINE alg == Alg[p]
           c == Covered(p, s)
           crc == Crc(alg, Ones(Width(alg)), c)[Len(c)]
<1>1. alg \in Algs /\ c \in Seq(SUBSET Ones(8)) /\ Len(c) \in Nat
  BY FieldWidth, CoveredIs DEF Bytes
<1>2. crc \in SUBSET Ones(Width(alg))
  <2>1. \A k \in 0..Len(c) : Crc(alg, Ones(Width(alg)), c)[k] \in SUBSET Ones(Width(alg))
    BY <1>1, RegistersTurn
  <2> QED
    BY <1>1, <2>1
<1>3. Complemented(alg, crc) \in SUBSET Ones(Width(alg))
  BY <1>2 DEF Complemented, Width
<1> QED
  BY <1>2, <1>3 DEF CsumOf

\* The bytes of a word make it up again.
LEMMA WordOfBytes ==
  ASSUME NEW w \in SUBSET Nat, NEW m \in Nat
  PROVE  UNION {{8 * k + b : b \in ByteOf(w, k)} : k \in Ones(m)} = w \cap Ones(8 * m)
<1>1. ASSUME NEW k \in Ones(m), NEW b
      PROVE  b \in ByteOf(w, k) <=> b \in Ones(8) /\ b + 8 * k \in w
  <2>1. k \in Nat /\ 8 * k \in Nat
    BY DEF Ones
  <2>2. \A c \in Nat : c \in ShiftRight(w, 8 * k) <=> c + 8 * k \in w
    BY <2>1, ShiftIn, Zenon
  <2> QED
    BY <2>2 DEF ByteOf, Low, Ones
<1>2. ASSUME NEW k \in Ones(m), NEW b \in ByteOf(w, k)
      PROVE  8 * k + b \in w \cap Ones(8 * m)
  <2>1. b \in Ones(8) /\ b + 8 * k \in w
    BY <1>1
  <2> QED
    BY <2>1 DEF Ones
<1>3. ASSUME NEW x \in w \cap Ones(8 * m)
      PROVE  \E k \in Ones(m) : \E b \in ByteOf(w, k) : x = 8 * k + b
  <2> DEFINE k == x \div 8
             b == x % 8
  <2>1. x \in Nat /\ x < 8 * m
    BY DEF Ones
  <2>2. k \in Ones(m) /\ b \in Ones(8) /\ x = 8 * k + b
    BY <2>1 DEF Ones
  <2> HIDE DEF k, b
  <2>3. b + 8 * k = x
    BY <2>2 DEF Ones
  <2>4. b \in ByteOf(w, k)
    BY <1>1, <2>2, <2>3
  <2> QED
    BY <2>2, <2>4
<1> DEFINE U == UNION {{8 * k + b : b \in ByteOf(w, k)} : k \in Ones(m)}
<1>4. ASSUME NEW x \in U
      PROVE  x \in w \cap Ones(8 * m)
  <2> PICK k \in Ones(m) : x \in {8 * k + b : b \in ByteOf(w, k)}
    OBVIOUS
  <2> PICK b \in ByteOf(w, k) : x = 8 * k + b
    OBVIOUS
  <2> QED
    BY <1>2
<1>5. ASSUME NEW x \in w \cap Ones(8 * m)
      PROVE  x \in U
  <2> PICK k \in Ones(m) : \E b \in ByteOf(w, k) : x = 8 * k + b
    BY <1>3
  <2>1. x \in {8 * k + b : b \in ByteOf(w, k)}
    OBVIOUS
  <2> QED
    BY <2>1
<1> HIDE DEF U
<1>6. U = w \cap Ones(8 * m)
  BY <1>4, <1>5
<1> QED
  BY <1>6 DEF U

LEMMA BuiltIs ==
  ASSUME NEW p \in PartNames, NEW s \in Seq(Bytes), Len(s) > 4, p = "msg_hdr" => Len(s) = 10
  PROVE  /\ Built(p, s) \in Seq(Bytes) /\ Len(Built(p, s)) = Len(s)
         /\ p = "msg_hdr" => /\ Built(p, s)[5] = Built(p, s)[7]
                             /\ Built(p, s)[6] = Built(p, s)[8]
<1>1. CASE p = "msg_hdr"
  <2>1. 5 \in 1..Len(s) /\ 6 \in 1..Len(s) /\ 7 \in 1..Len(s) /\ 8 \in 1..Len(s)
    <3>1. Len(s) = 10
      BY <1>1
    <3> QED
      BY <3>1
  <2>2. Built(p, s) = [s EXCEPT ![7] = s[5], ![8] = s[6]]
    BY <1>1 DEF Built
  <2> QED
    BY <2>1, <2>2
<1>2. CASE p # "msg_hdr"
  BY <1>2 DEF Built
<1> QED
  BY <1>1, <1>2

\* What was sent is accepted.
LEMMA FilledPasses ==
  ASSUME NEW p \in PartNames, NEW s \in Seq(Bytes), Len(s) > 4,
         p = "frm_hdr" => Len(s) = 8, p = "msg_hdr" => Len(s) = 10
  PROVE  /\ Filled(p, s) \in Seq(Bytes)
         /\ Len(Filled(p, s)) = Len(s)
         /\ Accepts(p, Filled(p, s))
<1> DEFINE u == Built(p, s)
           w == CsumOf(p, u)
           n == Len(s)
           m == FieldLen[p]
           F == Filled(p, s)
<1>1. u \in Seq(Bytes) /\ Len(u) = n /\ n \in Nat /\ n > 4 /\ DOMAIN s = 1..n
  BY BuiltIs
<1>2. m \in {1, 2, 4} /\ Width(Alg[p]) <= 8 * m
  BY FieldWidth
<1>3. w \in SUBSET Ones(Width(Alg[p]))
  BY <1>1, CsumFits
<1>4. w \in SUBSET Nat /\ w \in SUBSET Ones(8 * m)
  <2>1. Width(Alg[p]) \in {8, 16, 32}
    BY MirrorSize, FieldWidth
  <2> QED
    BY <1>2, <1>3, <2>1 DEF Ones
<1>5. F = [i \in 1..n |-> IF i \in 1..(n - m) THEN u[i] ELSE ByteOf(w, i - (n - m) - 1)]
  BY <1>1 DEF Filled, Body
<1>6. \A k : ByteOf(w, k) \in Bytes
  BY DEF ByteOf, Low, Bytes
<1> HIDE DEF u, w, n, m, F
<1>7. F \in Seq(Bytes) /\ Len(F) = n
  <2>1. \A i \in 1..n : u[i] \in Bytes
    BY <1>1
  <2> QED
    BY <1>1, <1>5, <1>6, <2>1
<1>8. /\ \A i \in 1..(n - m) : F[i] = u[i]
      /\ \A k \in Ones(m) : F[n - m + k + 1] = ByteOf(w, k)
  <2>1. \A i \in 1..(n - m) : i \in 1..n
    BY <1>1, <1>2
  <2>2. ASSUME NEW k \in Ones(m)
        PROVE  F[n - m + k + 1] = ByteOf(w, k)
    <3>1. /\ n - m + k + 1 \in 1..n /\ n - m + k + 1 \notin 1..(n - m)
          /\ (n - m + k + 1) - (n - m) - 1 = k
      BY <1>1, <1>2 DEF Ones
    <3> QED
      BY <1>5, <3>1
  <2> QED
    BY <1>5, <2>1, <2>2
<1>9. Covered(p, F) = Covered(p, u)
  <2>1. Body(p, F) = 1..(n - m) /\ Body(p, u) = 1..(n - m)
    BY <1>1, <1>7 DEF Body, m
  <2> QED
    BY <1>1, <1>7, <1>8, <2>1 DEF Covered
<1>10. CsumOf(p, F) = w
  BY <1>9 DEF CsumOf, w
<1>11. UNION {{8 * k + b : b \in F[Len(F) - FieldLen[p] + k + 1]} : k \in Ones(FieldLen[p])} = w
  <2>1. \A k \in Ones(m) : F[Len(F) - m + k + 1] = ByteOf(w, k)
    BY <1>7, <1>8
  <2>2. UNION {{8 * k + b : b \in F[Len(F) - m + k + 1]} : k \in Ones(m)}
          = UNION {{8 * k + b : b \in ByteOf(w, k)} : k \in Ones(m)}
    BY <2>1
  <2>3. m \in Nat
    BY <1>2
  <2>4. UNION {{8 * k + b : b \in ByteOf(w, k)} : k \in Ones(m)} = w \cap Ones(8 * m)
    BY <1>4, <2>3, WordOfBytes
  <2>5. w \cap Ones(8 * m) = w
    BY <1>4
  <2> QED
    BY <2>2, <2>4, <2>5 DEF m
<1>12. Saved(p, F) = w
  <2>1. p = "frm_hdr" => Low(w) = w
    BY <1>3, FieldWidth DEF Low
  <2> QED
    BY <1>11, <2>1 DEF Saved
<1>13. p = "msg_hdr" => F[5] = F[7] /\ F[6] = F[8]
  <2>1. ASSUME p = "msg_hdr"
        PROVE  F[5] = F[7] /\ F[6] = F[8]
    <3>1. u[5] = u[7] /\ u[6] = u[8]
      BY <2>1, BuiltIs DEF u
    <3>2. n = 10 /\ m = 1
      BY <2>1, FieldWidth DEF n, m
    <3> QED
      BY <1>8, <3>1, <3>2
  <2> QED
    BY <2>1
<1> QED
  BY <1>7, <1>10, <1>12, <1>13 DEF Accepts, F, n

-----------------------------------------------------------------------------
\* What is sent is what the sender built, and the verdict is that on what came.
CrcInv ==
  /\ trial \in Trials
  /\ sent = Filled(trial.part, trial.bytes)
  /\ arrived \in Seq(Bytes) /\ Len(arrived) = Len(sent)
  /\ verdict = "accepted" => Accepts(trial.part, arrived)
  /\ verdict = "refused" => ~Accepts(trial.part, arrived)

LEMMA TrialIs ==
  ASSUME TrialsAssumption, CrcInv
  PROVE  /\ trial.part \in PartNames
         /\ sent \in Seq(Bytes) /\ Len(sent) \in Nat /\ Len(sent) > 4
         /\ Accepts(trial.part, sent)
<1>1. /\ trial.part \in PartNames /\ trial.bytes \in Seq(Bytes)
      /\ Len(trial.bytes) > 4
      /\ trial.part = "frm_hdr" => Len(trial.bytes) = 8
      /\ trial.part = "msg_hdr" => Len(trial.bytes) = 10
  BY DEF CrcInv, TrialsAssumption, PartNames, Bytes
<1>2. sent \in Seq(Bytes) /\ Len(sent) = Len(trial.bytes) /\ Accepts(trial.part, sent)
  BY <1>1, FilledPasses DEF CrcInv
<1> QED
  BY <1>1, <1>2

LEMMA FlipKeeps ==
  ASSUME NEW s \in Seq(Bytes), NEW bits
  PROVE  Flip(s, bits) \in Seq(Bytes) /\ Len(Flip(s, bits)) = Len(s)
<1> DEFINE f(i) == Xor(s[i], {b \in Ones(8) : 8 * (i - 1) + b \in bits})
<1>1. Len(s) \in Nat /\ DOMAIN s = 1..Len(s) /\ Flip(s, bits) = [i \in 1..Len(s) |-> f(i)]
  BY DEF Flip
<1>2. \A i \in 1..Len(s) : f(i) \in Bytes
  BY DEF Xor, Bytes
<1> HIDE DEF f
<1> QED
  BY <1>1, <1>2

LEMMA CrcInitInv ==
  ASSUME TrialsAssumption, CrcInit
  PROVE  CrcInv
<1>1. /\ trial.part \in PartNames /\ trial.bytes \in Seq(Bytes)
      /\ Len(trial.bytes) > 4
      /\ trial.part = "frm_hdr" => Len(trial.bytes) = 8
      /\ trial.part = "msg_hdr" => Len(trial.bytes) = 10
  BY DEF CrcInit, TrialsAssumption, PartNames, Bytes
<1>2. sent \in Seq(Bytes)
  BY <1>1, FilledPasses DEF CrcInit
<1> QED
  BY <1>2 DEF CrcInit, CrcInv

LEMMA CrcNextInv ==
  ASSUME TrialsAssumption, CrcInv, [CrcNext]_crcVars
  PROVE  CrcInv'
<1>1. sent \in Seq(Bytes) /\ arrived \in Seq(Bytes) /\ Len(arrived) = Len(sent)
  BY TrialIs DEF CrcInv
<1>2. CASE Scattered
  <2>1. arrived' \in Seq(Bytes) /\ Len(arrived') = Len(arrived)
    BY <1>1, <1>2, FlipKeeps DEF Scattered
  <2> QED
    BY <1>1, <1>2, <2>1 DEF Scattered, CrcInv
<1>3. CASE Burst
  <2>1. arrived' \in Seq(Bytes) /\ Len(arrived') = Len(sent)
    BY <1>1, <1>3, FlipKeeps DEF Burst
  <2> QED
    BY <1>1, <1>3, <2>1 DEF Burst, CrcInv
<1>4. CASE Check
  BY <1>4 DEF Check, CrcInv
<1>5. CASE UNCHANGED crcVars
  BY <1>5 DEF crcVars, CrcInv
<1> QED
  BY <1>2, <1>3, <1>4, <1>5 DEF CrcNext

LEMMA CrcSpecInv == ASSUME TrialsAssumption PROVE CrcSpec => []CrcInv
<1>1. CrcInit => CrcInv
  BY CrcInitInv
<1>2. CrcInv /\ [CrcNext]_crcVars => CrcInv'
  BY CrcNextInv
<1> QED
  BY <1>1, <1>2, PTL DEF CrcSpec

\* For what was sent, of any length and content, the registers that the tables give
\* are those of the division by the polynomial, bit by bit (crc8, crc16, crc32c).
THEOREM TablesAreDivision == ASSUME TrialsAssumption PROVE CrcSpec => []TablesDivide
<1>1. ASSUME CrcInv
      PROVE  TablesDivide
  <2> DEFINE alg == Alg[trial.part]
             s == Covered(trial.part, sent)
             crc == Crc(alg, Ones(Width(alg)), s)
  <2>1. alg \in Algs /\ s \in Seq(SUBSET Ones(8)) /\ Len(s) \in Nat
    BY <1>1, TrialIs, FieldWidth, CoveredIs DEF Bytes
  <2>2. /\ crc[0] = Ones(Width(alg))
        /\ \A k \in 0..(Len(s) - 1) : crc[k + 1] = EightTurns(alg, Xor(crc[k], s[k + 1]))
    <3> HIDE DEF s, alg
    <3>1. Ones(Width(alg)) \in SUBSET Ones(Width(alg))
      OBVIOUS
    <3> QED
      BY <2>1, <3>1, RegistersTurn
  <2> HIDE DEF s, crc, alg
  <2>3. ASSUME NEW k \in 1..Len(s)
        PROVE  crc[k] = EightTurns(alg, Xor(crc[k - 1], s[k]))
    <3>1. k - 1 \in 0..(Len(s) - 1) /\ k - 1 + 1 = k
      BY <2>1
    <3>2. crc[k - 1 + 1] = EightTurns(alg, Xor(crc[k - 1], s[k - 1 + 1]))
      BY <2>2, <3>1, Zenon
    <3> QED
      BY <3>1, <3>2
  <2>4. Divides(alg, s, crc)
    BY <2>2, <2>3 DEF Divides
  <2> QED
    BY <2>4 DEF TablesDivide, s, crc, alg
<1> QED
  BY <1>1, CrcSpecInv, PTL

\* What arrives as it was sent is accepted, whatever its content.
THEOREM SentAccepted == ASSUME TrialsAssumption PROVE CrcSpec => []SentIsAccepted
<1>1. ASSUME CrcInv
      PROVE  SentIsAccepted
  BY <1>1, TrialIs DEF SentIsAccepted, CrcInv
<1> QED
  BY <1>1, CrcSpecInv, PTL

\* Two strings of one checksum, the bytes of the field alike: their registers end
\* alike.
LEMMA SameRegisters ==
  ASSUME NEW p \in PartNames, NEW s \in Seq(Bytes), NEW t \in Seq(Bytes),
         Len(s) > 4, Len(t) = Len(s), Accepts(p, s), Accepts(p, t),
         \A i \in DOMAIN s \ Body(p, s) : t[i] = s[i]
  PROVE  LET end(x) == Crc(Alg[p], Ones(Width(Alg[p])), Covered(p, x))[Len(Covered(p, x))]
         IN end(s) = end(t)
<1> DEFINE end(x) == Crc(Alg[p], Ones(Width(Alg[p])), Covered(p, x))[Len(Covered(p, x))]
           m == FieldLen[p]
           n == Len(s)
<1>1. \A k \in Ones(m) : t[Len(t) - m + k + 1] = s[Len(s) - m + k + 1]
  <2>1. n \in Nat /\ n > 4 /\ DOMAIN s = 1..n /\ m \in {1, 2, 4}
    BY FieldWidth
  <2>2. ASSUME NEW k \in Ones(m)
        PROVE  n - m + k + 1 \in DOMAIN s \ Body(p, s)
    BY <2>1 DEF Body, Ones
  <2> QED
    BY <2>2
<1>2. Saved(p, s) = Saved(p, t)
  <2>1. UNION {{8 * k + b : b \in t[Len(t) - m + k + 1]} : k \in Ones(m)}
          = UNION {{8 * k + b : b \in s[Len(s) - m + k + 1]} : k \in Ones(m)}
    BY <1>1
  <2> QED
    BY <2>1 DEF Saved
<1>3. CsumOf(p, s) = CsumOf(p, t)
  BY <1>2 DEF Accepts
<1>4. Complemented(Alg[p], end(s)) = Complemented(Alg[p], end(t))
  BY <1>3 DEF CsumOf
<1>5. end(s) \in SUBSET Ones(Width(Alg[p])) /\ end(t) \in SUBSET Ones(Width(Alg[p]))
  BY CsumFits
<1> HIDE DEF end
<1>6. end(s) = end(t)
  BY <1>4, <1>5 DEF Complemented, Width
<1> QED
  BY <1>6 DEF end

LEMMA RunRefused ==
  ASSUME TrialsAssumption, CrcInv, verdict = "accepted", InField,
         NEW a \in Nat, Flips \in SUBSET Run(Alg[trial.part], a)
  PROVE  BodyAsSent
<1> DEFINE p == trial.part
           alg == Alg[p]
           s == Covered(p, sent)
           t == Covered(p, arrived)
           m == Len(s)
<1>1. /\ p \in PartNames
      /\ sent \in Seq(Bytes) /\ Len(sent) \in Nat /\ Len(sent) > 4 /\ Accepts(p, sent)
      /\ arrived \in Seq(Bytes) /\ Len(arrived) = Len(sent) /\ Accepts(p, arrived)
  BY TrialIs DEF CrcInv
<1>2. alg \in Algs /\ FieldLen[p] \in {1, 2, 4}
  BY <1>1, FieldWidth
<1>3. Body(p, arrived) = Body(p, sent) /\ DOMAIN sent = 1..Len(sent)
  BY <1>1 DEF Body
<1>4. /\ s \in Seq(Bytes) /\ t \in Seq(Bytes) /\ Len(t) = m
      /\ m \in Nat /\ Len(sent) - FieldLen[p] <= m /\ m <= Len(sent)
      /\ \A i \in 1..m : s[i] = IF i \in Body(p, sent) THEN sent[i]
                                ELSE IF p = "frm_hdr" /\ i = 8 THEN {} ELSE Ones(8)
      /\ \A i \in 1..m : t[i] = IF i \in Body(p, sent) THEN arrived[i]
                                ELSE IF p = "frm_hdr" /\ i = 8 THEN {} ELSE Ones(8)
  <2>1. /\ s \in Seq(Bytes) /\ Len(s) = Len(sent) - (IF p = "message" THEN FieldLen[p] ELSE 0)
        /\ m \in Nat /\ Len(sent) - FieldLen[p] <= m /\ m <= Len(sent)
        /\ \A i \in 1..Len(s) : s[i] = IF i \in Body(p, sent) THEN sent[i]
                                       ELSE IF p = "frm_hdr" /\ i = 8 THEN {} ELSE Ones(8)
    BY <1>1, CoveredIs
  <2>2. /\ t \in Seq(Bytes) /\ Len(t) = Len(arrived) - (IF p = "message" THEN FieldLen[p] ELSE 0)
        /\ \A i \in 1..Len(t) : t[i] = IF i \in Body(p, arrived) THEN arrived[i]
                                       ELSE IF p = "frm_hdr" /\ i = 8 THEN {} ELSE Ones(8)
    BY <1>1, CoveredIs
  <2> HIDE DEF s, t
  <2>3. Len(t) = Len(s)
    BY <1>1, <2>1, <2>2
  <2> QED
    BY <1>3, <2>1, <2>2, <2>3
<1>5. Crc(alg, Ones(Width(alg)), s)[m] = Crc(alg, Ones(Width(alg)), t)[m]
  <2>1. \A i \in DOMAIN sent \ Body(p, sent) : arrived[i] = sent[i]
    BY DEF InField
  <2>2. Crc(alg, Ones(Width(alg)), s)[Len(s)] = Crc(alg, Ones(Width(alg)), t)[Len(t)]
    BY <1>1, <2>1, SameRegisters
  <2> HIDE DEF s, t, alg
  <2> QED
    BY <1>4, <2>2
<1> HIDE DEF s, t, alg, p, m
<1>6. Differ(s, t) \in SUBSET Flips
  <2>1. ASSUME NEW x \in Differ(s, t)
        PROVE  x \in Flips
    <3>1. DOMAIN s = 1..m
      BY <1>4 DEF m
    <3> PICK i \in 1..m : x \in {8 * (i - 1) + b : b \in Xor(s[i], t[i])}
      BY <3>1 DEF Differ
    <3> PICK b \in Xor(s[i], t[i]) : x = 8 * (i - 1) + b
      OBVIOUS
    <3>2. i \in DOMAIN sent
      BY <1>3, <1>4, <1>1
    <3>3. s[i] # t[i]
      BY DEF Xor
    <3>4. s[i] = sent[i] /\ t[i] = arrived[i]
      BY <1>4, <3>3
    <3>5. b \in Xor(sent[i], arrived[i])
      BY <3>4
    <3> QED
      BY <3>2, <3>5 DEF Flips
  <2> QED
    BY <2>1
<1>7. s = t
  <2>1. /\ s \in Seq(SUBSET Ones(8)) /\ t \in Seq(SUBSET Ones(8)) /\ Len(t) = Len(s)
        /\ Differ(s, t) \in SUBSET Run(alg, a)
        /\ Ones(Width(alg)) \in SUBSET Ones(Width(alg))
        /\ Crc(alg, Ones(Width(alg)), s)[Len(s)] = Crc(alg, Ones(Width(alg)), t)[Len(s)]
    BY <1>4, <1>5, <1>6 DEF Bytes, alg, p, m
  <2> QED
    BY <1>2, <2>1, RunsTold
<1>8. ASSUME NEW i \in Body(p, sent)
      PROVE  arrived[i] = sent[i]
  <2>1. i \in 1..m
    BY <1>1, <1>2, <1>4 DEF Body
  <2> QED
    BY <1>4, <1>7, <2>1
<1> QED
  BY <1>8 DEF BodyAsSent, p

\* Damage in a run of bits no longer than the checksum, outside its field, is
\* refused, in a part of any length and content.
THEOREM RunsRefused == ASSUME TrialsAssumption PROVE CrcSpec => []BurstRefused
<1>1. ASSUME CrcInv
      PROVE  BurstRefused
  <2> SUFFICES ASSUME verdict = "accepted", InField, InRun
               PROVE  BodyAsSent
    BY DEF BurstRefused
  <2> PICK a \in Positions : Flips \subseteq a..(a + Width(Alg[trial.part]) - 1)
    BY DEF InRun
  <2>1. a \in Nat
    BY <1>1, TrialIs DEF Positions
  <2> QED
    BY <1>1, <2>1, RunRefused DEF Run
<1> QED
  BY <1>1, CrcSpecInv, PTL

\* The checks let through what was sent, and nothing else of what a link makes of
\* it that damages it in one bit or in a run: in parts of any length and content.
THEOREM OneFlipRefused ==
  ASSUME TrialsAssumption, \A t \in Trials : t.flips = 1
  PROVE  CrcSpec => []ChecksumsGuard
<1>1. ASSUME CrcInv
      PROVE  FlipsRefused
  <2> SUFFICES ASSUME verdict = "accepted", Cardinality(Flips) <= trial.flips
               PROVE  BodyAsSent
    BY DEF FlipsRefused
  <2>1. /\ sent \in Seq(Bytes) /\ Len(sent) \in Nat /\ Len(sent) > 4
        /\ arrived \in Seq(Bytes) /\ Len(arrived) = Len(sent)
        /\ trial.part \in PartNames
    BY <1>1, TrialIs DEF CrcInv
  <2>2. Flips = Differ(sent, arrived)
    BY DEF Flips, Differ
  <2>3. /\ Flips \in SUBSET 0..(8 * Len(sent) - 1)
        /\ \A k \in 0..(Len(sent) - 1) : \A b \in Ones(8) :
             8 * k + b \in Flips <=> b \in Xor(sent[k + 1], arrived[k + 1])
    BY <2>1, <2>2, DifferIn DEF Bytes
  <2>4. IsFiniteSet(Flips) /\ Cardinality(Flips) <= 1
    <3>1. IsFiniteSet(0..(8 * Len(sent) - 1))
      BY <2>1, FS_Interval
    <3> QED
      BY <1>1, <2>3, <3>1, FS_Subset DEF CrcInv
  <2>5. \A x, y \in Flips : x = y
    <3> SUFFICES ASSUME NEW x \in Flips, NEW y \in Flips, x # y
                 PROVE  FALSE
      OBVIOUS
    <3>1. Cardinality({x, y}) = 2
      <4>1. IsFiniteSet({x}) /\ Cardinality({x}) = 1
        BY FS_Singleton
      <4>2. Cardinality({x} \cup {y}) = 2
        <5>1. y \notin {x}
          OBVIOUS
        <5> QED
          BY <4>1, <5>1, FS_AddElement
      <4>3. {x} \cup {y} = {x, y}
        OBVIOUS
      <4> QED
        BY <4>2, <4>3
    <3>2. Cardinality({x, y}) <= Cardinality(Flips)
      BY <2>4, FS_Subset
    <3>3. Cardinality(Flips) \in Nat
      BY <2>4, FS_CardinalityType
    <3> QED
      BY <2>4, <3>1, <3>2, <3>3
  <2> SUFFICES ASSUME NEW i \in Body(trial.part, sent), arrived[i] # sent[i]
               PROVE  FALSE
    BY DEF BodyAsSent
  <2>6. FieldLen[trial.part] \in {1, 2, 4}
    BY <2>1, FieldWidth
  <2>7. DOMAIN sent = 1..Len(sent) /\ i \in 1..Len(sent)
    BY <2>1, <2>6 DEF Body
  <2>8. \A j \in 1..Len(sent) : arrived[j] # sent[j] =>
          \E b \in Ones(8) : 8 * (j - 1) + b \in Flips
    <3> SUFFICES ASSUME NEW j \in 1..Len(sent), arrived[j] # sent[j]
                 PROVE  \E b \in Ones(8) : 8 * (j - 1) + b \in Flips
      OBVIOUS
    <3>1. sent[j] \in SUBSET Ones(8) /\ arrived[j] \in SUBSET Ones(8)
      BY <2>1 DEF Bytes
    <3>2. \E b \in Ones(8) : b \in Xor(sent[j], arrived[j])
      BY <3>1 DEF Xor
    <3>3. j - 1 \in 0..(Len(sent) - 1) /\ j - 1 + 1 = j
      BY <2>1
    <3> QED
      BY <2>3, <3>2, <3>3
  <2>9. PICK x \in Flips : \E b \in Ones(8) : x = 8 * (i - 1) + b
    BY <2>7, <2>8
  <2>10. InField
    <3> SUFFICES ASSUME NEW j \in DOMAIN sent \ Body(trial.part, sent), arrived[j] # sent[j]
                 PROVE  FALSE
      BY DEF InField
    <3>1. PICK b \in Ones(8) : 8 * (j - 1) + b \in Flips
      BY <2>7, <2>8
    <3>2. PICK c \in Ones(8) : x = 8 * (i - 1) + c
      BY <2>9
    <3>3. 8 * (j - 1) + b = 8 * (i - 1) + c /\ b \in 0..7 /\ c \in 0..7
      <4>1. 8 * (j - 1) + b = x
        BY <2>5, <3>1
      <4>2. b \in 0..7 /\ c \in 0..7
        BY DEF Ones
      <4> QED
        BY <3>2, <4>1, <4>2
    <3>4. i = j
      BY <2>7, <3>3
    <3> QED
      BY <3>4
  <2>11. x \in Nat /\ Flips \in SUBSET Run(Alg[trial.part], x)
    <3>1. Width(Alg[trial.part]) \in {8, 16, 32} /\ x \in Nat
      BY <2>1, <2>3, FieldWidth, MirrorSize
    <3>2. x \in Run(Alg[trial.part], x)
      BY <3>1 DEF Run
    <3> QED
      BY <2>5, <3>1, <3>2
  <2> QED
    BY <1>1, <2>10, <2>11, RunRefused DEF BodyAsSent
<1> QED
  BY <1>1, CrcSpecInv, RunsRefused, SentAccepted, PTL DEF ChecksumsGuard

-----------------------------------------------------------------------------
\* Whether damage passes depends on which bits are flipped only: the mask of a byte,
\* what the flips add to the register, and what they add to the field.
Mask(i, bits) == {b \in Ones(8) : 8 * (i - 1) + b \in bits}

Noise(p, n, bits) ==
  [i \in 1..(n - (IF p = "message" THEN FieldLen[p] ELSE 0)) |->
     IF i \in 1..(n - FieldLen[p]) THEN Mask(i, bits) ELSE {}]

Added(p, n, bits) ==
  Crc(Alg[p], {}, Noise(p, n, bits))[n - (IF p = "message" THEN FieldLen[p] ELSE 0)]

Struck(p, n, bits) ==
  LET w == UNION {{8 * k + b : b \in Mask(n - FieldLen[p] + k + 1, bits)} : k \in Ones(FieldLen[p])}
  IN IF p = "frm_hdr" THEN Low(w) ELSE w

Undetected(p, n, bits) ==
  /\ p = "msg_hdr" => Mask(5, bits) = Mask(7, bits) /\ Mask(6, bits) = Mask(8, bits)
  /\ Struck(p, n, bits) = Added(p, n, bits)

\* Registers add up as the strings do.
LEMMA RegistersLinear ==
  ASSUME NEW alg \in Algs, NEW from \in SUBSET Ones(Width(alg)),
         NEW s \in Seq(Bytes), NEW t \in Seq(Bytes), NEW e \in Seq(Bytes),
         Len(t) = Len(s), Len(e) = Len(s),
         \A i \in 1..Len(s) : t[i] = Xor(s[i], e[i])
  PROVE  Crc(alg, from, t)[Len(s)] = Xor(Crc(alg, from, s)[Len(s)], Crc(alg, {}, e)[Len(s)])
<1> DEFINE n == Len(s)
           u == Crc(alg, from, s)
           v == Crc(alg, from, t)
           d == Crc(alg, {}, e)
           O == Ones(Width(alg))
           E(x) == EightTurns(alg, x)
<1>1. /\ n \in Nat
      /\ \A k \in 0..(n - 1) : /\ k \in 0..n /\ k + 1 \in 1..n
                               /\ s[k + 1] \in Bytes /\ t[k + 1] \in Bytes /\ e[k + 1] \in Bytes
  OBVIOUS
<1>2. /\ u[0] = from
      /\ \A k \in 0..n : u[k] \in SUBSET O
      /\ \A k \in 0..(n - 1) : u[k + 1] = E(Xor(u[k], s[k + 1]))
  BY RegistersTurn DEF Bytes
<1>3. /\ v[0] = from
      /\ \A k \in 0..(n - 1) : v[k + 1] = E(Xor(v[k], t[k + 1]))
  <2>1. /\ v[0] = from
        /\ \A k \in 0..(Len(t) - 1) : v[k + 1] = E(Xor(v[k], t[k + 1]))
    BY RegistersTurn DEF Bytes
  <2> HIDE DEF v, E
  <2> QED
    BY <2>1
<1>4. /\ d[0] = {}
      /\ \A k \in 0..n : d[k] \in SUBSET O
      /\ \A k \in 0..(n - 1) : d[k + 1] = E(Xor(d[k], e[k + 1]))
  <2>1. {} \in SUBSET Ones(Width(alg))
    OBVIOUS
  <2>2. /\ d[0] = {}
        /\ \A k \in 0..Len(e) : d[k] \in SUBSET O
        /\ \A k \in 0..(Len(e) - 1) : d[k + 1] = E(Xor(d[k], e[k + 1]))
    BY <2>1, RegistersTurn DEF Bytes
  <2> HIDE DEF d, E, O
  <2> QED
    BY <2>2
<1>5. O \in SUBSET Nat /\ \A x \in Bytes : x \in SUBSET Nat
  BY MirrorSize DEF Ones, Bytes
<1>6. \A x, y \in SUBSET Nat : E(Xor(x, y)) = Xor(E(x), E(y)) /\ Xor(x, y) \in SUBSET Nat
  BY EightLinear, TurnLinear
<1> HIDE DEF u, v, d, O, E, n
<1> DEFINE P(k) == k <= n => v[k] = Xor(u[k], d[k])
<1>7. P(0)
  BY <1>2, <1>3, <1>4, XorRules
<1>8. ASSUME NEW k \in Nat, P(k), k + 1 <= n
      PROVE  v[k + 1] = Xor(u[k + 1], d[k + 1])
  <2>1. k \in 0..(n - 1) /\ k \in 0..n /\ k + 1 \in 1..n /\ v[k] = Xor(u[k], d[k])
    BY <1>1, <1>8
  <2>2. t[k + 1] = Xor(s[k + 1], e[k + 1])
    BY <2>1 DEF n
  <2>3. Xor(v[k], t[k + 1]) = Xor(Xor(u[k], s[k + 1]), Xor(d[k], e[k + 1]))
    BY <2>1, <2>2 DEF Xor
  <2>4. /\ u[k] \in SUBSET Nat /\ d[k] \in SUBSET Nat
        /\ s[k + 1] \in SUBSET Nat /\ e[k + 1] \in SUBSET Nat
    BY <1>1, <1>2, <1>4, <1>5, <2>1
  <2>5. /\ Xor(u[k], s[k + 1]) \in SUBSET Nat
        /\ Xor(d[k], e[k + 1]) \in SUBSET Nat
    BY <1>6, <2>4
  <2>6. E(Xor(v[k], t[k + 1])) = Xor(E(Xor(u[k], s[k + 1])), E(Xor(d[k], e[k + 1])))
    BY <1>6, <2>3, <2>5
  <2> QED
    BY <1>2, <1>3, <1>4, <2>1, <2>6
<1>9. \A k \in Nat : P(k) => P(k + 1)
  BY <1>8
<1> HIDE DEF P
<1> DEFINE A == {k \in Nat : P(k)}
<1>10. 0 \in A /\ \A k \in A : k + 1 \in A
  BY <1>7, <1>9
<1>11. A \in SUBSET Nat
  OBVIOUS
<1>12. A = Nat
  <2> HIDE DEF A
  <2> QED
    BY <1>10, <1>11, SetInduction
<1>13. P(n)
  BY <1>1, <1>12
<1> QED
  BY <1>1, <1>13 DEF P, u, v, d, n

LEMMA CsumAdds ==
  ASSUME NEW p \in PartNames, NEW s \in Seq(Bytes), Len(s) > 4, NEW bits
  PROVE  CsumOf(p, Flip(s, bits)) = Xor(CsumOf(p, s), Added(p, Len(s), bits))
<1> DEFINE t == Flip(s, bits)
           n == Len(s)
           m == n - (IF p = "message" THEN FieldLen[p] ELSE 0)
           c == Covered(p, s)
           d == Covered(p, t)
           e == Noise(p, n, bits)
           alg == Alg[p]
           O == Ones(Width(alg))
<1>1. /\ n \in Nat /\ FieldLen[p] \in {1, 2, 4} /\ alg \in Algs
      /\ t \in Seq(Bytes) /\ Len(t) = n
      /\ \A i \in 1..n : t[i] = Xor(s[i], Mask(i, bits))
  <2>1. \A i \in 1..n : t[i] = Xor(s[i], Mask(i, bits))
    BY DEF Flip, Mask
  <2> HIDE DEF t
  <2> QED
    BY <2>1, FlipKeeps, FieldWidth DEF t
<1>2. /\ c \in Seq(Bytes) /\ Len(c) = m /\ m \in Nat /\ m <= n
      /\ \A i \in 1..m : c[i] = IF i \in Body(p, s) THEN s[i]
                                ELSE IF p = "frm_hdr" /\ i = 8 THEN {} ELSE Ones(8)
  BY CoveredIs
<1>3. /\ d \in Seq(Bytes) /\ Len(d) = m
      /\ \A i \in 1..m : d[i] = IF i \in Body(p, s) THEN t[i]
                                ELSE IF p = "frm_hdr" /\ i = 8 THEN {} ELSE Ones(8)
  <2>1. Body(p, t) = Body(p, s)
    BY <1>1 DEF Body
  <2>2. /\ d \in Seq(Bytes) /\ Len(d) = Len(t) - (IF p = "message" THEN FieldLen[p] ELSE 0)
        /\ \A i \in 1..Len(d) : d[i] = IF i \in Body(p, t) THEN t[i]
                                       ELSE IF p = "frm_hdr" /\ i = 8 THEN {} ELSE Ones(8)
    <3> HIDE DEF t
    <3> QED
      BY <1>1, CoveredIs
  <2> HIDE DEF d, t
  <2> QED
    BY <1>1, <2>1, <2>2
<1>4. /\ e \in Seq(Bytes) /\ Len(e) = m
      /\ \A i \in 1..m : e[i] = IF i \in Body(p, s) THEN Mask(i, bits) ELSE {}
  <2> DEFINE g(i) == IF i \in Body(p, s) THEN Mask(i, bits) ELSE {}
  <2>1. e = [i \in 1..m |-> g(i)]
    BY DEF Noise, Body
  <2>2. \A i : g(i) \in Bytes
    BY DEF Mask, Bytes
  <2> HIDE DEF e, m, g
  <2>3. e \in Seq(Bytes) /\ Len(e) = m /\ \A i \in 1..m : e[i] = g(i)
    BY <1>2, <2>1, <2>2
  <2> QED
    BY <2>3 DEF g
<1>5. Added(p, n, bits) = Crc(alg, {}, e)[m]
  BY DEF Added
<1>6. /\ CsumOf(p, s) = Complemented(alg, Crc(alg, O, c)[m])
      /\ CsumOf(p, t) = Complemented(alg, Crc(alg, O, d)[m])
  BY <1>2, <1>3 DEF CsumOf
<1>7. Crc(alg, O, c)[m] \in SUBSET O /\ Crc(alg, O, d)[m] \in SUBSET O
  <2>1. Crc(alg, O, c)[Len(c)] \in SUBSET O
    BY CsumFits
  <2>2. Crc(alg, O, d)[Len(d)] \in SUBSET O
    <3> HIDE DEF t
    <3> QED
      BY <1>1, CsumFits
  <2> HIDE DEF c, d, m, O
  <2> QED
    BY <1>2, <1>3, <2>1, <2>2
<1> HIDE DEF t, n, m, c, d, e, alg
<1>8. ASSUME NEW i \in 1..m
      PROVE  d[i] = Xor(c[i], e[i])
  <2>1. i \in 1..n
    BY <1>1, <1>2
  <2>2. CASE i \in Body(p, s)
    BY <1>1, <1>2, <1>3, <1>4, <2>1, <2>2
  <2>3. CASE i \notin Body(p, s)
    <3>1. d[i] = c[i] /\ e[i] = {}
      BY <1>2, <1>3, <1>4, <2>3
    <3> QED
      BY <3>1, XorRules
  <2> QED
    BY <2>2, <2>3
<1>9. Crc(alg, O, d)[m] = Xor(Crc(alg, O, c)[m], Crc(alg, {}, e)[m])
  <2>1. Len(d) = Len(c) /\ Len(e) = Len(c) /\ \A i \in 1..Len(c) : d[i] = Xor(c[i], e[i])
    BY <1>2, <1>3, <1>4, <1>8
  <2>2. O \in SUBSET Ones(Width(alg))
    OBVIOUS
  <2>3. alg \in Algs /\ c \in Seq(Bytes) /\ d \in Seq(Bytes) /\ e \in Seq(Bytes)
    BY <1>1, <1>2, <1>3, <1>4
  <2> HIDE DEF O
  <2>4. Crc(alg, O, d)[Len(c)] = Xor(Crc(alg, O, c)[Len(c)], Crc(alg, {}, e)[Len(c)])
    BY <2>1, <2>2, <2>3, RegistersLinear
  <2> QED
    BY <1>2, <2>4
<1> DEFINE a == Crc(alg, O, c)[m]
           b == Crc(alg, O, d)[m]
           g == Crc(alg, {}, e)[m]
<1>10. Complemented(alg, b) = Xor(Complemented(alg, a), g)
  <2>1. b = Xor(a, g) /\ a \in SUBSET O /\ b \in SUBSET O
    BY <1>7, <1>9
  <2> HIDE DEF a, b, g
  <2>2. CASE alg = "crc32"
    <3>1. O = Ones(32)
      BY <2>2 DEF Width
    <3> HIDE DEF O
    <3>2. Ones(32) \ b = Xor(Ones(32) \ a, g)
      BY <2>1, <3>1 DEF Xor
    <3> QED
      BY <2>2, <3>2 DEF Complemented
  <2>3. CASE alg # "crc32"
    BY <2>1, <2>3 DEF Complemented
  <2> QED
    BY <2>2, <2>3
<1> QED
  BY <1>5, <1>6, <1>10 DEF t, n

LEMMA SavedAdds ==
  ASSUME NEW p \in PartNames, NEW s \in Seq(Bytes), Len(s) > 4, NEW bits
  PROVE  Saved(p, Flip(s, bits)) = Xor(Saved(p, s), Struck(p, Len(s), bits))
<1> DEFINE t == Flip(s, bits)
           n == Len(s)
           m == FieldLen[p]
           M(k) == Mask(n - m + k + 1, bits)
           S(k) == s[n - m + k + 1]
           T(k) == t[n - m + k + 1]
           w(f) == UNION {{8 * k + b : b \in f[k]} : k \in Ones(m)}
           fM == [k \in Ones(m) |-> M(k)]
           fS == [k \in Ones(m) |-> S(k)]
           fT == [k \in Ones(m) |-> T(k)]
<1>1. /\ n \in Nat /\ n > 4 /\ m \in {1, 2, 4} /\ Len(t) = n
      /\ \A i \in 1..n : t[i] = Xor(s[i], Mask(i, bits)) /\ s[i] \in Bytes
  <2>1. \A i \in 1..n : t[i] = Xor(s[i], Mask(i, bits)) /\ s[i] \in Bytes
    BY DEF Flip, Mask
  <2>2. Len(t) = n
    BY FlipKeeps
  <2> QED
    BY <2>1, <2>2, FieldWidth
<1>2. /\ Saved(p, s) = IF p = "frm_hdr" THEN Low(w(fS)) ELSE w(fS)
      /\ Saved(p, t) = IF p = "frm_hdr" THEN Low(w(fT)) ELSE w(fT)
      /\ Struck(p, n, bits) = IF p = "frm_hdr" THEN Low(w(fM)) ELSE w(fM)
  <2>1. /\ w(fS) = UNION {{8 * k + b : b \in S(k)} : k \in Ones(m)}
        /\ w(fT) = UNION {{8 * k + b : b \in T(k)} : k \in Ones(m)}
        /\ w(fM) = UNION {{8 * k + b : b \in M(k)} : k \in Ones(m)}
    OBVIOUS
  <2>2. UNION {{8 * k + b : b \in t[Len(t) - m + k + 1]} : k \in Ones(m)}
          = UNION {{8 * k + b : b \in T(k)} : k \in Ones(m)}
    BY <1>1
  <2> HIDE DEF w
  <2>3. Saved(p, s) = IF p = "frm_hdr" THEN Low(w(fS)) ELSE w(fS)
    BY <2>1 DEF Saved
  <2>4. Saved(p, t) = IF p = "frm_hdr" THEN Low(w(fT)) ELSE w(fT)
    BY <2>1, <2>2 DEF Saved
  <2>5. Struck(p, n, bits) = IF p = "frm_hdr" THEN Low(w(fM)) ELSE w(fM)
    BY <2>1 DEF Struck
  <2> QED
    BY <2>3, <2>4, <2>5
<1>3. ASSUME NEW k \in Ones(m)
      PROVE  /\ fS[k] \in SUBSET Ones(8) /\ fM[k] \in SUBSET Ones(8)
             /\ fT[k] = Xor(fS[k], fM[k]) /\ fT[k] \in SUBSET Ones(8)
  <2>1. n - m + k + 1 \in 1..n
    BY <1>1 DEF Ones
  <2>2. T(k) = Xor(S(k), M(k)) /\ S(k) \in SUBSET Ones(8)
    BY <1>1, <2>1 DEF Bytes
  <2>3. M(k) \in SUBSET Ones(8)
    BY DEF Mask
  <2>4. fS[k] = S(k) /\ fT[k] = T(k) /\ fM[k] = M(k)
    OBVIOUS
  <2> HIDE DEF S, T, M, fS, fT, fM
  <2> QED
    BY <2>2, <2>3, <2>4 DEF Xor
<1> HIDE DEF t, n, m, fS, fT, fM
\* Each bit of a word is one of one byte.
<1>4. ASSUME NEW f, \A k \in Ones(m) : f[k] \in SUBSET Ones(8), NEW x
      PROVE  x \in w(f) <=> /\ x \in Nat /\ x \div 8 \in Ones(m)
                            /\ x % 8 \in f[x \div 8]
  <2>1. ASSUME x \in w(f)
        PROVE  x \in Nat /\ x \div 8 \in Ones(m) /\ x % 8 \in f[x \div 8]
    <3> PICK k \in Ones(m) : x \in {8 * k + b : b \in f[k]}
      BY <2>1
    <3> PICK b \in f[k] : x = 8 * k + b
      OBVIOUS
    <3>1. k \in Nat /\ b \in 0..7
      BY <1>1, <1>4 DEF Ones
    <3>2. x \in Nat /\ x \div 8 = k /\ x % 8 = b
      BY <3>1
    <3> QED
      BY <3>2
  <2>2. ASSUME x \in Nat, x \div 8 \in Ones(m), x % 8 \in f[x \div 8]
        PROVE  x \in w(f)
    <3>1. x = 8 * (x \div 8) + (x % 8)
      <4>1. x \in Nat
        BY <2>2
      <4>2. \A y \in Nat : y = 8 * (y \div 8) + (y % 8)
        OBVIOUS
      <4> QED
        BY <4>1, <4>2, Zenon
    <3>2. x \in {8 * (x \div 8) + b : b \in f[x \div 8]}
      BY <2>2, <3>1
    <3> QED
      BY <2>2, <3>2
  <2> QED
    BY <2>1, <2>2
<1> HIDE DEF w
<1>5. ASSUME NEW x
      PROVE  x \in w(fT) <=> x \in Xor(w(fS), w(fM))
  <2>1. /\ x \in w(fT) <=> x \in Nat /\ x \div 8 \in Ones(m) /\ x % 8 \in fT[x \div 8]
        /\ x \in w(fS) <=> x \in Nat /\ x \div 8 \in Ones(m) /\ x % 8 \in fS[x \div 8]
        /\ x \in w(fM) <=> x \in Nat /\ x \div 8 \in Ones(m) /\ x % 8 \in fM[x \div 8]
    BY <1>3, <1>4
  <2>2. x \in Xor(w(fS), w(fM)) <=> ~(x \in w(fS) <=> x \in w(fM))
    BY XorIn
  <2>3. CASE x \div 8 \in Ones(m)
    <3>1. x % 8 \in fT[x \div 8] <=> ~(x % 8 \in fS[x \div 8] <=> x % 8 \in fM[x \div 8])
      BY <1>3, <2>3, XorIn
    <3> QED
      BY <2>1, <2>2, <3>1
  <2>4. CASE x \div 8 \notin Ones(m)
    BY <2>1, <2>2, <2>4
  <2> QED
    BY <2>3, <2>4
<1>6. w(fT) = Xor(w(fS), w(fM))
  BY <1>5
<1>7. Low(w(fT)) = Xor(Low(w(fS)), Low(w(fM)))
  BY <1>6 DEF Low, Xor
<1>8. Saved(p, t) = Xor(Saved(p, s), Struck(p, n, bits))
  BY <1>2, <1>6, <1>7
<1> QED
  BY <1>8 DEF t, n

\* The verdict on damage is the same whatever the content: runs with one content
\* show it for all, so that FlipsRefused need be checked for one.
THEOREM FlipsDecide ==
  ASSUME NEW p \in PartNames, NEW s \in Seq(Bytes), Len(s) > 4,
         p = "frm_hdr" => Len(s) = 8, p = "msg_hdr" => Len(s) = 10, NEW bits
  PROVE  Accepts(p, Flip(Filled(p, s), bits)) <=> Undetected(p, Len(s), bits)
<1> DEFINE F == Filled(p, s)
           t == Flip(F, bits)
           n == Len(s)
<1>1. F \in Seq(Bytes) /\ Len(F) = n /\ n > 4 /\ n \in Nat /\ Accepts(p, F)
  BY FilledPasses
<1> HIDE DEF F
<1>2. /\ CsumOf(p, t) = Xor(CsumOf(p, F), Added(p, n, bits))
      /\ Saved(p, t) = Xor(Saved(p, F), Struck(p, n, bits))
  BY <1>1, CsumAdds, SavedAdds
<1>3. Saved(p, F) = CsumOf(p, F)
  BY <1>1 DEF Accepts
<1>4. \A x, y, z : Xor(x, y) = Xor(x, z) <=> y = z
  BY DEF Xor
<1>5. Saved(p, t) = CsumOf(p, t) <=> Struck(p, n, bits) = Added(p, n, bits)
  BY <1>2, <1>3, <1>4
<1>6. ASSUME p = "msg_hdr"
      PROVE  t[5] = t[7] /\ t[6] = t[8] <=>
               Mask(5, bits) = Mask(7, bits) /\ Mask(6, bits) = Mask(8, bits)
  <2>1. F[5] = F[7] /\ F[6] = F[8]
    BY <1>1, <1>6 DEF Accepts
  <2>2. \A i \in 1..n : t[i] = Xor(F[i], Mask(i, bits))
    BY <1>1 DEF Flip, Mask
  <2>3. 5 \in 1..n /\ 6 \in 1..n /\ 7 \in 1..n /\ 8 \in 1..n
    <3>1. n = 10
      BY <1>6
    <3> QED
      BY <3>1
  <2> HIDE DEF t, n
  <2> QED
    BY <1>4, <2>1, <2>2, <2>3
<1> QED
  BY <1>5, <1>6 DEF Accepts, Undetected, F

=============================================================================
