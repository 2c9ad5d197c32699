------------------------------- MODULE MCData --------------------------------
(***************************************************************************)
(* The modules about data for TLC: checksums, frames, sizes, bitmaps,      *)
(* compacted packets and deadlines.  They share no state: each behaviour   *)
(* exercises one of them, and the others stay as they were initialised.    *)
(***************************************************************************)
EXTENDS Csum, Framing, SendFit, Bitmap, Crc, FlowClock, MCCodec

VARIABLE which                                             \* the one exercised

Trial(p, len, head, flips, burst) ==
  [part |-> p, bytes |-> <<head>> \o [i \in 1..(len - 1) |-> {}], flips |-> flips, burst |-> burst]

\* All first bytes, so that each entry of each table is used.
TableTrials ==
  {Trial(p, IF p = "message" THEN 5 ELSE 8, head, 0, 0) :
     p \in {"frm_hdr", "slice", "message"}, head \in SUBSET (0..7)}

\* One bit or a run in several contents; then three flipped bits and bursts in
\* the short parts, two in the long ones.
LinkTrials ==
  {Trial(p, IF p = "msg_hdr" THEN 10 ELSE IF p = "message" THEN 12 ELSE 8, head, 1, 1) :
     p \in {"frm_hdr", "msg_hdr", "slice", "message"},
     head \in {{i} : i \in 0..7} \cup {{}, {0, 3, 4, 7}, 0..7}}

OtherTrials ==
  {Trial("frm_hdr", 8, {}, 3, 7), Trial("msg_hdr", 10, {}, 3, 7),
   Trial("slice", 20, {}, 2, 7), Trial("message", 12, {}, 2, 7)}

SomeTrials == TableTrials \cup LinkTrials \cup OtherTrials

ASSUME TrialsAssumption

\* Those of the modules that have more than one initial state.
Init ==
  /\ which \in {"csum", "framing", "fit", "bitmap", "crc", "clock", "codec"}
  /\ CsumInit /\ FramingInit /\ ClockInit /\ CodecInit
  /\ FitInit /\ (which # "fit" => first = 0 /\ last = 0)
  /\ BitmapInit /\ (which # "bitmap" => rse_n_slices = 1)
  /\ CrcInit /\ (which # "crc" => trial = Trial("frm_hdr", 8, {}, 1, 1))

Next ==
  \/ /\ which = "csum" /\ CsumNext
     /\ UNCHANGED <<which, framingVars, fitVars, bitmapVars, crcVars, clockVars, codecVars>>
  \/ /\ which = "framing" /\ FramingNext
     /\ UNCHANGED <<which, csumVars, fitVars, bitmapVars, crcVars, clockVars, codecVars>>
  \/ /\ which = "fit" /\ FitNext
     /\ UNCHANGED <<which, csumVars, framingVars, bitmapVars, crcVars, clockVars, codecVars>>
  \/ /\ which = "bitmap" /\ BitmapNext
     /\ UNCHANGED <<which, csumVars, framingVars, fitVars, crcVars, clockVars, codecVars>>
  \/ /\ which = "crc" /\ CrcNext
     /\ UNCHANGED <<which, csumVars, framingVars, fitVars, bitmapVars, clockVars, codecVars>>
  \/ /\ which = "clock" /\ ClockNext
     /\ UNCHANGED <<which, csumVars, framingVars, fitVars, bitmapVars, crcVars, codecVars>>
  \/ /\ which = "codec" /\ CodecNext
     /\ UNCHANGED <<which, csumVars, framingVars, fitVars, bitmapVars, crcVars, clockVars>>

vars == <<which, csumVars, framingVars, fitVars, bitmapVars, crcVars, clockVars, codecVars>>

Spec == Init /\ [][Next]_vars /\ WF_fitVars(which = "fit" /\ Try)
=============================================================================
